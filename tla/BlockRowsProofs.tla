-------------------------- MODULE BlockRowsProofs ---------------------------
(***************************************************************************)
(* Theorems about BlockRows, for every pipeline, every chain of the        *)
(* transactions it considers, and every interleaving of the two indexers.  *)
(***************************************************************************)
EXTENDS BlockRows, SequenceTheorems, FiniteSetTheorems, WellFoundedInduction, TLAPS

\* A bounded set of natural numbers that is not empty has a greatest element: the
\* intervals from its elements up to the bound are finite, and inclusion of finite
\* sets is well-founded.
LEMMA GreatestElement ==
    ASSUME NEW k \in Nat, NEW S \in SUBSET (0..k), S # {}
    PROVE  \E m \in S : \A n \in S : n <= m
<1> DEFINE T == {n..k : n \in S}
<1>1. ASSUME NEW n \in S
      PROVE  /\ n \in Nat /\ n..k \in SUBSET Nat /\ n..k \in FiniteSubsetsOf(Nat)
             /\ n \in n..k /\ \A m \in S : n > m => n..k \subseteq m..k /\ m \notin n..k /\ m \in m..k
  <2>1. n \in 0..k /\ n..k \in SUBSET Nat /\ \A m \in S : m \in 0..k
    OBVIOUS
  <2>2. IsFiniteSet(n..k)
    BY <2>1, FS_Interval
  <2> QED
    BY <2>1, <2>2 DEF FiniteSubsetsOf
<1>2. T \subseteq FiniteSubsetsOf(Nat) /\ T # {}
  <2>1. \A n \in S : n..k \in FiniteSubsetsOf(Nat)
    BY <1>1
  <2> QED
    BY <2>1
<1>3. \A m \in S : m..k \in T
  BY Zenon
<1>4. PICK t \in T : \A u \in T : ~ (<<u, t>> \in StrictSubsetOrdering(Nat))
  <2> HIDE DEF T
  <2> QED
    BY <1>2, FS_StrictSubsetOrderingWellFounded, WFMin
<1>5. PICK m \in S : t = m..k
  OBVIOUS
<1>6. ASSUME NEW n \in S, n > m
      PROVE  FALSE
  <2>1. n..k \subseteq m..k /\ m \notin n..k /\ m \in m..k
    BY <1>1, <1>6
  <2>2. <<n..k, m..k>> \in StrictSubsetOrdering(Nat)
    BY <1>1, <2>1, Zenon DEF StrictSubsetOrdering
  <2> QED
    BY <1>3, <1>4, <1>5, <2>2
<1> QED
  BY <1>1, <1>6

-----------------------------------------------------------------------------
(* The chain.                                                              *)

Votings == {"yay", "nay", "abstain"}
ValidatorKinds == StateKinds \cup {"commission", "bond", "redelegate"}

Tx == [kind : ValidatorKinds \cup {"vote"}, arg : Validators \cup Votings,
       block : Nat, epoch : Nat]

Positions == 1..Len(chain)

\* Only a bond names its validator before it is known whether it has a row.
ChainInv ==
    /\ chain \in Seq(Tx)
    /\ tip \in [block : Nat, epoch : Nat] /\ tip.block > 0
    /\ \A i \in Positions : chain[i].kind # "vote" => chain[i].arg \in Validators
    /\ \A i \in Positions : chain[i].kind = "vote" => chain[i].arg \in Votings
    /\ \A i \in Positions : chain[i].block <= tip.block /\ chain[i].epoch <= tip.epoch
    /\ \A i, j \in Positions : i <= j => chain[i].block <= chain[j].block
    /\ \A i \in Positions : chain[i].kind = "bond" =>
          \/ chain[i].arg \in Genesis
          \/ \E j \in Positions : /\ chain[j].kind = "become" /\ chain[j].arg = chain[i].arg
                                  /\ chain[j].block <= chain[i].block

\* A step leaves the chain alone or adds a block to it.
Longer ==
    /\ Len(chain) <= Len(chain')
    /\ \A i \in Positions : chain'[i] = chain[i]
    /\ \A i \in Positions' \ Positions :
          tip.block < chain'[i].block /\ tip.epoch <= chain'[i].epoch
    /\ tip.block <= tip'.block /\ tip.epoch <= tip'.epoch

LEMMA Appended ==
    ASSUME NEW S, NEW s \in Seq(S), NEW t \in Seq(S)
    PROVE  /\ s \o t \in Seq(S) /\ Len(s \o t) = Len(s) + Len(t)
           /\ Len(s) \in Nat /\ Len(t) \in Nat
           /\ \A i \in 1..Len(s) : (s \o t)[i] = s[i]
           /\ \A i \in (Len(s) + 1)..(Len(s) + Len(t)) :
                 (s \o t)[i] = t[i - Len(s)] /\ i - Len(s) \in 1..Len(t)
<1>1. /\ s \o t \in Seq(S) /\ Len(s \o t) = Len(s) + Len(t)
      /\ \A i \in 1..(Len(s) + Len(t)) :
            (s \o t)[i] = IF i <= Len(s) THEN s[i] ELSE t[i - Len(s)]
  BY ConcatProperties
<1>2. Len(s) \in Nat /\ Len(t) \in Nat
  OBVIOUS
<1>3. \A i \in 1..Len(s) : (s \o t)[i] = s[i]
  BY <1>1, <1>2
<1>4. ASSUME NEW i \in (Len(s) + 1)..(Len(s) + Len(t))
      PROVE  (s \o t)[i] = t[i - Len(s)] /\ i - Len(s) \in 1..Len(t)
  <2>1. i \in 1..(Len(s) + Len(t)) /\ ~(i <= Len(s)) /\ i - Len(s) \in 1..Len(t)
    BY <1>2
  <2> QED
    BY <1>1, <2>1
<1> QED
  BY <1>1, <1>2, <1>3, <1>4

LEMMA ChainFacts ==
    ASSUME ChainInv
    PROVE  /\ DOMAIN chain = Positions /\ Len(chain) \in Nat
           /\ tip.block \in Nat /\ tip.epoch \in Nat
           /\ \A i \in Positions : /\ chain[i] \in Tx /\ chain[i].block \in Nat
                                   /\ chain[i].epoch \in Nat
<1>1. DOMAIN chain = Positions /\ Len(chain) \in Nat
  BY DEF ChainInv, Positions
<1>2. \A i \in Positions : chain[i] \in Tx
  BY DEF ChainInv, Positions
<1> QED
  BY <1>1, <1>2 DEF ChainInv, Tx

\* The transactions of a block as the node adds them.
Added(b, h, e) == [i \in DOMAIN b |-> [kind |-> b[i][1], arg |-> b[i][2],
                                       block |-> h, epoch |-> e]]

LEMMA AddedBlock ==
    ASSUME NEW b \in Blocks, NEW h \in Nat, NEW e \in Nat
    PROVE  /\ Added(b, h, e) \in Seq(Tx)
           /\ \A i \in 1..Len(Added(b, h, e)) :
                 /\ Added(b, h, e)[i].block = h /\ Added(b, h, e)[i].epoch = e
                 /\ Added(b, h, e)[i].kind # "vote" => Added(b, h, e)[i].arg \in Validators
                 /\ Added(b, h, e)[i].kind = "vote" => Added(b, h, e)[i].arg \in Votings
<1> DEFINE added == Added(b, h, e)
<1>1. b \in Seq(Transactions)
  BY BlocksAssumption
<1>2. \A i \in 1..Len(b) : b[i] \in Transactions
  BY <1>1
<1>3. DOMAIN b = 1..Len(b) /\ Len(b) \in Nat
  BY <1>1
<1>4. ASSUME NEW i \in 1..Len(b)
      PROVE  /\ [kind |-> b[i][1], arg |-> b[i][2], block |-> h, epoch |-> e] \in Tx
             /\ b[i][1] # "vote" => b[i][2] \in Validators
             /\ b[i][1] = "vote" => b[i][2] \in Votings
  <2>1. \/ b[i][1] \in ValidatorKinds /\ b[i][2] \in Validators
        \/ b[i][1] = "vote" /\ b[i][2] \in Votings
    BY <1>2 DEF Transactions, ValidatorKinds, Votings
  <2>2. "vote" \notin ValidatorKinds
    BY DEF ValidatorKinds, StateKinds
  <2> QED
    BY <2>1, <2>2 DEF Tx
<1>5. added = [i \in 1..Len(b) |-> [kind |-> b[i][1], arg |-> b[i][2], block |-> h, epoch |-> e]]
  BY <1>3 DEF Added
<1> HIDE DEF added
<1>6. \A i \in 1..Len(b) : added[i] \in Tx
  BY <1>4, <1>5
<1>7. added \in Seq(Tx) /\ Len(added) = Len(b)
  BY <1>3, <1>5, <1>6
<1>8. \A i \in 1..Len(added) :
         /\ added[i].block = h /\ added[i].epoch = e
         /\ added[i].kind # "vote" => added[i].arg \in Validators
         /\ added[i].kind = "vote" => added[i].arg \in Votings
  BY <1>4, <1>5, <1>7
<1> QED
  BY <1>7, <1>8 DEF added

LEMMA ChainGrows ==
    ASSUME ChainInv, NEW b \in Blocks, NEW e \in tip.epoch..MaxEpoch, Grow(b, e)
    PROVE  ChainInv' /\ Longer
<1> DEFINE added == Added(b, tip.block + 1, e)
           n == Len(chain)
<1>0. tip.block \in Nat /\ tip.epoch \in Nat /\ e \in Nat /\ tip.epoch <= e /\ n \in Nat
      /\ tip.block + 1 \in Nat
  BY ChainFacts, BlocksAssumption
<1>1. /\ chain' = chain \o added /\ tip' = [block |-> tip.block + 1, epoch |-> e]
      /\ \A i \in DOMAIN added : Executes(chain \o SubSeq(added, 1, i - 1), added[i])
  BY DEF Grow, Added
<1>2. /\ added \in Seq(Tx)
      /\ \A i \in 1..Len(added) :
            /\ added[i].block = tip.block + 1 /\ added[i].epoch = e
            /\ added[i].kind # "vote" => added[i].arg \in Validators
            /\ added[i].kind = "vote" => added[i].arg \in Votings
  BY <1>0, AddedBlock, Zenon
<1> HIDE DEF added
<1>3. chain \in Seq(Tx)
  BY DEF ChainInv
<1>4. /\ chain' \in Seq(Tx) /\ Len(chain') = n + Len(added) /\ Len(added) \in Nat
      /\ \A i \in 1..n : chain'[i] = chain[i]
      /\ \A i \in (n + 1)..(n + Len(added)) : chain'[i] = added[i - n] /\ i - n \in 1..Len(added)
  <2>1. /\ chain \o added \in Seq(Tx) /\ Len(chain \o added) = Len(chain) + Len(added)
        /\ Len(chain) \in Nat /\ Len(added) \in Nat
        /\ \A i \in 1..Len(chain) : (chain \o added)[i] = chain[i]
        /\ \A i \in (Len(chain) + 1)..(Len(chain) + Len(added)) :
              (chain \o added)[i] = added[i - Len(chain)] /\ i - Len(chain) \in 1..Len(added)
    BY <1>2, <1>3, Appended, Zenon
  <2> QED
    BY <1>1, <2>1, Zenon
<1>5. /\ tip' \in [block : Nat, epoch : Nat] /\ tip'.block = tip.block + 1 /\ tip'.epoch = e
  BY <1>0, <1>1
<1>6. /\ Positions' = 1..(n + Len(added))
      /\ \A i \in Positions' : i \in Positions \/ i \in (n + 1)..(n + Len(added))
      /\ \A i \in Positions : i \in Positions' /\ i \in 1..n
  BY <1>0, <1>4 DEF Positions
<1>7. Longer
  <2>1. \A i \in Positions' \ Positions : chain'[i].block = tip.block + 1 /\ chain'[i].epoch = e
    BY <1>2, <1>4, <1>6
  <2> QED
    BY <1>0, <1>4, <1>5, <1>6, <2>1 DEF Longer
<1>8. ASSUME NEW i \in Positions'
      PROVE  /\ chain'[i].kind # "vote" => chain'[i].arg \in Validators
             /\ chain'[i].kind = "vote" => chain'[i].arg \in Votings
             /\ chain'[i].block <= tip.block + 1 /\ chain'[i].epoch <= e
  <2>1. CASE i \in Positions
    BY <1>0, <1>4, <1>6, <2>1, ChainFacts DEF ChainInv
  <2>2. CASE i \in (n + 1)..(n + Len(added))
    <3>1. chain'[i] = added[i - n] /\ i - n \in 1..Len(added)
      BY <1>4, <2>2
    <3>2. /\ added[i - n].kind # "vote" => added[i - n].arg \in Validators
          /\ added[i - n].kind = "vote" => added[i - n].arg \in Votings
          /\ added[i - n].block = tip.block + 1 /\ added[i - n].epoch = e
      BY <1>2, <3>1
    <3> QED
      BY <1>0, <3>1, <3>2
  <2> QED
    BY <1>6, <2>1, <2>2
<1>9. ASSUME NEW i \in Positions', NEW j \in Positions', i <= j
      PROVE  chain'[i].block <= chain'[j].block
  <2>1. CASE j \in Positions
    <3>1. i \in Positions
      BY <1>0, <1>6, <1>9, <2>1 DEF Positions
    <3> QED
      BY <1>4, <1>6, <1>9, <2>1, <3>1 DEF ChainInv
  <2>2. CASE j \in (n + 1)..(n + Len(added))
    BY <1>0, <1>2, <1>4, <1>8, <2>2
  <2> QED
    BY <1>6, <2>1, <2>2
<1>10. ASSUME NEW i \in Positions', chain'[i].kind = "bond"
       PROVE  \/ chain'[i].arg \in Genesis
              \/ \E j \in Positions' : /\ chain'[j].kind = "become" /\ chain'[j].arg = chain'[i].arg
                                       /\ chain'[j].block <= chain'[i].block
  <2>1. CASE i \in Positions
    BY <1>4, <1>6, <1>10, <2>1 DEF ChainInv
  <2>2. CASE i \in (n + 1)..(n + Len(added))
    <3> DEFINE k == i - n
               txs == chain \o SubSeq(added, 1, k - 1)
               later == Effective(txs, added[k].epoch + Pipeline)
    <3>1. k \in 1..Len(added) /\ chain'[i] = added[k] /\ k \in DOMAIN added
      BY <1>2, <1>4, <2>2
    <3>2. added[k].arg \in SetAfter(txs, later)
      <4>1. Executes(txs, added[k])
        BY <1>1, <3>1
      <4> QED
        BY <1>10, <3>1, <4>1 DEF Executes
    <3>3. later \subseteq DOMAIN txs
      BY DEF Effective
    <3>4. /\ DOMAIN txs = 1..(n + k - 1)
          /\ \A j \in 1..(n + k - 1) : j \in Positions' /\ txs[j] = chain'[j]
      <4>1. SubSeq(added, 1, k - 1) \in Seq(Tx) /\ Len(SubSeq(added, 1, k - 1)) = k - 1
        BY <1>2, <3>1
      <4>2. \A j \in 1..(k - 1) : SubSeq(added, 1, k - 1)[j] = added[j]
        BY <1>2, <3>1
      <4>3. DOMAIN txs = 1..(n + k - 1)
        BY <1>0, <1>3, <3>1, <4>1
      <4>4. ASSUME NEW j \in 1..(n + k - 1)
            PROVE  j \in Positions' /\ txs[j] = chain'[j]
        <5>1. j \in Positions'
          BY <1>0, <1>4, <1>6, <3>1
        <5> DEFINE part == SubSeq(added, 1, k - 1)
        <5>4. /\ \A m \in 1..Len(chain) : (chain \o part)[m] = chain[m]
              /\ \A m \in (Len(chain) + 1)..(Len(chain) + Len(part)) :
                    (chain \o part)[m] = part[m - Len(chain)] /\ m - Len(chain) \in 1..Len(part)
          <6> HIDE DEF part
          <6>1. part \in Seq(Tx)
            BY <4>1 DEF part
          <6> QED
            BY <1>3, <6>1, Appended, Zenon
        <5> HIDE DEF part
        <5>5. txs = chain \o part /\ Len(part) = k - 1
          BY <4>1 DEF part
        <5> HIDE DEF txs
        <5>2. CASE j \in 1..n
          BY <1>4, <5>1, <5>2, <5>4, <5>5
        <5>3. CASE j \in (n + 1)..(n + k - 1)
          <6>1. txs[j] = part[j - n] /\ j - n \in 1..(k - 1)
            BY <5>3, <5>4, <5>5
          <6>3. part[j - n] = added[j - n]
            BY <4>2, <6>1 DEF part
          <6>2. j \in (n + 1)..(n + Len(added))
            BY <1>0, <3>1, <5>3, <1>4
          <6> QED
            BY <1>4, <5>1, <6>1, <6>2, <6>3
        <5> QED
          BY <1>0, <3>1, <5>1, <5>2, <5>3
      <4> QED
        BY <4>3, <4>4
    <3> HIDE DEF later, txs, k
    <3>5. CASE added[k].arg \in Genesis
      BY <3>1, <3>5
    <3>6. CASE added[k].arg \in Named(txs, later, "become")
      <4>1. PICK j \in later : txs[j].kind = "become" /\ txs[j].arg = added[k].arg
        BY <3>6 DEF Named
      <4>2. j \in Positions' /\ txs[j] = chain'[j]
        BY <3>3, <3>4, <4>1
      <4>3. chain'[i].block = tip.block + 1
        BY <1>2, <3>1
      <4>4. chain'[j].block <= chain'[i].block
        BY <1>8, <4>2, <4>3
      <4> QED
        BY <3>1, <4>1, <4>2, <4>4
    <3> QED
      BY <3>2, <3>5, <3>6 DEF SetAfter
  <2> QED
    BY <1>6, <2>1, <2>2
<1>11. ChainInv'
  BY <1>4, <1>5, <1>8, <1>9, <1>10 DEF ChainInv
<1> QED
  BY <1>7, <1>11

-----------------------------------------------------------------------------
(* The rows of the node after some of its transactions.                    *)

ShownKinds == StateKinds \cup {"commission"}
States == {"consensus", "inactive", "deactivating", "reactivating"}
Row == {NoRow} \cup [state : States, commission : Nat]

LEMMA MaxIs ==
    ASSUME NEW n \in Nat, NEW S \in SUBSET (1..n), S # {}
    PROVE  Max(S) \in S /\ Max(S) \in 1..n /\ \A i \in S : i <= Max(S)
<1>1. S \in SUBSET (0..n) /\ \A m \in S : m \in 1..n
  OBVIOUS
<1>2. PICK m \in S : \A i \in S : i <= m
  BY <1>1, GreatestElement
<1>3. m \in S /\ \A i \in S : m >= i
  BY <1>1, <1>2
<1>4. Max(S) \in S /\ \A i \in S : Max(S) >= i
  BY <1>3, Zenon DEF Max
<1> QED
  BY <1>1, <1>4

\* Only the transactions that change a validator count for its row.
LEMMA RowDependsOn ==
    ASSUME NEW txs, NEW A, NEW B, NEW v \in Validators,
           Of(txs, A, v, ShownKinds) = Of(txs, B, v, ShownKinds)
    PROVE  /\ RowsAfter(txs, A)[v] = RowsAfter(txs, B)[v]
           /\ v \in SetAfter(txs, A) <=> v \in SetAfter(txs, B)
<1>1. /\ Of(txs, A, v, StateKinds) = Of(txs, B, v, StateKinds)
      /\ Of(txs, A, v, {"commission"}) = Of(txs, B, v, {"commission"})
      /\ Of(txs, A, v, {"become"}) = Of(txs, B, v, {"become"})
  <2>1. \A kinds \in SUBSET ShownKinds : \A among :
           Of(txs, among, v, kinds) = {i \in Of(txs, among, v, ShownKinds) : txs[i].kind \in kinds}
    BY DEF Of
  <2>2. {StateKinds, {"commission"}, {"become"}} \subseteq SUBSET ShownKinds
    BY DEF ShownKinds, StateKinds
  <2>3. \A kinds \in SUBSET ShownKinds : Of(txs, A, v, kinds) = Of(txs, B, v, kinds)
    BY <2>1
  <2> QED
    BY <2>2, <2>3
<1>2. \A among : v \in SetAfter(txs, among) <=> v \in Genesis \/ Of(txs, among, v, {"become"}) # {}
  BY DEF SetAfter, Named, Of
<1>3. v \in SetAfter(txs, A) <=> v \in SetAfter(txs, B)
  BY <1>1, <1>2
<1>4. /\ StateAfter(txs, A, v) = StateAfter(txs, B, v)
      /\ CommissionAfter(txs, A, v) = CommissionAfter(txs, B, v)
  BY <1>1 DEF StateAfter, CommissionAfter
<1> QED
  BY <1>3, <1>4 DEF RowsAfter

LEMMA RowTypes ==
    ASSUME ChainInv, NEW A \in SUBSET Positions
    PROVE  /\ RowsAfter(chain, A) \in [Validators -> Row]
           /\ \A v \in Validators :
                 RowsAfter(chain, A)[v] # NoRow <=> v \in SetAfter(chain, A)
<1>1. ASSUME NEW v \in Validators
      PROVE  /\ StateAfter(chain, A, v) \in {"consensus", "inactive"}
             /\ CommissionAfter(chain, A, v) \in Nat
  <2>1. Of(chain, A, v, {"commission"}) \subseteq 1..Len(chain)
    BY DEF Of, Positions
  <2>2. IsFiniteSet(1..Len(chain))
    BY ChainFacts, FS_Interval
  <2>3. CommissionAfter(chain, A, v) \in Nat
    BY <2>1, <2>2, FS_Subset, FS_CardinalityType DEF CommissionAfter
  <2> QED
    BY <2>3 DEF StateAfter
<1>2. ASSUME NEW v \in Validators
      PROVE  /\ RowsAfter(chain, A)[v] \in Row
             /\ RowsAfter(chain, A)[v] # NoRow <=> v \in SetAfter(chain, A)
  BY <1>1 DEF RowsAfter, Row, States, NoRow
<1> QED
  BY <1>2 DEF RowsAfter

\* A step changes nothing of what there was.
LEMMA AfterKept ==
    ASSUME ChainInv, Longer, NEW A \in SUBSET Positions
    PROVE  RowsAfter(chain', A) = RowsAfter(chain, A) /\ SetAfter(chain', A) = SetAfter(chain, A)
<1>1. \A i \in A : chain'[i] = chain[i]
  BY DEF Longer
<1>2. \A v, kinds : Of(chain', A, v, kinds) = Of(chain, A, v, kinds)
  BY <1>1 DEF Of
<1>3. SetAfter(chain', A) = SetAfter(chain, A)
  BY <1>1 DEF SetAfter, Named
<1>4. ASSUME NEW v
      PROVE  StateAfter(chain', A, v) = StateAfter(chain, A, v)
  <2> DEFINE changes == Of(chain, A, v, StateKinds)
  <2>1. changes \in SUBSET (1..Len(chain)) /\ changes \subseteq A
    BY DEF Of, Positions
  <2>2. changes # {} => Max(changes) \in A
    BY <2>1, ChainFacts, MaxIs
  <2>3. changes # {} => chain'[Max(changes)] = chain[Max(changes)]
    BY <1>1, <2>2
  <2> QED
    BY <1>2, <2>3 DEF StateAfter
<1>5. \A v : CommissionAfter(chain', A, v) = CommissionAfter(chain, A, v)
  BY <1>2 DEF CommissionAfter
<1> QED
  BY <1>3, <1>4, <1>5 DEF RowsAfter

LEMMA EffectiveFacts ==
    ASSUME ChainInv, NEW x \in Nat
    PROVE  /\ Effective(chain, x) = {i \in Positions : chain[i].epoch + Pipeline <= x}
           /\ Effective(chain, x) \in SUBSET Positions
  BY ChainFacts DEF Effective

\* What has taken effect at an epoch that has begun does not change.
LEMMA EffectiveKept ==
    ASSUME ChainInv, ChainInv', Longer, NEW x \in Nat, x <= tip.epoch
    PROVE  /\ Effective(chain', x) = Effective(chain, x)
           /\ RowsAt(chain', x) = RowsAt(chain, x)
           /\ SetAt(chain', x) = SetAt(chain, x)
<1>1. Effective(chain', x) = {i \in Positions' : chain'[i].epoch + Pipeline <= x}
  <2>1. DOMAIN chain' = 1..Len(chain')
    BY DEF ChainInv
  <2> QED
    BY <2>1 DEF Effective, Positions
<1>2. Positions \subseteq Positions'
  <2>1. Len(chain) \in Nat /\ Len(chain') \in Nat
    BY DEF ChainInv
  <2> QED
    BY <2>1 DEF Positions, Longer
<1>3. ASSUME NEW i \in Positions', i \notin Positions
      PROVE  ~(chain'[i].epoch + Pipeline <= x)
  <2>1. chain'[i].epoch \in Nat
    <3>1. chain'[i] \in Tx
      BY DEF ChainInv, Positions
    <3> QED
      BY <3>1 DEF Tx
  <2> QED
    BY <1>3, <2>1, ChainFacts, PipelineAssumption DEF Longer
<1>4. Effective(chain', x) = Effective(chain, x)
  BY <1>1, <1>2, <1>3, EffectiveFacts DEF Longer
<1> QED
  BY <1>4, AfterKept, EffectiveFacts DEF RowsAt, SetAt


-----------------------------------------------------------------------------
(* The invariant.                                                          *)

UpTo(b) == {i \in Positions : chain[i].block <= b}

\* Block b is in epoch e, and both are there.
Cut(b, e) ==
    /\ b \in Nat /\ e \in Nat /\ b <= tip.block /\ e <= tip.epoch
    /\ \A i \in Positions : chain[i].block <= b => chain[i].epoch <= e
    /\ \A i \in Positions : b < chain[i].block => e <= chain[i].epoch

\* No vote of the blocks up to b was cast after vote x.
LastVote(x, b) ==
    (\E i \in Positions : chain[i].kind = "vote" /\ chain[i].block <= b) =>
        \E i \in Positions :
            /\ chain[i].kind = "vote" /\ x = chain[i].arg
            /\ \A j \in Positions : chain[j].kind = "vote" /\ j > i => chain[j].block > b

Types ==
    /\ rows \in [Validators -> Row]
    /\ snap \in [block : Nat, epoch : Nat, rows : [Validators -> Row],
                 redelegations : SUBSET Validators, bonds : SUBSET Validators,
                 vote : Votings \cup {"none"}]
    /\ posEpoch \in Nat /\ posNext \in Nat /\ posEpoch < posNext /\ posEpoch <= tip.epoch
    /\ height \in Nat /\ height <= tip.block /\ at \in Nat
    /\ Crawling => 0 < height /\ height <= at /\ at <= height + 1

\* A snapshot has the validators that came by its block, and so those that its
\* redelegations refer to; the bonds are of those that came by any block.
SnapshotInv ==
    /\ task \in {"set", "redelegations", "stake", "write"} =>
          snap.block > 0 /\ Cut(snap.block, snap.epoch)
    /\ task \in {"redelegations", "stake", "write"} =>
          \E A \in SUBSET Positions : UpTo(snap.block) \subseteq A /\ snap.rows = RowsAfter(chain, A)
    /\ task \in {"stake", "write"} =>
          /\ snap.redelegations \subseteq SetAt(chain, snap.epoch)
          /\ \A i \in UpTo(snap.block) :
                chain[i].kind = "redelegate" /\ chain[i].arg \in SetAt(chain, snap.epoch) =>
                    chain[i].arg \in snap.redelegations
    /\ task = "write" =>
          snap.bonds \subseteq SetAfter(chain, Positions) /\ LastVote(snap.vote, snap.block)

\* Who came by the recorded block has a row.
CameInv == height > 0 => SetAfter(chain, UpTo(height)) \subseteq HaveRows(rows)

ListedInv ==
    /\ Cut(base.block, base.epoch)
    /\ \A i \in UpTo(height) : chain[i].kind = "redelegate" =>
          \/ chain[i].arg \in redelegations
          \/ chain[i].block <= base.block /\ chain[i].arg \notin SetAt(chain, base.epoch)
    /\ LastVote(vote, height)

RowsInv == ChainInv /\ Types /\ SnapshotInv /\ CameInv

\* A block more changes nothing of it.
LEMMA StillSo ==
    ASSUME ChainInv, ChainInv', Longer
    PROVE  /\ Positions \subseteq Positions'
           /\ \A b \in Nat : b <= tip.block => UpTo(b)' = UpTo(b)
           /\ \A b, e : Cut(b, e) => Cut(b, e)'
           /\ \A x : \A b \in Nat : b <= tip.block /\ LastVote(x, b) => LastVote(x, b)'
<1>1. Positions \subseteq Positions'
  <2>1. Len(chain) \in Nat /\ Len(chain') \in Nat
    BY DEF ChainInv
  <2> QED
    BY <2>1 DEF Positions, Longer
<1>2. \A i \in Positions' : chain'[i].block \in Nat /\ chain'[i].epoch \in Nat
  <2>1. \A i \in Positions' : chain'[i] \in Tx
    BY DEF ChainInv, Positions
  <2> QED
    BY <2>1 DEF Tx
<1>3. /\ \A i \in Positions' : \/ i \in Positions /\ chain'[i] = chain[i]
                               \/ tip.block < chain'[i].block /\ tip.epoch <= chain'[i].epoch
      /\ tip.block <= tip'.block /\ tip.epoch <= tip'.epoch
      /\ tip.block \in Nat /\ tip.epoch \in Nat /\ tip'.block \in Nat /\ tip'.epoch \in Nat
  <2>1. tip' \in [block : Nat, epoch : Nat]
    BY DEF ChainInv
  <2>2. tip'.block \in Nat /\ tip'.epoch \in Nat
    BY <2>1
  <2>3. ASSUME NEW i \in Positions'
        PROVE  \/ i \in Positions /\ chain'[i] = chain[i]
               \/ tip.block < chain'[i].block /\ tip.epoch <= chain'[i].epoch
    <3>1. CASE i \in Positions
      BY <3>1 DEF Longer
    <3>2. CASE i \in Positions' \ Positions
      BY <3>2 DEF Longer
    <3> QED
      BY <3>1, <3>2
  <2>4. tip.block <= tip'.block /\ tip.epoch <= tip'.epoch
    BY DEF Longer
  <2> QED
    BY <2>2, <2>3, <2>4, ChainFacts
<1>4. \A i \in Positions : chain'[i] = chain[i]
  BY DEF Longer
<1>5. ASSUME NEW b \in Nat, b <= tip.block
      PROVE  \A i \in Positions' : chain'[i].block <= b <=> i \in Positions /\ chain[i].block <= b
  BY <1>2, <1>3, <1>4, <1>5
<1>6. ASSUME NEW b \in Nat, b <= tip.block
      PROVE  UpTo(b)' = UpTo(b)
  BY <1>1, <1>5, <1>6 DEF UpTo
<1>7. ASSUME NEW b, NEW e, Cut(b, e)
      PROVE  Cut(b, e)'
  <2>1. b \in Nat /\ e \in Nat /\ b <= tip.block /\ e <= tip.epoch
    BY <1>7 DEF Cut
  <2>2. b <= tip'.block /\ e <= tip'.epoch
    BY <1>3, <2>1
  <2>3. ASSUME NEW i \in Positions'
        PROVE  /\ chain'[i].block <= b => chain'[i].epoch <= e
               /\ b < chain'[i].block => e <= chain'[i].epoch
    <3>1. CASE i \in Positions /\ chain'[i] = chain[i]
      BY <1>7, <3>1 DEF Cut
    <3>2. CASE tip.block < chain'[i].block /\ tip.epoch <= chain'[i].epoch
      BY <1>2, <1>3, <2>1, <3>2
    <3> QED
      BY <1>3, <3>1, <3>2
  <2> QED
    BY <2>1, <2>2, <2>3 DEF Cut
<1>8. ASSUME NEW x, NEW b \in Nat, b <= tip.block, LastVote(x, b)
      PROVE  LastVote(x, b)'
  <2>1. SUFFICES ASSUME NEW k \in Positions', chain'[k].kind = "vote", chain'[k].block <= b
                 PROVE  \E i \in Positions' :
                           /\ chain'[i].kind = "vote" /\ x = chain'[i].arg
                           /\ \A j \in Positions' : chain'[j].kind = "vote" /\ j > i => chain'[j].block > b
    BY DEF LastVote
  <2>2. k \in Positions /\ chain[k].kind = "vote" /\ chain[k].block <= b
    BY <1>4, <1>5, <1>8, <2>1
  <2>3. PICK i \in Positions :
           /\ chain[i].kind = "vote" /\ x = chain[i].arg
           /\ \A j \in Positions : chain[j].kind = "vote" /\ j > i => chain[j].block > b
    BY <1>8, <2>2 DEF LastVote
  <2>4. ASSUME NEW j \in Positions', chain'[j].kind = "vote", j > i
        PROVE  chain'[j].block > b
    <3>1. CASE j \in Positions /\ chain'[j] = chain[j]
      BY <2>3, <2>4, <3>1
    <3>2. CASE tip.block < chain'[j].block
      BY <1>2, <1>3, <1>8, <3>2
    <3> QED
      BY <1>3, <3>1, <3>2
  <2> QED
    BY <1>1, <1>4, <2>3, <2>4
<1> QED
  BY <1>1, <1>6, <1>7, <1>8

LEMMA NodeStep ==
    ASSUME ChainInv, [Next]_vars
    PROVE  /\ ChainInv' /\ Longer
           /\ chain' = chain \/ UNCHANGED <<process, pos, database, base>>
<1>1. ASSUME NEW b \in Blocks, NEW e \in tip.epoch..MaxEpoch, Grow(b, e)
      PROVE  ChainInv' /\ Longer /\ UNCHANGED <<process, pos, database, base>>
  BY <1>1, ChainGrows DEF Grow
<1>2. ASSUME UNCHANGED node
      PROVE  ChainInv' /\ Longer /\ chain' = chain
  <2>1. chain' = chain /\ tip' = tip
    BY <1>2 DEF node
  <2>2. Positions' = Positions
    BY <2>1 DEF Positions
  <2>3. Longer
    BY <2>1, <2>2, ChainFacts DEF Longer
  <2> QED
    BY <2>1, <2>2, <2>3 DEF ChainInv
<1>3. CASE Indexer
  <2>1. UNCHANGED node
    BY <1>3 DEF Indexer, Start, Snapshots, SnapshotHead, SnapshotSet, SnapshotRedelegations,
                SnapshotStake, SnapshotStep, WriteSnapshot, Crawls, WriteBlock, TrialRefused,
                Attempt, BondPanics
  <2> QED
    BY <1>2, <2>1
<1>4. CASE TrialFails \/ Killed \/ PosTick \/ PosRestart \/ UNCHANGED vars
  <2>1. UNCHANGED node
    BY <1>4 DEF TrialFails, Killed, PosTick, PosRestart, vars
  <2> QED
    BY <1>2, <2>1
<1> QED
  BY <1>1, <1>3, <1>4 DEF Next

-----------------------------------------------------------------------------
(* What the writes do to the rows.                                         *)

LEMMA RowFacts ==
    ASSUME NEW r \in Row
    PROVE  /\ r # NoRow <=> r \in [state : States, commission : Nat]
           /\ r # NoRow => /\ \A s \in States : /\ [r EXCEPT !.state = s] \in Row
                                               /\ [r EXCEPT !.state = s] # NoRow
                          /\ \A c \in Nat : /\ [r EXCEPT !.commission = c] \in Row
                                            /\ [r EXCEPT !.commission = c] # NoRow
<1>1. "none" \notin States /\ NoRow.state = "none"
  BY DEF States, NoRow
<1>2. \A q \in [state : States, commission : Nat] : q # NoRow /\ q \in Row
  BY <1>1 DEF Row
<1>3. r # NoRow <=> r \in [state : States, commission : Nat]
  BY <1>2 DEF Row
<1>4. ASSUME r # NoRow, NEW s \in States
      PROVE  [r EXCEPT !.state = s] \in [state : States, commission : Nat]
  BY <1>3, <1>4
<1>5. ASSUME r # NoRow, NEW c \in Nat
      PROVE  [r EXCEPT !.commission = c] \in [state : States, commission : Nat]
  BY <1>3, <1>5
<1> QED
  BY <1>2, <1>3, <1>4, <1>5

LEMMA WithTypes ==
    ASSUME NEW t \in [Validators -> Row], NEW new \in [Validators -> Row]
    PROVE  /\ With(t, new) \in [Validators -> Row]
           /\ HaveRows(With(t, new)) = HaveRows(t) \cup HaveRows(new)
  BY DEF With, HaveRows

\* The rows of the validators a block creates.
LEMMA Created ==
    ASSUME NEW t \in [Validators -> Row]
    PROVE  /\ UpsertValidators(t) \in [Validators -> Row]
           /\ HaveRows(UpsertValidators(t)) =
                 HaveRows(t) \cup (Validators \cap Named(chain, InBlock(at), "become"))
           /\ \A v \in Validators : v \notin Named(chain, InBlock(at), "become") =>
                 UpsertValidators(t)[v] = t[v]
<1>1. [state |-> "inactive", commission |-> 0] \in Row
  BY DEF Row, States
<1>2. [state |-> "inactive", commission |-> 0] # NoRow
  BY DEF NoRow
<1> QED
  BY <1>1, <1>2 DEF UpsertValidators, HaveRows

LEMMA StatesChanged ==
    ASSUME NEW t \in [Validators -> Row], NEW last \in [Validators -> DOMAIN Announced]
    PROVE  /\ UpsertStates(t, last) \in [Validators -> Row]
           /\ HaveRows(UpsertStates(t, last)) = HaveRows(t)
           /\ \A v \in Validators : (\A kind \in DOMAIN Announced : v \notin Named(chain, InBlock(at), kind)) =>
                 UpsertStates(t, last)[v] = t[v]
<1> DEFINE Changed(v) == {kind \in DOMAIN Announced : v \in Named(chain, InBlock(at), kind)}
           Final(v) == IF last[v] \in Changed(v) THEN last[v] ELSE CHOOSE kind \in Changed(v) : TRUE
           new == UpsertStates(t, last)
<1>1. \A kind \in DOMAIN Announced : Announced[kind] \in States
  BY DEF Announced, States
<1>2. \A v \in Validators : Changed(v) # {} => Final(v) \in DOMAIN Announced
  OBVIOUS
<1>3. new = [v \in Validators |-> IF Changed(v) = {} \/ t[v] = NoRow THEN t[v]
                                ELSE [t[v] EXCEPT !.state = Announced[Final(v)]]]
  BY DEF UpsertStates
<1> HIDE DEF new, Changed, Final
<1>4. ASSUME NEW v \in Validators
      PROVE  /\ new[v] \in Row
             /\ new[v] # NoRow <=> t[v] # NoRow
             /\ Changed(v) = {} => new[v] = t[v]
  <2>1. CASE Changed(v) = {} \/ t[v] = NoRow
    BY <1>3, <2>1
  <2>2. CASE ~(Changed(v) = {} \/ t[v] = NoRow)
    <3>1. Announced[Final(v)] \in States
      BY <1>1, <1>2, <2>2
    <3> QED
      BY <1>3, <2>2, <3>1, RowFacts
  <2> QED
    BY <2>1, <2>2
<1>5. new \in [Validators -> Row]
  BY <1>3, <1>4
<1>6. HaveRows(new) = HaveRows(t)
  BY <1>4 DEF HaveRows
<1> QED
  BY <1>4, <1>5, <1>6 DEF new, Changed

LEMMA CommissionsChanged ==
    ASSUME ChainInv, NEW t \in [Validators -> Row]
    PROVE  /\ UpdateMetadata(t) \in [Validators -> Row]
           /\ HaveRows(UpdateMetadata(t)) = HaveRows(t)
           /\ \A v \in Validators : v \notin Named(chain, InBlock(at), "commission") =>
                 UpdateMetadata(t)[v] = t[v]
<1> DEFINE upto == {i \in DOMAIN chain : chain[i].block <= at}
           new == UpdateMetadata(t)
<1>1. \A v : CommissionAfter(chain, upto, v) \in Nat
  <2>1. \A v : Of(chain, upto, v, {"commission"}) \subseteq 1..Len(chain)
    BY ChainFacts DEF Of, Positions
  <2>2. IsFiniteSet(1..Len(chain))
    BY ChainFacts, FS_Interval
  <2> QED
    BY <2>1, <2>2, FS_Subset, FS_CardinalityType DEF CommissionAfter
<1>2. new = [v \in Validators |-> IF v \in Named(chain, InBlock(at), "commission") /\ t[v] # NoRow
                                THEN [t[v] EXCEPT !.commission = CommissionAfter(chain, upto, v)]
                                ELSE t[v]]
  BY DEF UpdateMetadata
<1> HIDE DEF new, upto
<1>3. ASSUME NEW v \in Validators
      PROVE  /\ new[v] \in Row
             /\ new[v] # NoRow <=> t[v] # NoRow
             /\ v \notin Named(chain, InBlock(at), "commission") => new[v] = t[v]
  <2>1. CASE v \in Named(chain, InBlock(at), "commission") /\ t[v] # NoRow
    BY <1>1, <1>2, <2>1, RowFacts
  <2>2. CASE ~(v \in Named(chain, InBlock(at), "commission") /\ t[v] # NoRow)
    BY <1>2, <2>2
  <2> QED
    BY <2>1, <2>2
<1>4. new \in [Validators -> Row]
  BY <1>2, <1>3
<1>5. HaveRows(new) = HaveRows(t)
  BY <1>3 DEF HaveRows
<1> QED
  BY <1>3, <1>4, <1>5 DEF new

\* Who has a row keeps it, who comes gets one, and a row changes only with its
\* validator.
LEMMA BlockWritten ==
    ASSUME ChainInv, Types, WriteBlock
    PROVE  /\ rows' \in [Validators -> Row]
           /\ HaveRows(rows') =
                 HaveRows(rows) \cup (Validators \cap Named(chain, InBlock(at), "become"))
           /\ \A v \in Validators :
                 (\A kind \in ShownKinds : v \notin Named(chain, InBlock(at), kind)) =>
                     rows'[v] = rows[v]
<1>1. PICK last \in [Validators -> DOMAIN Announced] :
         rows' = UpdateMetadata(UpsertStates(UpsertValidators(rows), last))
  BY DEF WriteBlock
<1> DEFINE t1 == UpsertValidators(rows)
           t2 == UpsertStates(t1, last)
<1>2. /\ t1 \in [Validators -> Row]
      /\ HaveRows(t1) = HaveRows(rows) \cup (Validators \cap Named(chain, InBlock(at), "become"))
      /\ \A v \in Validators : v \notin Named(chain, InBlock(at), "become") => t1[v] = rows[v]
  BY Created DEF Types
<1> HIDE DEF t1
<1>3. /\ t2 \in [Validators -> Row]
      /\ HaveRows(t2) = HaveRows(t1)
      /\ \A v \in Validators : (\A kind \in DOMAIN Announced : v \notin Named(chain, InBlock(at), kind)) =>
            t2[v] = t1[v]
  BY <1>2, StatesChanged
<1> HIDE DEF t2
<1>4. rows' = UpdateMetadata(t2)
  BY <1>1 DEF t1, t2
<1>5. /\ rows' \in [Validators -> Row]
      /\ HaveRows(rows') = HaveRows(t2)
      /\ \A v \in Validators : v \notin Named(chain, InBlock(at), "commission") => rows'[v] = t2[v]
  BY <1>3, <1>4, CommissionsChanged
<1>6. DOMAIN Announced \subseteq ShownKinds /\ {"become", "commission"} \subseteq ShownKinds
  BY DEF Announced, ShownKinds, StateKinds
<1> QED
  BY <1>2, <1>3, <1>5, <1>6

\* The vote that is written is the last of those it is read from.
LEMMA VoteRead ==
    ASSUME ChainInv, NEW A \in SUBSET Positions
    PROVE  /\ VoteIn(A) \in Votings \cup {"none"}
           /\ VoteIn(A) = "none" => \A i \in A : chain[i].kind # "vote"
           /\ VoteIn(A) # "none" => \E i \in A : /\ chain[i].kind = "vote" /\ VoteIn(A) = chain[i].arg
                                                /\ \A j \in A : chain[j].kind = "vote" => j <= i
<1> DEFINE S == Votes(A)
<1>1. \A i : i \in S <=> i \in A /\ chain[i].kind = "vote"
  BY DEF Votes
<1>2. VoteIn(A) = IF S = {} THEN "none" ELSE chain[Max(S)].arg
  BY DEF VoteIn
<1>3. S \in SUBSET (1..Len(chain)) /\ Len(chain) \in Nat
  BY <1>1, ChainFacts DEF Positions
<1> HIDE DEF S
<1>4. CASE S = {}
  BY <1>1, <1>2, <1>4
<1>5. CASE S # {}
  <2> DEFINE m == Max(S)
  <2>1. m \in S /\ \A i \in S : i <= m
    BY <1>3, <1>5, MaxIs
  <2> HIDE DEF m
  <2>2. m \in A /\ chain[m].kind = "vote" /\ VoteIn(A) = chain[m].arg
    BY <1>1, <1>2, <1>5, <2>1 DEF m
  <2>3. VoteIn(A) \in Votings /\ "none" \notin Votings
    BY <2>2 DEF ChainInv, Votings
  <2> QED
    BY <1>1, <2>1, <2>2, <2>3
<1> QED
  BY <1>4, <1>5

LEMMA TipFacts ==
    ASSUME ChainInv, ChainInv', Longer
    PROVE  /\ tip.block \in Nat /\ tip.epoch \in Nat /\ tip'.block \in Nat /\ tip'.epoch \in Nat
           /\ tip.block <= tip'.block /\ tip.epoch <= tip'.epoch
<1>1. tip' \in [block : Nat, epoch : Nat]
  BY DEF ChainInv
<1> QED
  BY <1>1, ChainFacts DEF Longer

LEMMA SnapshotTypes ==
    ASSUME ChainInv, Types,
           SnapshotHead \/ SnapshotSet \/ SnapshotRedelegations \/ SnapshotStake
    PROVE  Types'
<1> DEFINE Snaps == [block : Nat, epoch : Nat, rows : [Validators -> Row],
                     redelegations : SUBSET Validators, bonds : SUBSET Validators,
                     vote : Votings \cup {"none"}]
<1>1. snap \in Snaps /\ tip.block \in Nat /\ tip.epoch \in Nat
  BY ChainFacts DEF Types
<1>2. /\ UNCHANGED <<tip, rows, pos, height, at>> /\ task' \notin {"trial", "crawl"}
  BY DEF SnapshotHead, SnapshotSet, SnapshotRedelegations, SnapshotStake, SnapshotStep, node, database
<1>3. \A kind \in {"redelegate", "bond"} : Named(chain, DOMAIN chain, kind) \subseteq Validators
  BY ChainFacts DEF ChainInv, Named
<1>4. CASE SnapshotHead
  <2>1. snap' \in Snaps
    BY <1>1, <1>4 DEF SnapshotHead
  <2> QED
    BY <1>2, <2>1 DEF Types, pos, Crawling
<1>5. CASE SnapshotSet
  <2>1. snap.epoch + Pipeline \in Nat
    BY <1>1, PipelineAssumption
  <2>2. SetInAdvance(snap.epoch) \in [Validators -> Row]
    BY <2>1, EffectiveFacts, RowTypes DEF SetInAdvance, RowsAt
  <2>3. snap' \in Snaps
    BY <1>1, <1>5, <2>2 DEF SnapshotSet
  <2> QED
    BY <1>2, <2>3 DEF Types, pos, Crawling
<1>6. CASE SnapshotRedelegations
  <2>1. snap' \in Snaps
    BY <1>1, <1>3, <1>6 DEF SnapshotRedelegations
  <2> QED
    BY <1>2, <2>1 DEF Types, pos, Crawling
<1>7. CASE SnapshotStake
  <2>1. VoteIn(DOMAIN chain) \in Votings \cup {"none"}
    BY ChainFacts, VoteRead
  <2>2. snap' \in Snaps
    BY <1>1, <1>3, <1>7, <2>1 DEF SnapshotStake
  <2> QED
    BY <1>2, <2>2 DEF Types, pos, Crawling
<1> QED
  BY <1>4, <1>5, <1>6, <1>7

LEMMA NoSnapTypes ==
    NoSnap \in [block : Nat, epoch : Nat, rows : [Validators -> Row],
                redelegations : SUBSET Validators, bonds : SUBSET Validators,
                vote : Votings \cup {"none"}]
  BY DEF NoSnap, Row

LEMMA TypesStep ==
    ASSUME ChainInv, Types, SnapshotInv, [Next]_vars
    PROVE  Types'
<1>0. /\ tip.block \in Nat /\ tip.epoch \in Nat /\ tip'.block \in Nat /\ tip'.epoch \in Nat
      /\ tip.block <= tip'.block /\ tip.epoch <= tip'.epoch
  BY NodeStep, TipFacts
<1>1. CASE UNCHANGED <<process, pos, database>>
  BY <1>0, <1>1 DEF Types, process, pos, database, Crawling
<1>2. ASSUME NEW stage \in {"trial", "head"}, Start(stage)
      PROVE  Types'
  <2>1. UNCHANGED <<tip, rows, height, posEpoch, posNext>>
    BY <1>2 DEF Start, node, pos, database
  <2>2. snap' = NoSnap /\ task' = stage /\ at' = IF stage = "trial" THEN height ELSE 0
    BY <1>2 DEF Start
  <2>3. stage = "trial" => height > 0
    BY <1>2 DEF Start
  <2> QED
    BY <1>0, <2>1, <2>2, <2>3, NoSnapTypes DEF Types, Crawling
<1>3. CASE SnapshotHead \/ SnapshotSet \/ SnapshotRedelegations \/ SnapshotStake
  BY <1>3, SnapshotTypes
<1>4. CASE WriteSnapshot
  <2>1. /\ rows' = With(rows, snap.rows) /\ height' = snap.block /\ at' = snap.block
        /\ snap' = NoSnap /\ UNCHANGED <<tip, posEpoch, posNext>> /\ task = "write"
    BY <1>4 DEF WriteSnapshot, node, pos
  <2>2. rows' \in [Validators -> Row]
    BY <2>1, WithTypes DEF Types
  <2>3. Cut(snap.block, snap.epoch) /\ snap.block \in Nat /\ snap.block > 0
    BY <2>1 DEF SnapshotInv, Types
  <2> QED
    BY <2>1, <2>2, <2>3, NoSnapTypes DEF Types, Crawling, Cut
<1>5. CASE WriteBlock
  <2>1. /\ height' = at /\ at' = at + 1 /\ UNCHANGED <<tip, snap, posEpoch, posNext>>
        /\ Crawling /\ at <= tip.block
    BY <1>5 DEF WriteBlock, Attempt, node, pos
  <2>2. rows' \in [Validators -> Row]
    BY <1>5, BlockWritten
  <2> QED
    BY <1>0, <2>1, <2>2 DEF Types, Crawling
<1>6. CASE TrialRefused \/ TrialFails \/ Killed
  BY <1>6 DEF TrialRefused, TrialFails, Killed, Attempt, node, pos, database, Types, Crawling
<1>7. CASE BondPanics
  <2>1. UNCHANGED <<tip, rows, snap, posEpoch, posNext, height, at>>
    BY <1>7 DEF BondPanics, node, pos, database
  <2>2. task = "write" => task' = "down"
    BY <1>7 DEF BondPanics
  <2>3. task # "write" => Crawling
    BY <1>7 DEF BondPanics, Unfit
  <2> QED
    BY <2>1, <2>2, <2>3 DEF Types, Crawling
<1>8. CASE PosTick
  <2>1. /\ posNext <= tip.epoch /\ rows' = With(rows, RowsAt(chain, posNext))
        /\ posEpoch' = posNext /\ posNext' = posNext + 1
        /\ UNCHANGED <<tip, snap, height, at, task>>
    BY <1>8 DEF PosTick, node, process
  <2>2. RowsAt(chain, posNext) \in [Validators -> Row]
    BY EffectiveFacts, RowTypes DEF RowsAt, Types
  <2>3. rows' \in [Validators -> Row]
    BY <2>1, <2>2, WithTypes DEF Types
  <2> QED
    BY <2>1, <2>3 DEF Types, Crawling
<1>9. CASE PosRestart
  BY <1>0, <1>9 DEF PosRestart, node, process, database, Types, Crawling
<1>10. CASE UNCHANGED vars
  BY <1>1, <1>10 DEF vars
<1>11. ASSUME NEW b \in Blocks, NEW e \in tip.epoch..MaxEpoch, Grow(b, e)
       PROVE  Types'
  BY <1>1, <1>11 DEF Grow
<1> QED
  BY <1>2, <1>3, <1>4, <1>5, <1>6, <1>7, <1>8, <1>9, <1>10, <1>11 DEF Next, Indexer, Snapshots, Crawls

\* What is in memory of a snapshot stays true of the chain while it grows.
LEMMA SnapshotGrows ==
    ASSUME ChainInv, ChainInv', Longer, Types, SnapshotInv, UNCHANGED process
    PROVE  SnapshotInv'
<1>0. UNCHANGED <<task, snap>> /\ Positions \subseteq Positions'
  BY StillSo DEF process
<1>1. CASE task \in {"set", "redelegations", "stake", "write"}
  <2>1. Cut(snap.block, snap.epoch) /\ snap.block > 0
    BY <1>1 DEF SnapshotInv
  <2>2. /\ snap.block \in Nat /\ snap.block <= tip.block
        /\ snap.epoch \in Nat /\ snap.epoch <= tip.epoch
    BY <2>1 DEF Cut
  <2>3. UpTo(snap.block)' = UpTo(snap.block) /\ Cut(snap.block, snap.epoch)'
    <3>1. UpTo(snap.block)' = {i \in Positions' : chain'[i].block <= snap'.block}
      BY DEF UpTo
    <3>2. \A c \in Nat : c <= tip.block => {i \in Positions' : chain'[i].block <= c} = UpTo(c)
      BY StillSo DEF UpTo
    <3>3. \A c, d : Cut(c, d) => Cut(c, d)'
      BY StillSo
    <3>4. Cut(snap.block, snap.epoch)'
      BY <1>0, <2>1, <3>3 DEF Cut
    <3> QED
      BY <1>0, <2>2, <3>1, <3>2, <3>4
  <2>4. SetAt(chain', snap'.epoch) = SetAt(chain, snap.epoch)
    BY <1>0, <2>2, EffectiveKept
  <2>5. ASSUME task \in {"redelegations", "stake", "write"}
        PROVE  \E A \in SUBSET Positions' : UpTo(snap.block)' \subseteq A /\ snap'.rows = RowsAfter(chain', A)
    <3>1. PICK A \in SUBSET Positions : UpTo(snap.block) \subseteq A /\ snap.rows = RowsAfter(chain, A)
      BY <2>5 DEF SnapshotInv
    <3>2. RowsAfter(chain', A) = RowsAfter(chain, A)
      BY AfterKept
    <3> QED
      BY <1>0, <2>3, <3>1, <3>2
  <2>6. ASSUME task \in {"stake", "write"}
        PROVE  /\ snap'.redelegations \subseteq SetAt(chain', snap'.epoch)
               /\ \A i \in UpTo(snap.block)' :
                     chain'[i].kind = "redelegate" /\ chain'[i].arg \in SetAt(chain', snap'.epoch) =>
                         chain'[i].arg \in snap'.redelegations
    <3>1. \A i \in UpTo(snap.block) : chain'[i] = chain[i]
      BY DEF UpTo, Longer
    <3> QED
      BY <1>0, <2>3, <2>4, <2>6, <3>1 DEF SnapshotInv
  <2>7. ASSUME task = "write"
        PROVE  snap'.bonds \subseteq SetAfter(chain', Positions') /\ LastVote(snap.vote, snap.block)'
    <3>1. SetAfter(chain, Positions) \subseteq SetAfter(chain', Positions')
      <4>1. SetAfter(chain', Positions) = SetAfter(chain, Positions)
        BY AfterKept
      <4>2. SetAfter(chain', Positions) \subseteq SetAfter(chain', Positions')
        BY <1>0 DEF SetAfter, Named
      <4> QED
        BY <4>1, <4>2
    <3>2. LastVote(snap.vote, snap.block)'
      <4>1. LastVote(snap.vote, snap.block)
        BY <2>7 DEF SnapshotInv
      <4>2. \A x : \A b \in Nat : b <= tip.block /\ LastVote(x, b) => LastVote(x, b)'
        BY StillSo
      <4> QED
        BY <1>0, <2>2, <4>1, <4>2 DEF LastVote
    <3> QED
      BY <1>0, <2>7, <3>1, <3>2 DEF SnapshotInv
  <2> QED
    BY <1>0, <2>1, <2>3, <2>5, <2>6, <2>7 DEF SnapshotInv
<1>2. CASE task \notin {"set", "redelegations", "stake", "write"}
  BY <1>0, <1>2 DEF SnapshotInv
<1> QED
  BY <1>1, <1>2

LEMMA HeadTaken ==
    ASSUME ChainInv, Types, SnapshotHead
    PROVE  SnapshotInv'
<1>1. /\ UNCHANGED <<chain, tip>> /\ task' = "set"
      /\ snap' = [snap EXCEPT !.block = tip.block, !.epoch = tip.epoch]
  BY DEF SnapshotHead, SnapshotStep, node
<1>2. snap'.block = tip.block /\ snap'.epoch = tip.epoch
  BY <1>1 DEF Types
<1>3. Cut(tip.block, tip.epoch)
  <2>1. \A i \in Positions : chain[i].block <= tip.block /\ chain[i].epoch <= tip.epoch
    BY DEF ChainInv
  <2> QED
    BY <2>1, ChainFacts DEF Cut
<1>4. Cut(snap.block, snap.epoch)'
  BY <1>1, <1>2, <1>3 DEF Cut, Positions
<1>5. snap'.block > 0
  BY <1>2 DEF ChainInv
<1> QED
  BY <1>1, <1>4, <1>5 DEF SnapshotInv

\* Who came by the block of the snapshot is there at the pipeline of its epoch.
LEMMA SetTaken ==
    ASSUME ChainInv, Types, SnapshotInv, SnapshotSet
    PROVE  SnapshotInv'
<1>1. /\ UNCHANGED <<chain, tip>> /\ task' = "redelegations" /\ task = "set"
      /\ snap' = [snap EXCEPT !.rows = SetInAdvance(snap.epoch)]
  BY DEF SnapshotSet, SnapshotStep, node
<1>2. /\ snap'.block = snap.block /\ snap'.epoch = snap.epoch
      /\ snap'.rows = RowsAfter(chain, Effective(chain, snap.epoch + Pipeline))
  BY <1>1 DEF Types, SetInAdvance, RowsAt
<1>3. snap.block > 0 /\ Cut(snap.block, snap.epoch)
  BY <1>1 DEF SnapshotInv
<1>4. snap.epoch \in Nat /\ Pipeline \in Nat /\ snap.epoch + Pipeline \in Nat
  BY PipelineAssumption DEF Types
<1> DEFINE A == Effective(chain, snap.epoch + Pipeline)
<1>5. A = {i \in Positions : chain[i].epoch + Pipeline <= snap.epoch + Pipeline}
  BY <1>4, EffectiveFacts
<1>6. UpTo(snap.block) \subseteq A
  <2>1. ASSUME NEW i \in Positions, chain[i].block <= snap.block
        PROVE  chain[i].epoch + Pipeline <= snap.epoch + Pipeline
    BY <1>3, <1>4, <2>1, ChainFacts DEF Cut
  <2> QED
    BY <1>5, <2>1 DEF UpTo
<1>7. A \in SUBSET Positions
  BY <1>5
<1> HIDE DEF A
<1>8. UpTo(snap.block)' = UpTo(snap.block) /\ Positions' = Positions
  BY <1>1, <1>2 DEF UpTo, Positions
<1>9. Cut(snap.block, snap.epoch)'
  BY <1>1, <1>2, <1>3 DEF Cut, Positions
<1>10. snap'.rows = RowsAfter(chain', A)
  BY <1>1, <1>2 DEF A
<1> QED
  BY <1>1, <1>2, <1>3, <1>6, <1>7, <1>8, <1>9, <1>10 DEF SnapshotInv

LEMMA RedelegationsTaken ==
    ASSUME ChainInv, Types, SnapshotInv, SnapshotRedelegations
    PROVE  SnapshotInv'
<1>1. /\ UNCHANGED <<chain, tip>> /\ task' = "stake" /\ task = "redelegations"
      /\ snap' = [snap EXCEPT !.redelegations =
                      Named(chain, DOMAIN chain, "redelegate") \cap SetAt(chain, snap.epoch)]
  BY DEF SnapshotRedelegations, SnapshotStep, node
<1>2. /\ snap'.block = snap.block /\ snap'.epoch = snap.epoch /\ snap'.rows = snap.rows
      /\ snap'.redelegations = Named(chain, DOMAIN chain, "redelegate") \cap SetAt(chain, snap.epoch)
  BY <1>1 DEF Types
<1>3. /\ snap.block > 0 /\ Cut(snap.block, snap.epoch)
      /\ \E A \in SUBSET Positions : UpTo(snap.block) \subseteq A /\ snap.rows = RowsAfter(chain, A)
  BY <1>1 DEF SnapshotInv
<1>4. UpTo(snap.block)' = UpTo(snap.block) /\ Positions' = Positions /\ UpTo(snap.block) \subseteq Positions
  BY <1>1, <1>2 DEF UpTo, Positions
<1>5. Cut(snap.block, snap.epoch)'
  BY <1>1, <1>2, <1>3 DEF Cut, Positions
<1>6. \A i \in Positions : chain[i].kind = "redelegate" =>
         chain[i].arg \in Named(chain, DOMAIN chain, "redelegate")
  BY ChainFacts DEF Named
<1>7. /\ snap'.redelegations \subseteq SetAt(chain', snap'.epoch)
      /\ \A i \in UpTo(snap.block)' :
            chain'[i].kind = "redelegate" /\ chain'[i].arg \in SetAt(chain', snap'.epoch) =>
                chain'[i].arg \in snap'.redelegations
  BY <1>1, <1>2, <1>4, <1>6
<1> QED
  BY <1>1, <1>2, <1>3, <1>4, <1>5, <1>7 DEF SnapshotInv

LEMMA StakeTaken ==
    ASSUME ChainInv, Types, SnapshotInv, SnapshotStake
    PROVE  SnapshotInv'
<1>1. /\ UNCHANGED <<chain, tip>> /\ task' = "write" /\ task = "stake"
      /\ snap' = [snap EXCEPT !.bonds = Named(chain, DOMAIN chain, "bond"), !.vote = VoteIn(DOMAIN chain)]
  BY DEF SnapshotStake, SnapshotStep, node
<1>2. /\ snap'.block = snap.block /\ snap'.epoch = snap.epoch /\ snap'.rows = snap.rows
      /\ snap'.redelegations = snap.redelegations
      /\ snap'.bonds = Named(chain, Positions, "bond") /\ snap'.vote = VoteIn(Positions)
  BY <1>1, ChainFacts DEF Types
<1>3. /\ snap.block > 0 /\ Cut(snap.block, snap.epoch)
      /\ \E A \in SUBSET Positions : UpTo(snap.block) \subseteq A /\ snap.rows = RowsAfter(chain, A)
      /\ snap.redelegations \subseteq SetAt(chain, snap.epoch)
      /\ \A i \in UpTo(snap.block) :
            chain[i].kind = "redelegate" /\ chain[i].arg \in SetAt(chain, snap.epoch) =>
                chain[i].arg \in snap.redelegations
  BY <1>1 DEF SnapshotInv
<1>4. UpTo(snap.block)' = UpTo(snap.block) /\ Positions' = Positions
  BY <1>1, <1>2 DEF UpTo, Positions
<1>5. Cut(snap.block, snap.epoch)'
  BY <1>1, <1>2, <1>3 DEF Cut, Positions
<1>6. snap'.bonds \subseteq SetAfter(chain', Positions')
  <2>1. ASSUME NEW i \in Positions, chain[i].kind = "bond"
        PROVE  chain[i].arg \in SetAfter(chain, Positions)
    BY <2>1 DEF ChainInv, SetAfter, Named
  <2> QED
    BY <1>1, <1>2, <1>4, <2>1 DEF Named
<1>7. LastVote(snap.vote, snap.block)'
  <2>1. SUFFICES ASSUME NEW k \in Positions, chain[k].kind = "vote"
                 PROVE  \E i \in Positions :
                           /\ chain[i].kind = "vote" /\ VoteIn(Positions) = chain[i].arg
                           /\ \A j \in Positions : chain[j].kind = "vote" /\ j > i => chain[j].block > snap.block
    BY <1>1, <1>2, <1>4 DEF LastVote
  <2>2. PICK i \in Positions : /\ chain[i].kind = "vote" /\ VoteIn(Positions) = chain[i].arg
                               /\ \A j \in Positions : chain[j].kind = "vote" => j <= i
    BY <2>1, VoteRead
  <2>3. \A j \in Positions : chain[j].kind = "vote" => ~(j > i)
    BY <2>2, ChainFacts DEF Positions
  <2> QED
    BY <2>2, <2>3
<1> QED
  BY <1>1, <1>2, <1>3, <1>4, <1>5, <1>6, <1>7 DEF SnapshotInv

LEMMA SnapshotInvStep ==
    ASSUME ChainInv, Types, SnapshotInv, [Next]_vars
    PROVE  SnapshotInv'
<1>0. ChainInv' /\ Longer
  BY NodeStep
<1>1. CASE UNCHANGED process
  BY <1>0, <1>1, SnapshotGrows
<1>2. CASE task' \in {"trial", "head", "crawl", "down"}
  BY <1>2 DEF SnapshotInv
<1>3. CASE SnapshotHead \/ SnapshotSet \/ SnapshotRedelegations \/ SnapshotStake
  BY <1>3, HeadTaken, SetTaken, RedelegationsTaken, StakeTaken
<1>4. CASE (\E stage \in {"trial", "head"} : Start(stage)) \/ WriteSnapshot \/ Crawls \/ TrialFails \/ Killed
  <2>1. task' \in {"trial", "head", "crawl", "down"}
    BY <1>4 DEF Start, WriteSnapshot, Crawls, WriteBlock, TrialRefused, BondPanics, TrialFails, Killed
  <2> QED
    BY <1>2, <2>1
<1>5. CASE PosTick \/ PosRestart \/ UNCHANGED vars
  BY <1>1, <1>5 DEF PosTick, PosRestart, vars
<1>6. ASSUME NEW b \in Blocks, NEW e \in tip.epoch..MaxEpoch, Grow(b, e)
      PROVE  SnapshotInv'
  BY <1>1, <1>6 DEF Grow
<1> QED
  BY <1>3, <1>4, <1>5, <1>6 DEF Next, Indexer, Snapshots

-----------------------------------------------------------------------------
(* Who came has a row.                                                     *)

LEMMA CameMonotone ==
    ASSUME NEW A, NEW B, A \subseteq B
    PROVE  SetAfter(chain, A) \subseteq SetAfter(chain, B)
  BY DEF SetAfter, Named

LEMMA BlockCame ==
    ASSUME ChainInv, Types, CameInv, WriteBlock
    PROVE  CameInv'
<1>1. /\ UNCHANGED <<chain, tip>> /\ height' = at /\ Crawling
  BY DEF WriteBlock, Attempt, node
<1>2. 0 < height /\ height <= at /\ at <= height + 1 /\ height \in Nat /\ at \in Nat
  BY <1>1 DEF Types
<1>3. HaveRows(rows') = HaveRows(rows) \cup (Validators \cap Named(chain, InBlock(at), "become"))
  BY BlockWritten
<1>4. SetAfter(chain, UpTo(height)) \subseteq HaveRows(rows)
  BY <1>2 DEF CameInv
<1>5. ASSUME NEW i \in Positions, chain[i].block <= at, chain[i].kind = "become"
      PROVE  chain[i].arg \in HaveRows(rows')
  <2>1. chain[i].block \in Nat /\ i \in DOMAIN chain /\ chain[i].arg \in Validators
    BY <1>5, ChainFacts DEF ChainInv
  <2>2. CASE chain[i].block <= height
    <3>1. chain[i].arg \in SetAfter(chain, UpTo(height))
      BY <1>5, <2>2 DEF UpTo, SetAfter, Named
    <3> QED
      BY <1>3, <1>4, <3>1
  <2>3. CASE chain[i].block = at
    <3>1. chain[i].arg \in Named(chain, InBlock(at), "become")
      BY <1>5, <2>1, <2>3 DEF InBlock, Named
    <3> QED
      BY <1>3, <2>1, <3>1
  <2> QED
    BY <1>2, <1>5, <2>1, <2>2, <2>3
<1>6. Genesis \subseteq HaveRows(rows')
  BY <1>3, <1>4 DEF SetAfter
<1>7. SetAfter(chain, UpTo(at)) \subseteq HaveRows(rows')
  BY <1>5, <1>6 DEF SetAfter, Named, UpTo
<1>8. SetAfter(chain, UpTo(height))' = SetAfter(chain, UpTo(at))
  BY <1>1 DEF UpTo, Positions
<1>9. HaveRows(rows)' = HaveRows(rows')
  BY DEF HaveRows
<1> QED
  BY <1>7, <1>8, <1>9 DEF CameInv

LEMMA SnapshotCame ==
    ASSUME ChainInv, Types, SnapshotInv, WriteSnapshot
    PROVE  CameInv'
<1>1. /\ UNCHANGED <<chain, tip>> /\ height' = snap.block /\ task = "write"
      /\ rows' = With(rows, snap.rows)
  BY DEF WriteSnapshot, node
<1>2. PICK A \in SUBSET Positions : UpTo(snap.block) \subseteq A /\ snap.rows = RowsAfter(chain, A)
  BY <1>1 DEF SnapshotInv
<1>3. /\ RowsAfter(chain, A) \in [Validators -> Row]
      /\ \A v \in Validators : RowsAfter(chain, A)[v] # NoRow <=> v \in SetAfter(chain, A)
  BY RowTypes
<1>4. HaveRows(rows') = HaveRows(rows) \cup HaveRows(RowsAfter(chain, A))
  <2>1. rows \in [Validators -> Row] /\ rows' = With(rows, RowsAfter(chain, A))
    BY <1>1, <1>2 DEF Types
  <2> QED
    BY <1>3, <2>1, WithTypes
<1>5. SetAfter(chain, UpTo(snap.block)) \subseteq HaveRows(RowsAfter(chain, A))
  <2>1. SetAfter(chain, UpTo(snap.block)) \subseteq SetAfter(chain, A)
    BY <1>2, CameMonotone
  <2>2. SetAfter(chain, A) \subseteq Validators
    BY ChainFacts, PipelineAssumption DEF SetAfter, Named, ChainInv
  <2> QED
    BY <1>3, <2>1, <2>2 DEF HaveRows
<1>6. SetAfter(chain, UpTo(height))' = SetAfter(chain, UpTo(snap.block))
  BY <1>1 DEF UpTo, Positions
<1>7. HaveRows(rows)' = HaveRows(rows')
  BY DEF HaveRows
<1> QED
  BY <1>4, <1>5, <1>6, <1>7 DEF CameInv

LEMMA CameStep ==
    ASSUME ChainInv, Types, SnapshotInv, CameInv, [Next]_vars
    PROVE  CameInv'
<1>0. ChainInv' /\ Longer
  BY NodeStep
<1>1. CASE UNCHANGED <<rows, height>>
  <2>1. SetAfter(chain, UpTo(height))' = SetAfter(chain, UpTo(height))
    <3>1. height \in Nat /\ height <= tip.block /\ UpTo(height)' = UpTo(height)
      <4>1. height \in Nat /\ height <= tip.block
        BY DEF Types
      <4>2. {i \in Positions' : chain'[i].block <= height} = UpTo(height)
        BY <1>0, <4>1, StillSo DEF UpTo
      <4> QED
        BY <1>1, <4>1, <4>2 DEF UpTo
    <3>2. UpTo(height) \in SUBSET Positions
      BY DEF UpTo
    <3> QED
      BY <1>0, <3>1, <3>2, AfterKept
  <2> QED
    BY <1>1, <2>1 DEF CameInv, HaveRows
<1>2. CASE WriteSnapshot
  BY <1>2, SnapshotCame
<1>3. CASE WriteBlock
  BY <1>3, BlockCame
<1>4. CASE PosTick
  <2>1. /\ UNCHANGED <<chain, tip, height>> /\ rows' = With(rows, RowsAt(chain, posNext))
    BY <1>4 DEF PosTick, node
  <2>2. RowsAt(chain, posNext) \in [Validators -> Row]
    BY EffectiveFacts, RowTypes DEF RowsAt, Types
  <2>3. HaveRows(rows) \subseteq HaveRows(rows')
    BY <2>1, <2>2, WithTypes DEF Types
  <2>4. SetAfter(chain, UpTo(height))' = SetAfter(chain, UpTo(height))
    BY <2>1 DEF UpTo, Positions
  <2>5. HaveRows(rows)' = HaveRows(rows')
    BY DEF HaveRows
  <2> QED
    BY <2>1, <2>3, <2>4, <2>5 DEF CameInv
<1>5. CASE \/ \E stage \in {"trial", "head"} : Start(stage)
           \/ SnapshotHead \/ SnapshotSet \/ SnapshotRedelegations \/ SnapshotStake
           \/ TrialRefused \/ BondPanics \/ TrialFails \/ Killed \/ PosRestart \/ UNCHANGED vars
  <2>1. UNCHANGED <<rows, height>>
    BY <1>5 DEF Start, SnapshotHead, SnapshotSet, SnapshotRedelegations, SnapshotStake, SnapshotStep,
                TrialRefused, BondPanics, TrialFails, Killed, PosRestart, vars, database
  <2> QED
    BY <1>1, <2>1
<1>6. ASSUME NEW b \in Blocks, NEW e \in tip.epoch..MaxEpoch, Grow(b, e)
      PROVE  CameInv'
  BY <1>1, <1>6 DEF Grow, database
<1> QED
  BY <1>2, <1>3, <1>4, <1>5, <1>6 DEF Next, Indexer, Snapshots, Crawls

LEMMA RowsInvInit ==
    ASSUME Init
    PROVE  RowsInv
<1>1. chain = <<>> /\ tip = [block |-> 1, epoch |-> 1]
  BY DEF Init
<1>2. chain \in Seq(Tx) /\ Len(chain) = 0 /\ Positions = {}
  BY <1>1 DEF Positions
<1>3. ChainInv
  BY <1>1, <1>2 DEF ChainInv
<1>4. Types
  <2>1. [v \in Validators |-> NoRow] \in [Validators -> Row]
    BY DEF Row
  <2>2. snap = NoSnap
    BY DEF Init
  <2> QED
    BY <1>1, <2>1, <2>2, NoSnapTypes DEF Init, Types, Crawling
<1>5. SnapshotInv /\ CameInv
  BY DEF Init, SnapshotInv, CameInv
<1> QED
  BY <1>3, <1>4, <1>5 DEF RowsInv

\* The invariant holds: every validator that came by the block the chain indexer
\* recorded has a row, for a snapshot has every validator that came by its block,
\* a block inserts those it creates and no other write deletes one.
THEOREM RowsInvariant == Spec => []RowsInv
<1>1. Init => RowsInv
  BY RowsInvInit
<1>2. RowsInv /\ [Next]_vars => RowsInv'
  BY NodeStep, TypesStep, SnapshotInvStep, CameStep DEF RowsInv
<1> QED
  BY <1>1, <1>2, PTL DEF Spec

-----------------------------------------------------------------------------
(* The validators of bonds.                                                *)

\* A block is never refused over a bond: whom it names came before, and has a
\* row, or comes in the block itself, which inserts the validators first.
LEMMA BlockAlwaysFits ==
    ASSUME ChainInv, Types, CameInv, Crawling
    PROVE  BlockFits
<1>1. 0 < height /\ height <= at /\ at <= height + 1 /\ height \in Nat /\ at \in Nat
  BY DEF Types
<1>2. KnownInWrite = HaveRows(rows) \cup (Validators \cap Named(chain, InBlock(at), "become"))
  BY Created DEF Types, KnownInWrite
<1>3. SetAfter(chain, UpTo(height)) \subseteq HaveRows(rows)
  BY <1>1 DEF CameInv
<1>4. ASSUME NEW i \in InBlock(at), chain[i].kind = "bond"
      PROVE  chain[i].arg \in KnownInWrite
  <2>1. i \in Positions /\ chain[i].block = at
    BY <1>4, ChainFacts DEF InBlock
  <2>2. CASE chain[i].arg \in Genesis
    BY <1>2, <1>3, <2>2 DEF SetAfter
  <2>3. CASE \E j \in Positions : /\ chain[j].kind = "become" /\ chain[j].arg = chain[i].arg
                                  /\ chain[j].block <= chain[i].block
    <3>1. PICK j \in Positions : /\ chain[j].kind = "become" /\ chain[j].arg = chain[i].arg
                                 /\ chain[j].block <= chain[i].block
      BY <2>3
    <3>2. chain[j].block \in Nat /\ j \in DOMAIN chain /\ chain[j].arg \in Validators
      BY <3>1, ChainFacts DEF ChainInv
    <3>3. CASE chain[j].block <= height
      <4>1. chain[j].arg \in SetAfter(chain, UpTo(height))
        BY <3>1, <3>3 DEF UpTo, SetAfter, Named
      <4> QED
        BY <1>2, <1>3, <3>1, <4>1
    <3>4. CASE chain[j].block = at
      <4>1. chain[j].arg \in Named(chain, InBlock(at), "become")
        BY <3>1, <3>2, <3>4 DEF InBlock, Named
      <4> QED
        BY <1>2, <3>1, <3>2, <4>1
    <3> QED
      BY <1>1, <2>1, <3>1, <3>2, <3>3, <3>4
  <2> QED
    BY <1>4, <2>1, <2>2, <2>3 DEF ChainInv
<1> QED
  BY <1>4 DEF BlockFits, Named

\* A snapshot is refused over the bond of a validator that came after its block.
LEMMA SnapshotMisfits ==
    ASSUME ChainInv, Types, SnapshotInv, task = "write", ~SnapshotFits
    PROVE  \E i \in Positions : chain[i].kind = "become" /\ chain[i].block > snap.block
<1>1. PICK A \in SUBSET Positions : UpTo(snap.block) \subseteq A /\ snap.rows = RowsAfter(chain, A)
  BY DEF SnapshotInv
<1>2. /\ snap.bonds \subseteq SetAfter(chain, Positions)
      /\ snap.redelegations \subseteq SetAt(chain, snap.epoch)
      /\ Cut(snap.block, snap.epoch)
  BY DEF SnapshotInv
<1>3. snap.epoch \in Nat /\ snap.block \in Nat
  BY <1>2 DEF Cut
<1>4. SetAfter(chain, UpTo(snap.block)) \subseteq HaveRows(With(rows, snap.rows))
  <2>1. /\ RowsAfter(chain, A) \in [Validators -> Row]
        /\ \A v \in Validators : RowsAfter(chain, A)[v] # NoRow <=> v \in SetAfter(chain, A)
    BY RowTypes
  <2>2. HaveRows(With(rows, snap.rows)) = HaveRows(rows) \cup HaveRows(RowsAfter(chain, A))
    <3>1. rows \in [Validators -> Row] /\ snap.rows \in [Validators -> Row]
      BY <1>1, <2>1 DEF Types
    <3> QED
      BY <1>1, <3>1, WithTypes
  <2>3. SetAfter(chain, UpTo(snap.block)) \subseteq SetAfter(chain, A)
    BY <1>1, CameMonotone
  <2>4. SetAfter(chain, A) \subseteq Validators
    BY ChainFacts, PipelineAssumption DEF SetAfter, Named, ChainInv
  <2> QED
    BY <2>1, <2>2, <2>3, <2>4 DEF HaveRows
<1>5. SetAt(chain, snap.epoch) \subseteq SetAfter(chain, UpTo(snap.block))
  <2>1. Effective(chain, snap.epoch) \subseteq UpTo(snap.block)
    <3>1. ASSUME NEW i \in Positions, chain[i].epoch + Pipeline <= snap.epoch
          PROVE  chain[i].block <= snap.block
      BY <1>2, <1>3, <3>1, ChainFacts, PipelineAssumption DEF Cut
    <3> QED
      BY <1>3, <3>1, EffectiveFacts DEF UpTo
  <2> QED
    BY <2>1, CameMonotone DEF SetAt
<1>6. PICK v \in snap.bonds : v \notin SetAfter(chain, UpTo(snap.block))
  BY <1>2, <1>4, <1>5 DEF SnapshotFits
<1>7. v \in SetAfter(chain, Positions) /\ v \notin Genesis
  BY <1>2, <1>6 DEF SetAfter
<1>8. PICK i \in Positions : chain[i].kind = "become" /\ chain[i].arg = v
  BY <1>7 DEF SetAfter, Named
<1>9. ~(chain[i].block <= snap.block)
  BY <1>6, <1>8 DEF SetAfter, Named, UpTo
<1> QED
  BY <1>3, <1>8, <1>9, ChainFacts

LEMMA PanicsStep ==
    ASSUME RowsInv, PanicsOnlyInSnapshots, [Next]_vars
    PROVE  PanicsOnlyInSnapshots'
<1>0. ChainInv' /\ Longer /\ ChainInv
  BY NodeStep DEF RowsInv
<1>1. /\ DOMAIN chain = Positions /\ DOMAIN chain' = Positions' /\ Positions \subseteq Positions'
      /\ \A i \in Positions : chain'[i] = chain[i]
  <2>1. DOMAIN chain' = Positions'
    BY <1>0 DEF ChainInv, Positions
  <2> QED
    BY <1>0, <2>1, ChainFacts, StillSo DEF Longer
<1>2. CASE UNCHANGED process
  BY <1>1, <1>2 DEF PanicsOnlyInSnapshots, process
<1>3. CASE conn' = "up"
  BY <1>3 DEF PanicsOnlyInSnapshots
<1>4. CASE BondPanics
  <2>1. /\ UNCHANGED snap /\ conn' = "poisoned" /\ Unfit
        /\ task' = IF task = "write" THEN "down" ELSE "crawl"
    BY <1>4 DEF BondPanics
  <2>2. task = "write" /\ ~SnapshotFits
    <3>1. Crawling => BlockFits
      BY BlockAlwaysFits DEF RowsInv
    <3> QED
      BY <2>1, <3>1 DEF Unfit
  <2>3. \E i \in Positions : chain[i].kind = "become" /\ chain[i].block > snap.block
    BY <2>2, SnapshotMisfits DEF RowsInv
  <2> QED
    BY <1>1, <2>1, <2>2, <2>3 DEF PanicsOnlyInSnapshots
<1>5. CASE \/ SnapshotHead \/ SnapshotSet \/ SnapshotRedelegations \/ SnapshotStake
           \/ WriteSnapshot \/ WriteBlock \/ TrialRefused \/ TrialFails \/ Killed
  <2>1. conn' = conn /\ task # "down"
    BY <1>5 DEF SnapshotHead, SnapshotSet, SnapshotRedelegations, SnapshotStake, SnapshotStep,
                WriteSnapshot, WriteBlock, TrialRefused, TrialFails, Killed, Attempt, Crawling
  <2> QED
    BY <2>1 DEF PanicsOnlyInSnapshots
<1>6. CASE (\E stage \in {"trial", "head"} : Start(stage))
  BY <1>3, <1>6 DEF Start
<1>7. CASE PosTick \/ PosRestart \/ UNCHANGED vars
  BY <1>2, <1>7 DEF PosTick, PosRestart, vars
<1>8. ASSUME NEW b \in Blocks, NEW e \in tip.epoch..MaxEpoch, Grow(b, e)
      PROVE  PanicsOnlyInSnapshots'
  BY <1>2, <1>8 DEF Grow
<1> QED
  BY <1>4, <1>5, <1>6, <1>7, <1>8 DEF Next, Indexer, Snapshots, Crawls

\* The panic over a bond whose validator has no row (insert_bonds, chain/src/
\* repository/pos.rs) never meets the crawl of blocks, whatever the pos indexer
\* does: it can only meet a snapshot, and only if a validator came after the block
\* the snapshot began with.
THEOREM CrawlNeverPanics == Spec => []PanicsOnlyInSnapshots
<1>1. Init => PanicsOnlyInSnapshots
  BY DEF Init, PanicsOnlyInSnapshots
<1>2. RowsInv /\ PanicsOnlyInSnapshots /\ [Next]_vars => PanicsOnlyInSnapshots'
  BY PanicsStep
<1>3. Spec => []RowsInv
  BY RowsInvariant
<1> QED
  BY <1>1, <1>2, <1>3, PTL DEF Spec

-----------------------------------------------------------------------------
(* The redelegations and the vote.                                         *)

LEMMA SnapshotListed ==
    ASSUME ChainInv, Types, SnapshotInv, WriteSnapshot
    PROVE  ListedInv'
<1>1. /\ UNCHANGED <<chain, tip>> /\ height' = snap.block /\ task = "write"
      /\ redelegations' = redelegations \cup snap.redelegations
      /\ vote' = InsertVote(snap.vote)
      /\ base' = [block |-> snap.block, epoch |-> snap.epoch]
  BY DEF WriteSnapshot, node, InsertRedelegations
<1>2. /\ Cut(snap.block, snap.epoch)
      /\ LastVote(snap.vote, snap.block)
      /\ \A i \in UpTo(snap.block) :
            chain[i].kind = "redelegate" /\ chain[i].arg \in SetAt(chain, snap.epoch) =>
                chain[i].arg \in snap.redelegations
  BY <1>1 DEF SnapshotInv
<1>3. base'.block = snap.block /\ base'.epoch = snap.epoch
  BY <1>1
<1>4. Cut(base.block, base.epoch)'
  BY <1>1, <1>2, <1>3 DEF Cut, Positions
<1>5. UpTo(height)' = UpTo(snap.block)
  BY <1>1 DEF UpTo, Positions
<1>6. \A i \in UpTo(snap.block) : chain[i].kind = "redelegate" =>
         \/ chain[i].arg \in redelegations'
         \/ chain[i].block <= snap.block /\ chain[i].arg \notin SetAt(chain, snap.epoch)
  BY <1>1, <1>2 DEF UpTo
<1>7. LastVote(vote', snap.block)
  <2>1. CASE snap.vote # "none"
    BY <1>1, <1>2, <2>1 DEF InsertVote
  <2>2. CASE snap.vote = "none"
    <3>1. \A i \in Positions : chain[i].kind = "vote" => chain[i].arg # "none"
      BY DEF ChainInv, Votings
    <3>2. ~\E i \in Positions : chain[i].kind = "vote" /\ chain[i].block <= snap.block
      BY <1>2, <2>2, <3>1 DEF LastVote
    <3> QED
      BY <3>2 DEF LastVote
  <2> QED
    BY <2>1, <2>2
<1>8. LastVote(vote, height)'
  BY <1>1, <1>7 DEF LastVote, Positions
<1> QED
  BY <1>1, <1>3, <1>4, <1>5, <1>6, <1>8 DEF ListedInv

LEMMA BlockListed ==
    ASSUME ChainInv, Types, ListedInv, WriteBlock
    PROVE  ListedInv'
<1>1. /\ UNCHANGED <<chain, tip, base>> /\ height' = at /\ Crawling
      /\ redelegations' = redelegations \cup Named(chain, InBlock(at), "redelegate")
      /\ vote' = InsertVote(VoteIn(InBlock(at)))
  BY DEF WriteBlock, Attempt, node, InsertRedelegations
<1>2. height \in Nat /\ at \in Nat /\ height <= at /\ at <= height + 1
  BY <1>1 DEF Types
<1>3. InBlock(at) = {i \in Positions : chain[i].block = at}
  BY ChainFacts DEF InBlock
<1>4. Cut(base.block, base.epoch)'
  BY <1>1 DEF ListedInv, Cut, Positions
<1>5. ASSUME NEW i \in Positions, chain[i].block <= at, chain[i].kind = "redelegate"
      PROVE  \/ chain[i].arg \in redelegations'
             \/ chain[i].block <= base.block /\ chain[i].arg \notin SetAt(chain, base.epoch)
  <2>1. chain[i].block \in Nat
    BY ChainFacts
  <2>2. CASE chain[i].block <= height
    BY <1>1, <1>5, <2>2 DEF ListedInv, UpTo
  <2>3. CASE chain[i].block = at
    BY <1>1, <1>3, <1>5, <2>3 DEF Named
  <2> QED
    BY <1>2, <1>5, <2>1, <2>2, <2>3
<1>6. LastVote(vote', at)
  <2>1. /\ VoteIn(InBlock(at)) = "none" => \A i \in InBlock(at) : chain[i].kind # "vote"
        /\ VoteIn(InBlock(at)) # "none" =>
              \E i \in InBlock(at) : /\ chain[i].kind = "vote" /\ VoteIn(InBlock(at)) = chain[i].arg
                                     /\ \A j \in InBlock(at) : chain[j].kind = "vote" => j <= i
    <3>1. InBlock(at) \in SUBSET Positions
      BY <1>3
    <3> QED
      BY <3>1, VoteRead
  <2>2. CASE VoteIn(InBlock(at)) = "none"
    <3>1. vote' = vote /\ LastVote(vote, height)
      BY <1>1, <2>2 DEF InsertVote, ListedInv
    <3>2. \A i \in Positions : chain[i].kind = "vote" => chain[i].block # at
      BY <1>3, <2>1, <2>2
    <3>3. \A i \in Positions : chain[i].kind = "vote" =>
             /\ chain[i].block <= at => chain[i].block <= height
             /\ chain[i].block > height => chain[i].block > at
      BY <1>2, <3>2, ChainFacts
    <3> QED
      BY <3>1, <3>3 DEF LastVote
  <2>3. CASE VoteIn(InBlock(at)) # "none"
    <3>1. PICK i \in InBlock(at) : /\ chain[i].kind = "vote" /\ VoteIn(InBlock(at)) = chain[i].arg
                                   /\ \A j \in InBlock(at) : chain[j].kind = "vote" => j <= i
      BY <2>1, <2>3
    <3>2. i \in Positions /\ chain[i].block = at /\ vote' = chain[i].arg
      BY <1>1, <1>3, <2>3, <3>1 DEF InsertVote
    <3>3. ASSUME NEW j \in Positions, chain[j].kind = "vote", j > i
          PROVE  chain[j].block > at
      <4>1. chain[i].block <= chain[j].block
        BY <3>2, <3>3 DEF ChainInv, Positions
      <4>2. chain[j].block # at
        BY <1>3, <3>1, <3>2, <3>3 DEF Positions
      <4> QED
        BY <1>2, <3>2, <4>1, <4>2, ChainFacts
    <3> QED
      BY <3>1, <3>2, <3>3 DEF LastVote
  <2> QED
    BY <2>2, <2>3
<1>7. LastVote(vote, height)'
  BY <1>1, <1>6 DEF LastVote, Positions
<1>8. UpTo(height)' = {i \in Positions : chain[i].block <= at}
  BY <1>1 DEF UpTo, Positions
<1> QED
  BY <1>1, <1>4, <1>5, <1>7, <1>8 DEF ListedInv

LEMMA ListedStep ==
    ASSUME RowsInv, ListedInv, [Next]_vars
    PROVE  ListedInv'
<1>0. ChainInv' /\ Longer /\ ChainInv
  BY NodeStep DEF RowsInv
<1>1. CASE UNCHANGED <<redelegations, vote, height, base>>
  <2>1. height \in Nat /\ height <= tip.block
    BY DEF RowsInv, Types
  <2>2. Cut(base.block, base.epoch) /\ LastVote(vote, height)
    BY DEF ListedInv
  <2>3. Cut(base.block, base.epoch)'
    <3>1. \A b, e : Cut(b, e) => Cut(b, e)'
      BY <1>0, StillSo
    <3> QED
      BY <1>1, <2>2, <3>1 DEF Cut
  <2>4. LastVote(vote, height)'
    <3>1. \A x : \A b \in Nat : b <= tip.block /\ LastVote(x, b) => LastVote(x, b)'
      BY <1>0, StillSo
    <3> QED
      BY <1>1, <2>1, <2>2, <3>1 DEF LastVote
  <2>5. UpTo(height)' = UpTo(height)
    <3>1. {i \in Positions' : chain'[i].block <= height} = UpTo(height)
      BY <1>0, <2>1, StillSo DEF UpTo
    <3> QED
      BY <1>1, <3>1 DEF UpTo
  <2>6. SetAt(chain', base.epoch) = SetAt(chain, base.epoch)
    <3>1. base.epoch \in Nat /\ base.epoch <= tip.epoch
      BY <2>2 DEF Cut
    <3> QED
      BY <1>0, <3>1, EffectiveKept
  <2>7. \A i \in UpTo(height) : chain'[i] = chain[i]
    BY <1>0 DEF UpTo, Longer
  <2> QED
    BY <1>1, <2>3, <2>4, <2>5, <2>6, <2>7 DEF ListedInv
<1>2. CASE WriteSnapshot
  BY <1>2, SnapshotListed DEF RowsInv
<1>3. CASE WriteBlock
  BY <1>3, BlockListed DEF RowsInv
<1>4. CASE \/ \E stage \in {"trial", "head"} : Start(stage)
           \/ SnapshotHead \/ SnapshotSet \/ SnapshotRedelegations \/ SnapshotStake
           \/ TrialRefused \/ BondPanics \/ TrialFails \/ Killed \/ PosTick \/ PosRestart \/ UNCHANGED vars
  <2>1. UNCHANGED <<redelegations, vote, height, base>>
    BY <1>4 DEF Start, SnapshotHead, SnapshotSet, SnapshotRedelegations, SnapshotStake, SnapshotStep,
                TrialRefused, BondPanics, TrialFails, Killed, PosTick, PosRestart, Attempt, vars, database
  <2> QED
    BY <1>1, <2>1
<1>5. ASSUME NEW b \in Blocks, NEW e \in tip.epoch..MaxEpoch, Grow(b, e)
      PROVE  ListedInv'
  BY <1>1, <1>5 DEF Grow, database
<1> QED
  BY <1>2, <1>3, <1>4, <1>5 DEF Next, Indexer, Snapshots, Crawls

LEMMA ListedMeans ==
    ASSUME RowsInv, ListedInv
    PROVE  RowsListed
<1>0. DOMAIN chain = Positions /\ \A i : i \in Votes(DOMAIN chain) <=> i \in Positions /\ chain[i].kind = "vote"
  BY ChainFacts DEF RowsInv, Votes
<1>1. \A i \in DOMAIN chain :
         chain[i].kind = "redelegate" /\ chain[i].block <= height =>
             \/ chain[i].arg \in redelegations
             \/ chain[i].block <= base.block /\ chain[i].arg \notin SetAt(chain, base.epoch)
  BY <1>0 DEF ListedInv, UpTo
<1>2. ASSUME NEW k \in Votes(DOMAIN chain), chain[k].block <= height
      PROVE  \E i \in Votes(DOMAIN chain) :
                /\ vote = chain[i].arg
                /\ \A j \in Votes(DOMAIN chain) : j > i => chain[j].block > height
  <2>1. PICK i \in Positions :
           /\ chain[i].kind = "vote" /\ vote = chain[i].arg
           /\ \A j \in Positions : chain[j].kind = "vote" /\ j > i => chain[j].block > height
    BY <1>0, <1>2 DEF ListedInv, LastVote
  <2> QED
    BY <1>0, <2>1
<1> QED
  BY <1>1, <1>2 DEF RowsListed

\* However snapshots, blocks and restarts follow each other, every redelegation of
\* an indexed block has its row, but for those to a validator that was not in the
\* set the snapshot asked for, and the row of the voter is a vote that no vote of
\* an indexed block comes after.
THEOREM RedelegationsAndVotesListed == Spec => []RowsListed
<1>1. Init => ListedInv
  <2>1. SUFFICES ASSUME Init PROVE ListedInv
    OBVIOUS
  <2>2. /\ chain = <<>> /\ tip = [block |-> 1, epoch |-> 1]
        /\ base = [block |-> 0, epoch |-> 0]
    BY <2>1 DEF Init
  <2>3. Positions = {}
    BY <2>2 DEF Positions
  <2> QED
    BY <2>2, <2>3 DEF ListedInv, Cut, LastVote, UpTo
<1>2. RowsInv /\ ListedInv /\ [Next]_vars => ListedInv'
  BY ListedStep
<1>3. Spec => []RowsInv
  BY RowsInvariant
<1>4. RowsInv /\ ListedInv => RowsListed
  BY ListedMeans
<1> QED
  BY <1>1, <1>2, <1>3, <1>4, PTL DEF Spec

-----------------------------------------------------------------------------
(* The rows of the validators, which both indexers write.                  *)

\* Once the changes of a validator have taken effect, its row is the same for
\* every later point of the chain.
LEMMA SettledRow ==
    ASSUME ChainInv, NEW x \in Nat, NEW v \in Validators, NEW A \in SUBSET Positions,
           v \in SetAt(chain, x),
           Of(chain, DOMAIN chain, v, ShownKinds) \subseteq Effective(chain, x),
           Of(chain, DOMAIN chain, v, ShownKinds) \subseteq A
    PROVE  RowsAfter(chain, A)[v] = RowsAt(chain, x)[v] /\ RowsAfter(chain, A)[v] # NoRow
<1>1. Effective(chain, x) \in SUBSET Positions
  BY EffectiveFacts
<1>2. Of(chain, A, v, ShownKinds) = Of(chain, Effective(chain, x), v, ShownKinds)
  BY <1>1, ChainFacts DEF Of
<1>3. RowsAfter(chain, A)[v] = RowsAfter(chain, Effective(chain, x))[v]
  <2> DEFINE B == Effective(chain, x)
  <2>1. Of(chain, A, v, ShownKinds) = Of(chain, B, v, ShownKinds)
    BY <1>2
  <2> HIDE DEF B
  <2>2. RowsAfter(chain, A)[v] = RowsAfter(chain, B)[v]
    BY <2>1, RowDependsOn
  <2> QED
    BY <2>2 DEF B
<1>4. RowsAfter(chain, Effective(chain, x))[v] # NoRow
  BY <1>1, RowTypes DEF SetAt
<1> QED
  BY <1>3, <1>4 DEF RowsAt

LEMMA SettledStays ==
    ASSUME RowsInv, [Next]_vars, NEW v \in Validators, Settled(v), Right(v), ~Lags
    PROVE  Right(v)'
<1>0. /\ ChainInv' /\ Longer /\ ChainInv /\ posEpoch \in Nat /\ posEpoch <= tip.epoch
      /\ rows \in [Validators -> Row] /\ Types
  BY NodeStep DEF RowsInv, Types
<1> DEFINE Shown == Of(chain, DOMAIN chain, v, ShownKinds)
<1>1. v \in SetAt(chain, posEpoch) /\ Shown \subseteq Effective(chain, posEpoch)
  BY DEF Settled, ShownKinds
<1>2. rows[v] = RowsAt(chain, posEpoch)[v]
  BY DEF Right
<1>3. RowsAt(chain', posEpoch) = RowsAt(chain, posEpoch)
  BY <1>0, EffectiveKept
<1>4. \A i \in Shown : i \in Positions /\ chain[i].epoch + Pipeline <= posEpoch
  BY <1>0, <1>1, EffectiveFacts
<1>5. \A i \in Positions : i \in Shown <=> chain[i].kind \in ShownKinds /\ chain[i].arg = v
  BY <1>0, ChainFacts DEF Of
<1> HIDE DEF Shown
<1>6. CASE rows'[v] = rows[v] /\ posEpoch' = posEpoch
  BY <1>2, <1>3, <1>6 DEF Right
<1>7. CASE WriteSnapshot
  <2>1. /\ task = "write" /\ rows' = With(rows, snap.rows) /\ UNCHANGED <<chain, posEpoch>>
    BY <1>7 DEF WriteSnapshot, node, pos
  <2>2. PICK A \in SUBSET Positions : UpTo(snap.block) \subseteq A /\ snap.rows = RowsAfter(chain, A)
    BY <2>1 DEF RowsInv, SnapshotInv
  <2>3. Cut(snap.block, snap.epoch) /\ ~(snap.epoch + Pipeline <= posEpoch)
    BY <2>1 DEF RowsInv, SnapshotInv, Lags
  <2>4. snap.epoch \in Nat /\ snap.block \in Nat
    BY <2>3 DEF Cut
  <2>5. Shown \subseteq A
    <3>1. ASSUME NEW i \in Shown
          PROVE  i \in Positions /\ chain[i].block <= snap.block
      <4>1. /\ i \in Positions /\ chain[i].epoch \in Nat /\ chain[i].block \in Nat
            /\ chain[i].epoch + Pipeline <= posEpoch
        BY <1>0, <1>4, ChainFacts
      <4>2. chain[i].epoch < snap.epoch
        BY <1>0, <2>3, <2>4, <4>1, PipelineAssumption
      <4>3. snap.block < chain[i].block => snap.epoch <= chain[i].epoch
        BY <2>3, <4>1 DEF Cut
      <4> QED
        BY <2>4, <4>1, <4>2, <4>3
    <3> QED
      BY <2>2, <3>1 DEF UpTo
  <2>6. snap.rows[v] = RowsAt(chain, posEpoch)[v] /\ snap.rows[v] # NoRow
    BY <1>0, <1>1, <2>2, <2>5, SettledRow DEF Shown
  <2>7. rows'[v] = snap.rows[v]
    BY <2>1, <2>6 DEF With
  <2> QED
    BY <1>2, <1>6, <2>1, <2>6, <2>7
<1>8. CASE WriteBlock
  <2>1. Crawling /\ UNCHANGED <<chain, posEpoch>>
    BY <1>8 DEF WriteBlock, Attempt, node, pos
  <2>2. \A kind \in ShownKinds : v \notin Named(chain, InBlock(at), kind)
    <3>1. SUFFICES ASSUME NEW i \in InBlock(at), chain[i].kind \in ShownKinds, chain[i].arg = v
                   PROVE  FALSE
      BY DEF Named
    <3>2. i \in DOMAIN chain /\ i \in Positions /\ chain[i].block = at
      BY <1>0, ChainFacts DEF InBlock
    <3>3. chain[i].epoch + Pipeline <= posEpoch
      BY <1>4, <1>5, <3>1, <3>2
    <3> QED
      BY <2>1, <3>2, <3>3 DEF Lags
  <2>3. rows'[v] = rows[v]
    BY <1>0, <1>8, <2>2, BlockWritten
  <2> QED
    BY <1>6, <2>1, <2>3
<1>9. CASE PosTick
  <2>1. /\ rows' = With(rows, RowsAt(chain, posNext)) /\ posEpoch' = posNext /\ chain' = chain
        /\ posNext \in Nat /\ posEpoch < posNext
    BY <1>0, <1>9 DEF PosTick, node, Types
  <2>2. Effective(chain, posNext) \in SUBSET Positions /\ Shown \subseteq Effective(chain, posNext)
    BY <1>0, <1>4, <2>1, EffectiveFacts, ChainFacts, PipelineAssumption
  <2>3. RowsAfter(chain, Effective(chain, posNext))[v] # NoRow
    BY <1>0, <1>1, <2>2, SettledRow DEF Shown
  <2>4. rows'[v] = RowsAt(chain, posNext)[v]
    BY <2>1, <2>3 DEF With, RowsAt
  <2> QED
    BY <2>1, <2>4 DEF Right
<1>10. CASE \/ \E stage \in {"trial", "head"} : Start(stage)
            \/ SnapshotHead \/ SnapshotSet \/ SnapshotRedelegations \/ SnapshotStake
            \/ TrialRefused \/ BondPanics \/ TrialFails \/ Killed \/ PosRestart \/ UNCHANGED vars
  <2>1. UNCHANGED <<rows, posEpoch>>
    BY <1>10 DEF Start, SnapshotHead, SnapshotSet, SnapshotRedelegations, SnapshotStake, SnapshotStep,
                 TrialRefused, BondPanics, TrialFails, Killed, PosRestart, Attempt, vars, database, pos
  <2> QED
    BY <1>6, <2>1
<1>11. ASSUME NEW b \in Blocks, NEW e \in tip.epoch..MaxEpoch, Grow(b, e)
       PROVE  Right(v)'
  BY <1>6, <1>11 DEF Grow, database, pos
<1> QED
  BY <1>7, <1>8, <1>9, <1>10, <1>11 DEF Next, Indexer, Snapshots, Crawls

\* The chain indexer and the pos indexer write the same rows of validators without
\* knowing of each other: a row that shows what the chain has settled on is never
\* set back, but by a write of the chain indexer Pipeline epochs behind the pos
\* indexer or more.
THEOREM SettledRowsKept == Spec => OnlyLaggardsRevert
<1>1. RowsInv /\ [Next]_vars =>
         [\A v \in Validators : Settled(v) /\ Right(v) => Right(v)' \/ Lags]_vars
  BY SettledStays
<1>2. Spec => []RowsInv
  BY RowsInvariant
<1> QED
  BY <1>1, <1>2, PTL DEF Spec, OnlyLaggardsRevert
=============================================================================
