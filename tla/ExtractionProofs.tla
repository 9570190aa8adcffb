------------------------- MODULE ExtractionProofs --------------------------
(***************************************************************************)
(* What the indexer derives from a block, for blocks of any length and     *)
(* batches of any size.                                                    *)
(***************************************************************************)
EXTENDS Extraction, FiniteSetTheorems, SequenceTheorems, TLAPS

-----------------------------------------------------------------------------
(* The order of places.                                                    *)

LEMMA BeforePairs ==
    ASSUME NEW a \in Nat, NEW b \in Nat, NEW c \in Nat, NEW d \in Nat
    PROVE  Before(<<a, b>>, <<c, d>>) <=> a < c \/ (a = c /\ b < d)
<1> DEFINE p == <<a, b>>
           q == <<c, d>>
<1>1. DOMAIN p = {1, 2}
  OBVIOUS
<1>2. 1..(1 - 1) = {} /\ 1..(2 - 1) = {1}
  OBVIOUS
<1>3. Before(p, q) <=> \/ p[1] < q[1] /\ \A m \in 1..(1 - 1) : p[m] = q[m]
                       \/ p[2] < q[2] /\ \A m \in 1..(2 - 1) : p[m] = q[m]
  BY <1>1 DEF Before
<1> QED
  BY <1>2, <1>3

LEMMA BeforeTriples ==
    ASSUME NEW a \in Nat, NEW b \in Nat, NEW c \in Nat,
           NEW d \in Nat, NEW e \in Nat, NEW f \in Nat
    PROVE  Before(<<a, b, c>>, <<d, e, f>>) <=>
               a < d \/ (a = d /\ (b < e \/ (b = e /\ c < f)))
<1> DEFINE p == <<a, b, c>>
           q == <<d, e, f>>
<1>1. DOMAIN p = {1, 2, 3}
  OBVIOUS
<1>2. 1..(1 - 1) = {} /\ 1..(2 - 1) = {1} /\ 1..(3 - 1) = {1, 2}
  OBVIOUS
<1>3. Before(p, q) <=> \/ p[1] < q[1] /\ \A m \in 1..(1 - 1) : p[m] = q[m]
                       \/ p[2] < q[2] /\ \A m \in 1..(2 - 1) : p[m] = q[m]
                       \/ p[3] < q[3] /\ \A m \in 1..(3 - 1) : p[m] = q[m]
  BY <1>1 DEF Before
<1> QED
  BY <1>2, <1>3

-----------------------------------------------------------------------------
(* The events of a block.                                                  *)

\* A wrapper of a block is one the node executed.
LEMMA WrapperFacts ==
    ASSUME NEW b \in Seq(Raws), NEW t \in DOMAIN b, IsWrapper(b[t])
    PROVE  /\ t \in Nat /\ t > 0
           /\ IsExecutedWrapper(b[t])
           /\ Len(b[t].batch) \in Nat
           /\ \A j \in DOMAIN b[t].batch : j \in Nat /\ j > 0
           /\ Kept(b[t]) \subseteq DOMAIN b[t].batch
<1>1. b[t] \in Raws /\ t \in Nat /\ t > 0
  OBVIOUS
<1>2. b[t] # Protocol
  BY DEF IsWrapper, Protocol
<1>3. IsExecutedWrapper(b[t])
  BY <1>1, <1>2, RawsAssumption
<1>4. DOMAIN b[t].batch = 1..Len(b[t].batch) /\ Len(b[t].batch) \in Nat \ {0}
  BY <1>3 DEF IsExecutedWrapper
<1> QED
  BY <1>1, <1>3, <1>4 DEF Kept

\* The outcome that is read is the outcome there was: a wrapper has one event.
LEMMA OutcomeRead ==
    ASSUME NEW b \in Seq(Raws), NEW t \in DOMAIN b, IsWrapper(b[t])
    PROVE  /\ IsWrapperTxApplied(Events(b), t) <=> b[t].ok
           /\ \A j : IsInnerTxAccepted(Events(b), t, j) <=> b[t].accepted[j]
<1> DEFINE Outcome(u) == [kind |-> "tx/applied", at |-> <<2, u, Len(b[u].batch) + 1>>,
                          ok |-> b[u].ok, batch |-> b[u].accepted]
           outcomes == {e \in Events(b) : e.kind = "tx/applied" /\ e.at[2] = t}
<1>1. Outcome(t) \in Events(b)
  BY DEF Events, BatchEvents, OutcomeEvents
<1>2. ASSUME NEW e \in Events(b), e.kind = "tx/applied"
      PROVE  \E u \in DOMAIN b : e = Outcome(u)
  BY <1>2 DEF Events, BatchEvents, FeeEvents, PoolEvents, OutcomeEvents
<1>3. outcomes = {Outcome(t)}
  <2>1. ASSUME NEW e \in outcomes
        PROVE  e = Outcome(t)
    BY <2>1, <1>2
  <2>2. Outcome(t) \in outcomes
    BY <1>1
  <2> HIDE DEF outcomes
  <2> QED
    BY <2>1, <2>2, Zenon
<1>4. Applied(Events(b), t) = {Outcome(t)}
  BY <1>3, Zenon DEF Applied, First
<1> QED
  BY <1>4 DEF IsWrapperTxApplied, IsInnerTxAccepted

\* The transactions of a block that pay their fee out of the pool before a place.
PaidBefore(b, t) == \E u \in 1..(t - 1) : PaidFromPool(b[u])

\* An event of the pool is found as a fee payment only if it is the first one.
LEMMA FeePaymentRead ==
    ASSUME NEW b \in Seq(Raws), NEW t \in DOMAIN b, IsWrapper(b[t]),
           NEW j \in DOMAIN b[t].batch
    PROVE  MaspRef(Events(b), t, j) = "masp/fee-payment" <=>
               j = 1 /\ PaidFromPool(b[t]) /\ ~PaidBefore(b, t)
<1> DEFINE events == {e \in Events(b) : e.kind \in MaspEvents}
           Fee(u) == [kind |-> "masp/fee-payment", at |-> <<1, u, 1>>]
           Pool(u, i) == [kind |-> "masp/transfer", at |-> <<2, u, i>>]
           refs == {e \in First(events) : e.at[2] = t /\ e.at[3] = j}
<1>1. \A u \in DOMAIN b : PaidFromPool(b[u]) => Fee(u) \in events
  BY DEF Events, FeeEvents, MaspEvents
<1>2. ASSUME NEW e \in events
      PROVE  \/ \E u \in DOMAIN b : PaidFromPool(b[u]) /\ e = Fee(u)
             \/ \E u \in DOMAIN b : IsWrapper(b[u]) /\ \E i \in Kept(b[u]) : e = Pool(u, i)
  BY <1>2 DEF Events, FeeEvents, BatchEvents, PoolEvents, OutcomeEvents, MaspEvents
<1>3. DOMAIN b \subseteq Nat
  OBVIOUS
<1>4. \A e \in First(events) : e \in events /\ \A f \in events : f # e => Before(e.at, f.at)
  BY DEF First
<1>5. MaspRef(Events(b), t, j) = IF refs = {} THEN "none" ELSE (CHOOSE e \in refs : TRUE).kind
  BY DEF MaspRef
<1> HIDE DEF events
<1>6. ASSUME j = 1, PaidFromPool(b[t]), ~PaidBefore(b, t)
      PROVE  refs = {Fee(t)}
  <2>1. Fee(t) \in events
    BY <1>1, <1>6
  <2>2. ASSUME NEW f \in events, f # Fee(t)
        PROVE  Before(Fee(t).at, f.at)
    <3>1. CASE \E u \in DOMAIN b : PaidFromPool(b[u]) /\ f = Fee(u)
      <4>1. PICK u \in DOMAIN b : PaidFromPool(b[u]) /\ f = Fee(u)
        BY <3>1
      <4>2. ~ (u < t)
        BY <4>1, <1>6, <1>3 DEF PaidBefore
      <4>3. u # t
        BY <4>1, <2>2
      <4>4. t < u /\ t \in Nat /\ u \in Nat
        BY <4>2, <4>3, <1>3
      <4>5. Before(<<1, t, 1>>, <<1, u, 1>>)
        BY <4>4, BeforeTriples
      <4> QED
        BY <4>5, <4>1
    <3>2. CASE \E u \in DOMAIN b : IsWrapper(b[u]) /\ \E i \in Kept(b[u]) : f = Pool(u, i)
      <4>1. PICK u \in DOMAIN b : IsWrapper(b[u]) /\ \E i \in Kept(b[u]) : f = Pool(u, i)
        BY <3>2
      <4>2. PICK i \in Kept(b[u]) : f = Pool(u, i)
        BY <4>1
      <4>3. t \in Nat /\ u \in Nat /\ i \in Nat
        BY <4>1, <1>3, WrapperFacts
      <4>4. Before(<<1, t, 1>>, <<2, u, i>>)
        BY <4>3, BeforeTriples
      <4> QED
        BY <4>4, <4>2
    <3> QED
      BY <3>1, <3>2, <1>2
  <2>3. Fee(t) \in First(events)
    BY <2>1, <2>2 DEF First
  <2>4. ASSUME NEW e \in First(events), e.at[2] = t, e.at[3] = j
        PROVE  e = Fee(t)
    <3>1. SUFFICES ASSUME e # Fee(t) PROVE FALSE
      OBVIOUS
    <3>2. Before(e.at, Fee(t).at) /\ e \in events
      BY <3>1, <2>1, <1>4
    <3>3. Before(Fee(t).at, e.at)
      BY <3>1, <3>2, <2>2
    <3>4. \E k \in Nat : e.at = <<k, t, 1>>
      BY <3>2, <1>2, <2>4, <1>6
    <3>5. PICK k \in Nat : e.at = <<k, t, 1>>
      BY <3>4
    <3>6. t \in Nat
      BY <1>3
    <3>7. Before(<<k, t, 1>>, <<1, t, 1>>) /\ Before(<<1, t, 1>>, <<k, t, 1>>)
      BY <3>2, <3>3, <3>5
    <3> QED
      BY <3>6, <3>7, BeforeTriples
  <2>5. Fee(t) \in refs
    BY <2>3, <1>6
  <2>6. \A e \in refs : e = Fee(t)
    BY <2>4
  <2> HIDE DEF refs
  <2> QED
    BY <2>5, <2>6, Zenon
<1>7. ASSUME NEW e \in refs, e.kind = "masp/fee-payment"
      PROVE  j = 1 /\ PaidFromPool(b[t]) /\ ~PaidBefore(b, t)
  <2>1. e \in events
    BY <1>7, <1>4
  <2>2. PICK u \in DOMAIN b : PaidFromPool(b[u]) /\ e = Fee(u)
    BY <2>1, <1>2, <1>7
  <2>3. u = t /\ j = 1
    BY <2>2, <1>7
  <2>4. ASSUME NEW v \in 1..(t - 1), PaidFromPool(b[v])
        PROVE  FALSE
    <3>1. v \in DOMAIN b /\ v \in Nat /\ t \in Nat /\ v < t
      BY <1>3
    <3>2. Fee(v) \in events
      BY <3>1, <2>4, <1>1
    <3>3. Fee(v) # e
      BY <3>1, <2>2, <2>3
    <3>4. Before(<<1, t, 1>>, <<1, v, 1>>)
      BY <3>2, <3>3, <1>4, <1>7, <2>2, <2>3
    <3> QED
      BY <3>1, <3>4, BeforeTriples
  <2> QED
    BY <2>2, <2>3, <2>4 DEF PaidBefore
<1>8. refs # {} => (CHOOSE e \in refs : TRUE) \in refs
  <2> HIDE DEF refs
  <2> QED
    OBVIOUS
<1> HIDE DEF refs
<1>9. MaspRef(Events(b), t, j) = "masp/fee-payment" => \E e \in refs : e.kind = "masp/fee-payment"
  BY <1>5, <1>8
<1>10. refs = {Fee(t)} => MaspRef(Events(b), t, j) = "masp/fee-payment"
  <2>1. (CHOOSE e \in {Fee(t)} : TRUE) = Fee(t)
    OBVIOUS
  <2> QED
    BY <1>5, <2>1
<1> QED
  BY <1>6, <1>7, <1>9, <1>10

-----------------------------------------------------------------------------
(* Success.                                                                *)

LEMMA FeePaymentIs ==
    ASSUME NEW b \in Seq(Raws), NEW t \in DOMAIN b, IsWrapper(b[t])
    PROVE  MaspFeePayment(Events(b), t, b[t].batch) =
               IF PaidFromPool(b[t]) /\ ~PaidBefore(b, t) THEN 1 ELSE 0
<1> DEFINE pays == {j \in DOMAIN b[t].batch : MaspRef(Events(b), t, j) = "masp/fee-payment"}
<1>1. 1 \in DOMAIN b[t].batch
  BY WrapperFacts DEF IsExecutedWrapper
<1>2. CASE PaidFromPool(b[t]) /\ ~PaidBefore(b, t)
  <2>1. \A j \in pays : j = 1
    BY FeePaymentRead
  <2>2. 1 \in pays
    BY <1>1, <1>2, FeePaymentRead
  <2>3. MaspFeePayment(Events(b), t, b[t].batch) = CHOOSE j \in pays : \A i \in pays : i <= j
    BY <2>2 DEF MaspFeePayment
  <2> HIDE DEF pays
  <2>4. pays = {1}
    BY <2>1, <2>2
  <2>5. (CHOOSE j \in pays : \A i \in pays : i <= j) \in pays
    BY <2>4
  <2> QED
    BY <1>2, <2>3, <2>4, <2>5
<1>3. CASE ~ (PaidFromPool(b[t]) /\ ~PaidBefore(b, t))
  <2>1. pays = {}
    BY <1>3, FeePaymentRead
  <2> QED
    BY <1>3, <2>1 DEF MaspFeePayment
<1> QED
  BY <1>2, <1>3

LEMMA MissedIs ==
    ASSUME NEW b \in Seq(Raws), NEW t \in DOMAIN b, IsWrapper(b[t]), NEW j
    PROVE  /\ <<t, j>> \in Inners(b) <=> j \in Kept(b[t])
           /\ <<t, j>> \in MissedFeePayments(b) <=>
                  /\ j \in Kept(b[t]) /\ j = 1
                  /\ b[t].paysShielded /\ b[t].atomic /\ ~b[t].ok
                  /\ PaidBefore(b, t)
  BY DEF Inners, MissedFeePayments, PaidBefore

\* A decoded transaction counts if and only if the chain kept it, and its fee
\* payment is not missed.
LEMMA SuccessIs ==
    ASSUME NEW b \in Seq(Raws), NEW t \in DOMAIN b, IsWrapper(b[t]),
           NEW j \in DOMAIN b[t].batch
    PROVE  WasSuccessful(Deserialize(Events(b), t, b[t]), j) <=>
               <<t, j>> \in Inners(b) \ MissedFeePayments(b)
<1> DEFINE w == b[t]
           d == Deserialize(Events(b), t, w)
<1>1. /\ IsExecutedWrapper(w) /\ Kept(w) \subseteq DOMAIN w.batch
      /\ \A i \in DOMAIN w.batch : i \in Nat /\ i > 0
  BY WrapperFacts
<1>2. d.applied <=> w.ok
  BY OutcomeRead DEF Deserialize
<1>3. d.batch[j].applied <=> w.accepted[j]
  BY OutcomeRead DEF Deserialize, InnerTransaction
<1>4. d.feePayment = j <=> j = 1 /\ PaidFromPool(w) /\ ~PaidBefore(b, t)
  BY FeePaymentIs, <1>1 DEF Deserialize
<1>5. d.atomic = w.atomic
  BY DEF Deserialize
<1>6. WasSuccessful(d, j) <=>
          /\ w.accepted[j]
          /\ \/ w.ok
             \/ j = 1 /\ PaidFromPool(w) /\ ~PaidBefore(b, t)
             \/ ~w.atomic
  BY <1>2, <1>3, <1>4, <1>5 DEF WasSuccessful
<1>7. /\ Executed(w)
      /\ DOMAIN w.batch = 1..Len(w.batch) /\ 1 \in DOMAIN w.batch
      /\ w.accepted \in [DOMAIN w.batch -> BOOLEAN]
      /\ {w.atomic, w.paysShielded, w.paid, w.ok} \subseteq BOOLEAN
  BY <1>1 DEF IsExecutedWrapper
<1> HIDE DEF w, d
<1>8. CASE ~w.paid
  BY <1>6, <1>7, <1>8, MissedIs DEF Kept, Executed, w, d
<1>9. CASE w.paid /\ ~w.atomic
  BY <1>6, <1>7, <1>9, MissedIs DEF Kept, Executed, AllAccepted, w, d
<1>10. CASE w.paid /\ w.atomic /\ AllAccepted(w)
  BY <1>6, <1>7, <1>10, MissedIs DEF Kept, Executed, AllAccepted, w, d
<1>11. CASE w.paid /\ w.atomic /\ ~AllAccepted(w)
  <2>1. ~w.ok /\ (w.paysShielded => w.accepted[1])
    BY <1>7, <1>11 DEF Executed
  <2>2. Kept(w) = IF w.paysShielded THEN {1} ELSE {}
    BY <1>11 DEF Kept
  <2>3. PaidFromPool(w) <=> w.paysShielded
    BY <1>11 DEF PaidFromPool, w
  <2>4. WasSuccessful(d, j) <=> j = 1 /\ w.paysShielded /\ ~PaidBefore(b, t)
    BY <1>6, <1>11, <2>1, <2>3
  <2>5. <<t, j>> \in Inners(b) \ MissedFeePayments(b) <=>
            j \in Kept(w) /\ ~ (j = 1 /\ w.paysShielded /\ PaidBefore(b, t))
    BY <1>11, <2>1, MissedIs DEF w
  <2>6. WasSuccessful(d, j) <=> <<t, j>> \in Inners(b) \ MissedFeePayments(b)
    BY <2>2, <2>4, <2>5
  <2> QED
    BY <2>6 DEF w, d
<1> QED
  BY <1>7, <1>8, <1>9, <1>10, <1>11

-----------------------------------------------------------------------------
(* The transactions decoded so far.                                        *)

WrappersTo(b, n) == {t \in 1..n : IsWrapper(b[t])}
DecodedOf(b, n) == {Deserialize(Events(b), t, b[t]) : t \in WrappersTo(b, n)}

\* What was decoded of the first transactions of a block: all wrappers among them,
\* in their order.
Decodes(d, b, n) ==
    /\ n \in 0..Len(b)
    /\ d \in Seq(DecodedOf(b, n))
    /\ \A t \in WrappersTo(b, n) : \E k \in DOMAIN d : d[k].tx = t
    /\ \A k \in DOMAIN d, l \in DOMAIN d : k < l => d[k].tx < d[l].tx

LEMMA DecodedTx ==
    ASSUME NEW b \in Seq(Raws), NEW n \in 0..Len(b), NEW d \in Seq(DecodedOf(b, n)),
           NEW k \in DOMAIN d
    PROVE  LET t == d[k].tx IN
           /\ t \in DOMAIN b /\ t \in WrappersTo(b, n) /\ t \in Nat /\ IsWrapper(b[t])
           /\ k \in Nat
           /\ d[k] = Deserialize(Events(b), t, b[t])
           /\ d[k].payer = b[t].payer /\ d[k].token = b[t].token
           /\ DOMAIN d[k].batch = DOMAIN b[t].batch
           /\ \A j \in DOMAIN b[t].batch : /\ d[k].batch[j].kind = KindOf(b[t].batch[j])
                                           /\ d[k].batch[j].data = b[t].batch[j]
<1>1. d[k] \in DecodedOf(b, n) /\ k \in Nat
  OBVIOUS
<1>2. PICK t \in WrappersTo(b, n) : d[k] = Deserialize(Events(b), t, b[t])
  BY <1>1 DEF DecodedOf
<1>3. d[k].tx = t
  BY <1>2 DEF Deserialize
<1>4. t \in DOMAIN b /\ t \in Nat /\ IsWrapper(b[t])
  BY DEF WrappersTo
<1>5. /\ d[k].payer = b[t].payer /\ d[k].token = b[t].token
      /\ d[k].batch = [j \in DOMAIN b[t].batch |->
                           InnerTransaction(Events(b), t, j, b[t].batch[j])]
  BY <1>2 DEF Deserialize
<1>6. \A j \in DOMAIN b[t].batch : /\ d[k].batch[j].kind = KindOf(b[t].batch[j])
                                   /\ d[k].batch[j].data = b[t].batch[j]
  BY <1>5 DEF InnerTransaction
<1> QED
  BY <1>1, <1>2, <1>3, <1>4, <1>5, <1>6

\* The same of a block that is decoded as a whole.
LEMMA DecodedOfBlock ==
    ASSUME NEW b \in Seq(Raws), NEW d, Decodes(d, b, Len(b)), NEW k \in DOMAIN d
    PROVE  LET t == d[k].tx IN
           /\ t \in DOMAIN b /\ t \in Nat /\ k \in Nat /\ IsWrapper(b[t])
           /\ d[k].payer = b[t].payer /\ d[k].token = b[t].token
           /\ DOMAIN d[k].batch = DOMAIN b[t].batch
           /\ \A j \in DOMAIN b[t].batch : /\ d[k].batch[j].kind = KindOf(b[t].batch[j])
                                           /\ d[k].batch[j].data = b[t].batch[j]
<1>1. Len(b) \in 0..Len(b) /\ d \in Seq(DecodedOf(b, Len(b)))
  BY DEF Decodes
<1> QED
  BY <1>1, DecodedTx

LEMMA DecodesNothing ==
    ASSUME NEW b \in Seq(Raws)
    PROVE  Decodes(<<>>, b, 0)
  BY DEF Decodes, WrappersTo, DecodedOf

LEMMA DecodesOneMore ==
    ASSUME NEW b \in Seq(Raws), NEW n, NEW d, Decodes(d, b, n), n < Len(b)
    PROVE  Decodes(IF IsWrapper(b[n + 1])
                   THEN Append(d, Deserialize(Events(b), n + 1, b[n + 1])) ELSE d, b, n + 1)
<1> DEFINE new == Deserialize(Events(b), n + 1, b[n + 1])
<1>1. n \in 0..Len(b) /\ n \in Nat /\ n + 1 \in 0..Len(b) /\ d \in Seq(DecodedOf(b, n))
  BY DEF Decodes
<1>2. 1..(n + 1) = (1..n) \cup {n + 1}
  BY <1>1
<1>3. CASE ~IsWrapper(b[n + 1])
  <2>1. WrappersTo(b, n + 1) = WrappersTo(b, n)
    BY <1>2, <1>3 DEF WrappersTo
  <2> QED
    BY <1>1, <1>3, <2>1 DEF Decodes, DecodedOf
<1>4. CASE IsWrapper(b[n + 1])
  <2> DEFINE e == Append(d, new)
  <2>1. WrappersTo(b, n + 1) = WrappersTo(b, n) \cup {n + 1}
    BY <1>2, <1>4 DEF WrappersTo
  <2>2. DecodedOf(b, n + 1) = DecodedOf(b, n) \cup {new}
    BY <2>1 DEF DecodedOf
  <2>3. d \in Seq(DecodedOf(b, n + 1)) /\ new \in DecodedOf(b, n + 1)
    BY <1>1, <2>2
  <2>4. /\ e \in Seq(DecodedOf(b, n + 1))
        /\ DOMAIN e = (DOMAIN d) \cup {Len(d) + 1}
        /\ e[Len(d) + 1] = new
        /\ \A k \in DOMAIN d : e[k] = d[k] /\ k < Len(d) + 1 /\ k \in Nat
    <3> HIDE DEF new
    <3> QED
      BY <2>3
  <2>5. new.tx = n + 1
    BY DEF Deserialize
  <2> HIDE DEF e, new
  <2>6. \A k \in DOMAIN d : d[k].tx < n + 1
    <3> TAKE k \in DOMAIN d
    <3>1. d[k].tx \in WrappersTo(b, n)
      BY <1>1, DecodedTx
    <3> QED
      BY <3>1, <1>1 DEF WrappersTo
  <2>7. \A t \in WrappersTo(b, n + 1) : \E k \in DOMAIN e : e[k].tx = t
    BY <2>1, <2>4, <2>5 DEF Decodes
  <2>8. ASSUME NEW k \in DOMAIN e, NEW l \in DOMAIN e, k < l
        PROVE  e[k].tx < e[l].tx
    <3>1. k \in DOMAIN d
      BY <2>4, <2>8, <1>1
    <3>2. CASE l \in DOMAIN d
      BY <3>1, <3>2, <2>4, <2>8 DEF Decodes
    <3>3. CASE l = Len(d) + 1
      BY <3>1, <3>3, <2>4, <2>5, <2>6
    <3> QED
      BY <3>2, <3>3, <2>4
  <2> QED
    BY <1>1, <1>4, <2>4, <2>7, <2>8 DEF Decodes, e, new
<1> QED
  BY <1>3, <1>4

\* What counts of a block that is decoded: the places that were kept, but for the
\* missed fee payments, each once.
Counted(b) == Inners(b) \ MissedFeePayments(b)

LEMMA CountedPlaces ==
    ASSUME NEW b \in Seq(Raws), NEW p \in Inners(b)
    PROVE  /\ p = <<p[1], p[2]>>
           /\ p[1] \in DOMAIN b /\ IsWrapper(b[p[1]]) /\ p[2] \in Kept(b[p[1]])
           /\ p[2] \in DOMAIN b[p[1]].batch
           /\ p[1] \in Nat /\ p[2] \in Nat /\ p[1] > 0 /\ p[2] > 0
<1>1. PICK t \in DOMAIN b : IsWrapper(b[t]) /\ p \in {t} \X Kept(b[t])
  BY DEF Inners
<1>2. p = <<p[1], p[2]>> /\ p[1] = t /\ p[2] \in Kept(b[t])
  BY <1>1
<1> QED
  BY <1>1, <1>2, WrapperFacts

LEMMA SuccessfulPlaces ==
    ASSUME NEW b \in Seq(Raws), NEW d, Decodes(d, b, Len(b))
    PROVE  /\ \A at \in SuccessfulAt(d) :
                  /\ at = <<at[1], at[2]>> /\ at[1] \in DOMAIN d /\ at[2] \in DOMAIN d[at[1]].batch
                  /\ PlaceOf(d, at) \in Counted(b)
                  /\ d[at[1]].batch[at[2]].kind = KindOf(InnerAt(b, PlaceOf(d, at)))
                  /\ d[at[1]].batch[at[2]].data = InnerAt(b, PlaceOf(d, at))
           /\ \A p \in Counted(b) : \E at \in SuccessfulAt(d) : PlaceOf(d, at) = p
<1>1. Len(b) \in Nat /\ Len(b) \in 0..Len(b) /\ d \in Seq(DecodedOf(b, Len(b)))
  BY DEF Decodes
<1>2. ASSUME NEW at \in SuccessfulAt(d)
      PROVE  /\ at = <<at[1], at[2]>> /\ at[1] \in DOMAIN d /\ at[2] \in DOMAIN d[at[1]].batch
             /\ PlaceOf(d, at) \in Counted(b)
             /\ d[at[1]].batch[at[2]].kind = KindOf(InnerAt(b, PlaceOf(d, at)))
             /\ d[at[1]].batch[at[2]].data = InnerAt(b, PlaceOf(d, at))
  <2>1. /\ at = <<at[1], at[2]>> /\ at[1] \in DOMAIN d /\ at[2] \in DOMAIN d[at[1]].batch
        /\ WasSuccessful(d[at[1]], at[2])
    BY <1>2 DEF SuccessfulAt
  <2> DEFINE k == at[1]
             t == d[k].tx
  <2>2. /\ t \in DOMAIN b /\ IsWrapper(b[t]) /\ d[k] = Deserialize(Events(b), t, b[t])
        /\ DOMAIN d[k].batch = DOMAIN b[t].batch
        /\ \A j \in DOMAIN b[t].batch : /\ d[k].batch[j].kind = KindOf(b[t].batch[j])
                                        /\ d[k].batch[j].data = b[t].batch[j]
    BY <1>1, <2>1, DecodedTx
  <2>3. <<t, at[2]>> \in Counted(b)
    BY <2>1, <2>2, SuccessIs DEF Counted
  <2> QED
    BY <2>1, <2>2, <2>3 DEF PlaceOf, InnerAt
<1>3. ASSUME NEW p \in Counted(b)
      PROVE  \E at \in SuccessfulAt(d) : PlaceOf(d, at) = p
  <2>1. /\ p = <<p[1], p[2]>> /\ p[1] \in DOMAIN b /\ IsWrapper(b[p[1]])
        /\ p[2] \in DOMAIN b[p[1]].batch
    BY CountedPlaces DEF Counted
  <2>2. p[1] \in WrappersTo(b, Len(b))
    BY <2>1 DEF WrappersTo
  <2>3. PICK k \in DOMAIN d : d[k].tx = p[1]
    BY <2>2 DEF Decodes
  <2>4. d[k] = Deserialize(Events(b), p[1], b[p[1]]) /\ DOMAIN d[k].batch = DOMAIN b[p[1]].batch
    BY <1>1, <2>3, DecodedTx
  <2>5. WasSuccessful(d[k], p[2])
    BY <2>1, <2>4, <1>3, SuccessIs DEF Counted
  <2>6. <<k, p[2]>> \in SuccessfulAt(d)
    <3>1. <<k, p[2]>> \in UNION {{l} \X DOMAIN d[l].batch : l \in DOMAIN d}
      <4>1. <<k, p[2]>> \in {k} \X DOMAIN d[k].batch
        BY <2>1, <2>4
      <4> QED
        BY <4>1
    <3> QED
      BY <3>1, <2>5 DEF SuccessfulAt
  <2> QED
    BY <2>1, <2>3, <2>6 DEF PlaceOf
<1> QED
  BY <1>2, <1>3

LEMMA SuccessfulIs ==
    ASSUME NEW b \in Seq(Raws), NEW d, Decodes(d, b, Len(b))
    PROVE  Successful(d) = {[kind |-> KindOf(InnerAt(b, p)), data |-> InnerAt(b, p), at |-> p] :
                               p \in Counted(b)}
<1> DEFINE Row(p) == [kind |-> KindOf(InnerAt(b, p)), data |-> InnerAt(b, p), at |-> p]
<1>1. ASSUME NEW s \in Successful(d)
      PROVE  s \in {Row(p) : p \in Counted(b)}
  <2>1. PICK at \in SuccessfulAt(d) :
            s = [kind |-> d[at[1]].batch[at[2]].kind, data |-> d[at[1]].batch[at[2]].data,
                 at |-> PlaceOf(d, at)]
    BY DEF Successful
  <2>2. s = Row(PlaceOf(d, at)) /\ PlaceOf(d, at) \in Counted(b)
    BY <2>1, SuccessfulPlaces
  <2> QED
    BY <2>2
<1>2. ASSUME NEW p \in Counted(b)
      PROVE  Row(p) \in Successful(d)
  <2>1. PICK at \in SuccessfulAt(d) : PlaceOf(d, at) = p
    BY SuccessfulPlaces
  <2>2. Row(p) = [kind |-> d[at[1]].batch[at[2]].kind, data |-> d[at[1]].batch[at[2]].data,
                  at |-> PlaceOf(d, at)]
    BY <2>1, SuccessfulPlaces
  <2> QED
    BY <2>2 DEF Successful
<1> QED
  BY <1>1, <1>2

\* Gas is estimated for a batch if and only if the chain kept all of it.
LEMMA GasIs ==
    ASSUME NEW b \in Seq(Raws), NEW d, Decodes(d, b, Len(b))
    PROVE  {e.tx : e \in GasEstimates(d)} =
               {t \in DOMAIN b : IsWrapper(b[t]) /\ Kept(b[t]) = DOMAIN b[t].batch}
<1> DEFINE Whole(v) == \A j \in DOMAIN v.batch : WasSuccessful(v, j)
<1>1. Len(b) \in 0..Len(b) /\ d \in Seq(DecodedOf(b, Len(b)))
  BY DEF Decodes
<1>2. /\ \A e \in GasEstimates(d) : \E v \in ToSet(d) : Whole(v) /\ e.tx = v.tx
      /\ \A v \in ToSet(d) : Whole(v) => \E e \in GasEstimates(d) : e.tx = v.tx
  <2> DEFINE Noted(w) == {j \in DOMAIN w.batch :
                             /\ w.batch[j].notes
                             /\ w.batch[j].kind \in PoolTransfers
                                   \cup {"ShieldedTransfer", "IbcShieldingTransfer",
                                         "IbcUnshieldingTransfer"}}
             Estimate(w) == [tx |-> w.tx, noted |-> Cardinality(Noted(w))]
             whole == {v \in ToSet(d) : Whole(v)}
  <2>1. GasEstimates(d) = {Estimate(w) : w \in whole}
    BY Zenon DEF GasEstimates
  <2>2. \A w : Estimate(w).tx = w.tx
    OBVIOUS
  <2>3. \A v : v \in whole <=> v \in ToSet(d) /\ Whole(v)
    OBVIOUS
  <2> HIDE DEF Estimate, Whole, whole
  <2> QED
    BY <2>1, <2>2, <2>3
<1>3. ASSUME NEW t \in DOMAIN b, IsWrapper(b[t])
      PROVE  Whole(Deserialize(Events(b), t, b[t])) <=> Kept(b[t]) = DOMAIN b[t].batch
  <2> DEFINE w == b[t]
  <2>1. /\ Kept(w) \subseteq DOMAIN w.batch /\ IsExecutedWrapper(w)
    BY <1>3, WrapperFacts
  <2>2. Whole(Deserialize(Events(b), t, w)) <=> \A j \in DOMAIN w.batch : <<t, j>> \in Counted(b)
    <3>1. DOMAIN Deserialize(Events(b), t, w).batch = DOMAIN w.batch
      BY DEF Deserialize
    <3> QED
      BY <3>1, <1>3, SuccessIs DEF Counted
  <2>3. ASSUME Kept(w) = DOMAIN w.batch, NEW j \in DOMAIN w.batch
        PROVE  <<t, j>> \in Counted(b)
    <3>1. SUFFICES ASSUME <<t, j>> \in MissedFeePayments(b) PROVE FALSE
      BY <1>3, <2>3, MissedIs DEF Counted
    <3>2. w.paysShielded /\ w.atomic /\ ~w.ok /\ j \in Kept(w)
      BY <3>1, <1>3, MissedIs
    <3>3. w.paid
      BY <3>2 DEF Kept
    <3>4. ~AllAccepted(w) /\ w.accepted[1]
      BY <2>1, <3>2, <3>3 DEF IsExecutedWrapper, Executed
    <3>5. DOMAIN w.batch = {1}
      BY <2>3, <3>2, <3>3, <3>4 DEF Kept
    <3> QED
      BY <3>4, <3>5 DEF AllAccepted
  <2>4. (\A j \in DOMAIN w.batch : <<t, j>> \in Counted(b)) => DOMAIN w.batch \subseteq Kept(w)
    BY <1>3, MissedIs DEF Counted
  <2> QED
    BY <2>1, <2>2, <2>3, <2>4
<1> HIDE DEF Whole
<1>4. ASSUME NEW v \in ToSet(d), Whole(v)
      PROVE  v.tx \in DOMAIN b /\ IsWrapper(b[v.tx]) /\ Kept(b[v.tx]) = DOMAIN b[v.tx].batch
  <2>1. PICK k \in DOMAIN d : v = d[k]
    BY DEF ToSet
  <2> QED
    BY <2>1, <1>1, <1>3, <1>4, DecodedTx
<1>5. ASSUME NEW t \in DOMAIN b, IsWrapper(b[t]), Kept(b[t]) = DOMAIN b[t].batch
      PROVE  \E v \in ToSet(d) : Whole(v) /\ v.tx = t
  <2>1. t \in WrappersTo(b, Len(b))
    BY <1>5 DEF WrappersTo
  <2>2. PICK k \in DOMAIN d : d[k].tx = t
    BY <2>1 DEF Decodes
  <2>3. d[k] = Deserialize(Events(b), t, b[t])
    BY <2>2, <1>1, DecodedTx
  <2>4. d[k] \in ToSet(d)
    BY DEF ToSet
  <2> QED
    BY <2>2, <2>3, <2>4, <1>3, <1>5
<1> QED
  BY <1>2, <1>4, <1>5

-----------------------------------------------------------------------------
(* The indexer is at a place of the chain, and what it decoded is of there. *)

PlaceInv ==
    /\ chain \in Seq(Seq(Raws))
    /\ height \in 0..Len(chain)
    /\ Behind => Decodes(decoded, Block, taken)
    /\ ~Behind => decoded = <<>> /\ taken = 0

LEMMA PlaceFacts ==
    ASSUME PlaceInv
    PROVE  /\ Len(chain) \in Nat /\ height \in Nat /\ DOMAIN chain = 1..Len(chain)
           /\ Behind => Block \in Seq(Raws) /\ height + 1 \in DOMAIN chain
           /\ Complete => Decodes(decoded, Block, Len(Block))
<1>1. Len(chain) \in Nat /\ height \in Nat
  BY DEF PlaceInv
<1>2. Behind => height + 1 \in DOMAIN chain
  BY <1>1 DEF PlaceInv, Behind
<1>3. Behind => Block \in Seq(Raws)
  BY <1>2 DEF PlaceInv, Block
<1>4. DOMAIN chain = 1..Len(chain)
  BY DEF PlaceInv
<1> QED
  BY <1>1, <1>2, <1>3, <1>4 DEF PlaceInv, Complete

\* The chain that Finalize appends to.
LEMMA GrownFacts ==
    ASSUME NEW c \in Seq(Seq(Raws)), NEW block \in Seq(Raws)
    PROVE  LET grown == Append(c, block) IN
           /\ grown \in Seq(Seq(Raws)) /\ Len(grown) = Len(c) + 1 /\ Len(c) \in Nat
           /\ DOMAIN grown = (DOMAIN c) \cup {Len(c) + 1}
           /\ \A h \in DOMAIN c : grown[h] = c[h]
           /\ grown[Len(c) + 1] = block
  OBVIOUS

LEMMA BlockType ==
    ASSUME NEW n \in 1..MaxPerBlock, NEW block \in [1..n -> Raws]
    PROVE  block \in Seq(Raws)
<1>1. n \in Nat
  BY ExtractionBounds
<1> QED
  BY <1>1

LEMMA PlaceStep ==
    ASSUME PlaceInv, [Next]_vars
    PROVE  PlaceInv'
<1>1. CASE \E n \in 1..MaxPerBlock : \E block \in [1..n -> Raws] : Finalize(block)
  <2>1. PICK n \in 1..MaxPerBlock : \E block \in [1..n -> Raws] : Finalize(block)
    BY <1>1
  <2>2. PICK block \in [1..n -> Raws] : Finalize(block)
    BY <2>1
  <2>3. block \in Seq(Raws)
    BY BlockType
  <2>4. /\ chain \in Seq(Seq(Raws)) /\ chain' = Append(chain, block)
        /\ decoded' = decoded /\ taken' = taken /\ height' = height /\ height \in 0..Len(chain)
    BY <2>2 DEF PlaceInv, Finalize
  <2>5. /\ chain' \in Seq(Seq(Raws)) /\ Len(chain') = Len(chain) + 1 /\ Len(chain) \in Nat
        /\ \A h \in DOMAIN chain : chain'[h] = chain[h]
        /\ chain'[Len(chain) + 1] = block
    BY <2>3, <2>4, GrownFacts
  <2>6. height' \in 0..Len(chain') /\ Behind'
    BY <2>4, <2>5 DEF Behind
  <2>7. CASE Behind
    <3>1. Block' = Block
      BY <2>7, <2>4, <2>5, PlaceFacts DEF Block
    <3> QED
      BY <2>4, <2>5, <2>6, <2>7, <3>1 DEF PlaceInv
  <2>8. CASE ~Behind
    <3>1. height = Len(chain)
      BY <2>8, <2>4, <2>5 DEF Behind
    <3>2. Block' = block
      BY <3>1, <2>4, <2>5 DEF Block
    <3>3. decoded = <<>> /\ taken = 0
      BY <2>8 DEF PlaceInv
    <3>4. Decodes(decoded', Block', taken')
      BY <3>2, <3>3, <2>3, <2>4, DecodesNothing
    <3> QED
      BY <2>5, <2>6, <3>4 DEF PlaceInv
  <2> QED
    BY <2>7, <2>8
<1>2. CASE DecodeTx
  <2>1. /\ Behind /\ taken < Len(Block) /\ taken' = taken + 1
        /\ decoded' = IF IsWrapper(Block[taken + 1])
                      THEN Append(decoded, Deserialize(Events(Block), taken + 1, Block[taken + 1]))
                      ELSE decoded
        /\ chain' = chain /\ height' = height
    BY <1>2 DEF DecodeTx
  <2>2. Block \in Seq(Raws) /\ Decodes(decoded, Block, taken)
    BY <2>1, PlaceFacts DEF PlaceInv
  <2>3. Decodes(decoded', Block, taken')
    BY <2>1, <2>2, DecodesOneMore
  <2>4. Block' = Block /\ Behind'
    BY <2>1 DEF Block, Behind
  <2> QED
    BY <2>1, <2>3, <2>4 DEF PlaceInv
<1>3. CASE Commit
  <2>1. Behind /\ chain' = chain /\ height' = height + 1 /\ decoded' = <<>> /\ taken' = 0
    BY <1>3 DEF Commit, Complete
  <2>2. height' \in 0..Len(chain')
    BY <2>1, PlaceFacts DEF Behind
  <2>3. Behind' => Block' \in Seq(Raws)
    <3>1. Len(chain) \in Nat /\ chain \in Seq(Seq(Raws)) /\ height' \in Nat
      BY <2>1, PlaceFacts DEF PlaceInv
    <3>2. Behind' => height' + 1 \in DOMAIN chain
      BY <3>1, <2>1 DEF Behind
    <3> QED
      BY <3>1, <3>2, <2>1 DEF Block
  <2> QED
    BY <2>1, <2>2, <2>3, DecodesNothing DEF PlaceInv
<1>4. CASE AttemptFails
  <2>1. chain' = chain /\ height' = height /\ decoded' = <<>> /\ taken' = 0
    BY <1>4 DEF AttemptFails
  <2>2. Behind' = Behind /\ Block' = Block
    BY <2>1 DEF Behind, Block
  <2> QED
    BY <2>1, <2>2, PlaceFacts, DecodesNothing DEF PlaceInv
<1>5. CASE UNCHANGED vars
  BY <1>5 DEF vars, PlaceInv, Behind, Block
<1> QED
  BY <1>1, <1>2, <1>3, <1>4, <1>5 DEF Next

\* The indexer never holds anything but the wrappers of the block after the last
\* one that is indexed, decoded in their order (get_block and its callers).
THEOREM DecodingCorrect == Spec => []PlaceInv
<1>1. Init => PlaceInv
  BY DEF Init, PlaceInv, Behind
<1> QED
  BY <1>1, PlaceStep, PTL DEF Spec

\* The transactions that count are those the chain kept, but for the fee payments
\* that masp_ref misses, and gas is estimated for the batches kept as a whole, in
\* blocks and batches of any size.
THEOREM SuccessCorrect == Spec => []SuccessSound
<1>1. PlaceInv => SuccessSound
  <2> SUFFICES ASSUME PlaceInv, Complete PROVE SuccessSound
    BY DEF SuccessSound
  <2>1. Block \in Seq(Raws) /\ Decodes(decoded, Block, Len(Block))
    BY PlaceFacts DEF Complete
  <2>2. {s.at : s \in Successful(decoded)} = Counted(Block)
    <3> DEFINE Row(p) == [kind |-> KindOf(InnerAt(Block, p)), data |-> InnerAt(Block, p), at |-> p]
    <3>1. Successful(decoded) = {Row(p) : p \in Counted(Block)}
      BY <2>1, SuccessfulIs
    <3>2. \A p : Row(p).at = p
      OBVIOUS
    <3> HIDE DEF Row
    <3> QED
      BY <3>1, <3>2
  <2> QED
    BY <2>1, <2>2, GasIs DEF SuccessSound, Counted
<1> QED
  BY <1>1, DecodingCorrect, PTL

-----------------------------------------------------------------------------
(* Tokens of packets.                                                      *)

LEMMA SingleElement ==
    ASSUME NEW s \in Seq(STRING), Len(s) = 1
    PROVE  s = <<s[1]>>
<1>1. DOMAIN s = {1} /\ s[1] \in STRING
  OBVIOUS
<1>2. <<s[1]>> \in Seq(STRING) /\ Len(<<s[1]>>) = 1 /\ <<s[1]>>[1] = s[1]
  BY <1>1
<1> QED
  BY <1>1, <1>2, SeqEqual

LEMMA TailFacts ==
    ASSUME NEW d \in Seq(STRING), Len(d) > 1
    PROVE  Tail(d) \in Seq(STRING) /\ Tail(d) # <<>> /\ Last(Tail(d)) = Last(d)
<1>1. Len(d) \in Nat /\ d # <<>>
  OBVIOUS
<1>2. /\ Tail(d) \in Seq(STRING) /\ Len(Tail(d)) = Len(d) - 1
      /\ \A k \in 1..Len(Tail(d)) : Tail(d)[k] = d[k + 1]
  BY <1>1, HeadTailProperties
<1>3. Len(d) - 1 \in 1..Len(Tail(d)) /\ (Len(d) - 1) + 1 = Len(d)
  BY <1>1, <1>2
<1>4. Tail(d)[Len(Tail(d))] = d[Len(d)]
  BY <1>2, <1>3
<1>5. Tail(d) # <<>>
  <2> DEFINE n == Len(Tail(d))
  <2>1. n \in Nat /\ n > 0
    BY <1>1, <1>2
  <2> HIDE DEF n
  <2>2. Tail(d) = <<>> => n = 0
    BY EmptySeq DEF n
  <2> QED
    BY <2>1, <2>2
<1> QED
  BY <1>2, <1>4, <1>5 DEF Last

\* The voucher a packet becomes is a token of the same base.
LEMMA VoucherFacts ==
    ASSUME NEW i, IsPacket(i)
    PROVE  /\ IsToken(VoucherOf(i)) /\ Last(VoucherOf(i)) = Last(i.denom)
           /\ VoucherOf(i) = IF Returns(i.denom, i.channel) THEN Tail(i.denom)
                             ELSE <<i.channel>> \o i.denom
<1>1. i.denom \in Seq(STRING) /\ i.denom # <<>> /\ Len(i.denom) \in Nat /\ Len(i.denom) > 0
  BY DEF IsPacket, IsToken
<1>2. i.channel \in STRING
  BY DEF IsPacket
<1>3. VoucherOf(i) = IF Returns(i.denom, i.channel) THEN Tail(i.denom)
                     ELSE <<i.channel>> \o i.denom
  BY DEF VoucherOf, ReceivedToken
<1>4. CASE Returns(i.denom, i.channel)
  <2>1. Len(i.denom) > 1
    BY <1>1, <1>4 DEF Returns, Hops
  <2>2. Tail(i.denom) \in Seq(STRING) /\ Tail(i.denom) # <<>> /\ Last(Tail(i.denom)) = Last(i.denom)
    BY <1>1, <2>1, TailFacts
  <2> QED
    BY <1>3, <1>4, <2>2 DEF IsToken
<1>5. CASE ~Returns(i.denom, i.channel)
  <2> DEFINE long == <<i.channel>> \o i.denom
  <2>1. /\ long \in Seq(STRING) /\ Len(long) = 1 + Len(i.denom)
        /\ long[1 + Len(i.denom)] = i.denom[Len(i.denom)]
    BY <1>1, <1>2
  <2> QED
    BY <1>1, <1>3, <1>5, <2>1 DEF IsToken, Last
<1> QED
  BY <1>3, <1>4, <1>5

\* The token the indexer derives is the token there is, but for NAM's vouchers.
LEMMA TokenRead ==
    ASSUME NEW i, IsPacket(i)
    PROVE  TokenOf(i) = IF Last(i.denom) = Last(Native) THEN Native
                        ELSE IF i.msg = "recv" THEN VoucherOf(i) ELSE i.denom
<1>1. i.denom \in Seq(STRING) /\ i.denom # <<>> /\ Len(i.denom) \in Nat /\ Len(i.denom) > 0
  BY DEF IsPacket, IsToken
<1> SUFFICES ASSUME Last(i.denom) # Last(Native)
             PROVE  TokenOf(i) = IF i.msg = "recv" THEN VoucherOf(i) ELSE i.denom
  BY DEF TokenOf, GetIbcToken
<1>2. CASE i.msg # "recv"
  BY <1>1, <1>2 DEF TokenOf, GetIbcToken, TraceWhenSending, NoTrace
<1>3. CASE i.msg = "recv" /\ ~Returns(i.denom, i.channel)
  <2>1. <<i.channel>> \o i.denom # <<>>
    BY VoucherFacts, <1>3 DEF IsToken
  <2> QED
    BY <2>1, <1>3, VoucherFacts DEF TokenOf, GetIbcToken, TraceWhenReceiving, NoTrace
<1>4. CASE i.msg = "recv" /\ Returns(i.denom, i.channel)
  <2>1. VoucherOf(i) = Tail(i.denom) /\ Tail(i.denom) # <<>>
    BY VoucherFacts, <1>4 DEF IsToken
  <2>2. CASE Hops(Tail(i.denom)) = 0
    <3>1. Len(Tail(i.denom)) = 1 /\ Tail(i.denom) \in Seq(STRING)
      <4>1. Tail(i.denom) \in Seq(STRING) /\ Len(Tail(i.denom)) \in Nat
        <5>1. VoucherOf(i) \in Seq(STRING)
          BY VoucherFacts DEF IsToken
        <5>2. Tail(i.denom) \in Seq(STRING)
          BY <5>1, <2>1
        <5> QED
          BY <5>2, LenProperties
      <4>2. Len(Tail(i.denom)) - 1 = 0
        BY <2>2 DEF Hops
      <4> QED
        BY <4>1, <4>2
    <3>2. Tail(i.denom) = <<Last(i.denom)>>
      <4>1. Last(Tail(i.denom)) = Tail(i.denom)[1]
        BY <3>1 DEF Last
      <4>2. Tail(i.denom) = <<Tail(i.denom)[1]>>
        BY <3>1, SingleElement
      <4> QED
        BY <4>1, <4>2, <2>1, VoucherFacts
    <3> QED
      BY <1>4, <2>1, <2>2, <3>2 DEF TokenOf, GetIbcToken, TraceWhenReceiving, NoTrace
  <2>3. CASE Hops(Tail(i.denom)) # 0
    BY <1>4, <2>1, <2>3 DEF TokenOf, GetIbcToken, TraceWhenReceiving, NoTrace
  <2> QED
    BY <2>2, <2>3
<1> QED
  BY <1>2, <1>3, <1>4

-----------------------------------------------------------------------------
(* Entries of the pool.                                                    *)

LEMMA ImageCount ==
    ASSUME NEW S, NEW T, NEW f \in [S -> T], IsFiniteSet(S),
           \A x \in S, y \in S : f[x] = f[y] => x = y,
           \A y \in T : \E x \in S : f[x] = y
    PROVE  IsFiniteSet(T) /\ Cardinality(S) = Cardinality(T)
<1>1. f \in Surjection(S, T)
  BY DEF Surjection
<1>2. f \in Injection(S, T)
  BY DEF Injection, IsInjective
<1> QED
  BY <1>1, <1>2, FS_Surjection

Entries(accounts, way) == {<<a[1], a[2], way>> : a \in accounts}

LEMMA EntriesFinite ==
    ASSUME NEW accounts, IsFiniteSet(accounts), NEW way
    PROVE  IsFiniteSet(Entries(accounts, way))
<1> DEFINE f == [a \in accounts |-> <<a[1], a[2], way>>]
<1>1. f \in Surjection(accounts, Entries(accounts, way))
  BY DEF Surjection, Entries
<1> QED
  BY <1>1, FS_Surjection

\* Entries of one owner are as many as their tokens and ways.
LEMMA EntriesCount ==
    ASSUME NEW E, IsFiniteSet(E), NEW owner,
           \A e \in E : e = <<owner, e[2], e[3]>>
    PROVE  Cardinality({<<e[2], e[3]>> : e \in E}) = Cardinality(E)
<1> DEFINE T == {<<e[2], e[3]>> : e \in E}
           f == [e \in E |-> <<e[2], e[3]>>]
<1>1. f \in [E -> T]
  OBVIOUS
<1>2. ASSUME NEW x \in E, NEW y \in E, f[x] = f[y]
      PROVE  x = y
  <2>1. <<x[2], x[3]>> = <<y[2], y[3]>>
    BY <1>2
  <2>2. x[2] = y[2] /\ x[3] = y[3]
    BY <2>1
  <2> QED
    BY <2>2
<1>3. ASSUME NEW y \in T
      PROVE  \E x \in E : f[x] = y
  OBVIOUS
<1> QED
  BY <1>1, <1>2, <1>3, ImageCount

\* The kind of a transfer says where the pool is in it.
LEMMA TransferKinds ==
    ASSUME NEW i, i.shielded \in BOOLEAN
    PROVE  \/ /\ TransferToTxKind(i) = "ShieldedTransfer" /\ i.shielded
              /\ \A a \in i.sources \cup i.targets : a[1] = "masp"
           \/ /\ TransferToTxKind(i) = "UnshieldingTransfer"
              /\ \A a \in i.sources : a[1] = "masp"
              /\ \A a \in i.targets : a[1] # "masp"
           \/ /\ TransferToTxKind(i) = "ShieldingTransfer"
              /\ \A a \in i.sources : a[1] # "masp"
              /\ \A a \in i.targets : a[1] = "masp"
           \/ /\ TransferToTxKind(i) = "TransparentTransfer"
              /\ \A a \in i.sources \cup i.targets : a[1] # "masp"
           \/ TransferToTxKind(i) = "MixedTransfer"
<1>1. /\ Owners(i.sources) \subseteq {"masp"} <=> \A a \in i.sources : a[1] = "masp"
      /\ Owners(i.targets) \subseteq {"masp"} <=> \A a \in i.targets : a[1] = "masp"
      /\ "masp" \in Owners(i.sources) <=> \E a \in i.sources : a[1] = "masp"
      /\ "masp" \in Owners(i.targets) <=> \E a \in i.targets : a[1] = "masp"
  BY DEF Owners
<1> QED
  BY <1>1 DEF TransferToTxKind

LEMMA IbcKinds ==
    ASSUME NEW i, IsPacket(i), i.shielded \in BOOLEAN
    PROVE  /\ i.msg = "recv" /\ i.shielded => TransferToIbcTxKind(i) = "IbcShieldingTransfer"
           /\ i.msg = "recv" /\ ~i.shielded =>
                  TransferToIbcTxKind(i) = "IbcRecvTransparentTransfer"
           /\ i.msg = "transfer" /\ i.shielded =>
                  TransferToIbcTxKind(i) = "IbcUnshieldingTransfer"
           /\ i.msg = "transfer" /\ ~i.shielded =>
                  TransferToIbcTxKind(i) = "IbcSendTransparentTransfer"
           /\ i.msg \notin {"recv", "transfer"} => TransferToIbcTxKind(i) = "IbcMsg"
  BY DEF TransferToIbcTxKind

\* The kind of a transaction of known code.
LEMMA KindIs ==
    ASSUME NEW i, IsInner(i)
    PROVE  /\ ~i.known => KindOf(i) = "Unknown"
           /\ i.known /\ i.code = "tx_transfer" => KindOf(i) = TransferToTxKind(i)
           /\ i.known /\ i.code = "tx_ibc" => KindOf(i) = TransferToIbcTxKind(i)
           /\ i.known /\ i.code \notin {"tx_transfer", "tx_ibc"} =>
                  KindOf(i) = i.code /\ i.code \in Codes \ {"tx_transfer", "tx_ibc"}
  BY DEF KindOf, IsInner

OfPool(accounts) == {a \in accounts : a[1] = "masp"}
WayMoves(E) == {<<e[2], e[3]>> : e \in E}

LEMMA EntriesFacts ==
    /\ \A way : Entries({}, way) = {}
    /\ \A accounts, way :
           /\ WayMoves(Entries(accounts, way)) = {<<a[2], way>> : a \in accounts}
           /\ {e \in Entries(accounts, way) : e[1] = "masp"} = Entries(OfPool(accounts), way)
    /\ \A A, B : WayMoves(A \cup B) = WayMoves(A) \cup WayMoves(B)
<1>1. \A way : Entries({}, way) = {}
  BY DEF Entries
<1>2. ASSUME NEW accounts, NEW way
      PROVE  WayMoves(Entries(accounts, way)) = {<<a[2], way>> : a \in accounts}
  <2>1. \A e \in Entries(accounts, way) : \E a \in accounts : e[2] = a[2] /\ e[3] = way
    BY DEF Entries
  <2>2. \A a \in accounts : \E e \in Entries(accounts, way) : e[2] = a[2] /\ e[3] = way
    <3> TAKE a \in accounts
    <3>1. <<a[1], a[2], way>> \in Entries(accounts, way)
      BY DEF Entries
    <3> QED
      BY <3>1
  <2>3. \A m : m \in WayMoves(Entries(accounts, way)) <=> \E a \in accounts : m = <<a[2], way>>
    BY <2>1, <2>2 DEF WayMoves
  <2> QED
    BY <2>3
<1>3. ASSUME NEW accounts, NEW way
      PROVE  {e \in Entries(accounts, way) : e[1] = "masp"} = Entries(OfPool(accounts), way)
  <2>1. \A e : e \in Entries(accounts, way) <=> \E a \in accounts : e = <<a[1], a[2], way>>
    BY DEF Entries
  <2>2. \A e : e \in Entries(OfPool(accounts), way) <=>
                   \E a \in accounts : a[1] = "masp" /\ e = <<a[1], a[2], way>>
    BY DEF Entries, OfPool
  <2>3. \A e : e \in {f \in Entries(accounts, way) : f[1] = "masp"} <=>
                   e \in Entries(OfPool(accounts), way)
    BY <2>1, <2>2
  <2> QED
    BY <2>3
<1>4. \A A, B : WayMoves(A \cup B) = WayMoves(A) \cup WayMoves(B)
  BY DEF WayMoves
<1> QED
  BY <1>1, <1>2, <1>3, <1>4

\* A transfer's entries are those of its accounts in the pool.
LEMMA TransferEntries ==
    ASSUME NEW i, IsTransfer(i), i.shielded \in BOOLEAN,
           NEW s, s.kind = TransferToTxKind(i), s.data = i
    PROVE  PoolEntries(s) = Entries(OfPool(i.targets), "in") \cup Entries(OfPool(i.sources), "out")
<1>0. Entries({}, "in") = {} /\ Entries({}, "out") = {}
  BY EntriesFacts
<1>k. /\ s.kind = "ShieldedTransfer" =>
             i.shielded /\ \A a \in i.sources \cup i.targets : a[1] = "masp"
      /\ s.kind = "UnshieldingTransfer" => /\ \A a \in i.sources : a[1] = "masp"
                                          /\ \A a \in i.targets : a[1] # "masp"
      /\ s.kind = "ShieldingTransfer" => /\ \A a \in i.sources : a[1] # "masp"
                                        /\ \A a \in i.targets : a[1] = "masp"
      /\ s.kind = "TransparentTransfer" => \A a \in i.sources \cup i.targets : a[1] # "masp"
      /\ s.kind \in {"ShieldedTransfer", "UnshieldingTransfer", "ShieldingTransfer",
                     "TransparentTransfer", "MixedTransfer"}
  <2>1. s.kind = TransferToTxKind(i)
    OBVIOUS
  <2> QED
    BY <2>1, TransferKinds
<1>1. CASE s.kind = "ShieldedTransfer"
  <2>1. i.sources = {} /\ i.targets = {}
    BY <1>1, <1>k DEF IsTransfer
  <2>2. OfPool(i.sources) = {} /\ OfPool(i.targets) = {}
    BY <2>1 DEF OfPool
  <2>3. PoolEntries(s) = {}
    BY <1>1 DEF PoolEntries, PoolTransfers
  <2> QED
    BY <1>0, <2>2, <2>3
<1>2. CASE s.kind = "UnshieldingTransfer"
  <2>1. OfPool(i.targets) = {} /\ OfPool(i.sources) = i.sources
    BY <1>2, <1>k DEF OfPool
  <2>2. PoolEntries(s) = Entries(i.sources, "out")
    BY <1>2 DEF PoolEntries, PoolTransfers, Entries
  <2> QED
    BY <1>0, <2>1, <2>2
<1>3. CASE s.kind = "ShieldingTransfer"
  <2>1. OfPool(i.targets) = i.targets /\ OfPool(i.sources) = {}
    BY <1>3, <1>k DEF OfPool
  <2>2. PoolEntries(s) = Entries(i.targets, "in")
    BY <1>3 DEF PoolEntries, PoolTransfers, Entries
  <2> QED
    BY <1>0, <2>1, <2>2
<1>4. CASE s.kind = "TransparentTransfer"
  <2>1. OfPool(i.targets) = {} /\ OfPool(i.sources) = {}
    BY <1>4, <1>k DEF OfPool
  <2>2. PoolEntries(s) = {}
    BY <1>4 DEF PoolEntries, PoolTransfers
  <2> QED
    BY <1>0, <2>1, <2>2
<1>5. CASE s.kind = "MixedTransfer"
  <2>1. PoolEntries(s) = {e \in Entries(i.targets, "in") \cup Entries(i.sources, "out") :
                             e[1] = "masp"}
    BY <1>5 DEF PoolEntries, PoolTransfers, Entries
  <2>2. PoolEntries(s) = {e \in Entries(i.targets, "in") : e[1] = "masp"}
                             \cup {e \in Entries(i.sources, "out") : e[1] = "masp"}
    BY <2>1
  <2> QED
    BY <2>2, EntriesFacts, Zenon
<1> QED
  BY <1>1, <1>2, <1>3, <1>4, <1>5, <1>k

\* The entries of the pool are what the transaction moved into it and out of it.
LEMMA PoolIs ==
    ASSUME NEW i, IsInner(i), i.known, NEW s, s.kind = KindOf(i), s.data = i,
           ~ (i.code = "tx_ibc" /\ Last(i.denom) = Last(Native))
    PROVE  /\ {<<e[2], e[3]>> : e \in PoolEntries(s)} = PoolMoves(i)
           /\ \/ Cardinality(PoolEntries(s)) = Cardinality(PoolMoves(i))
              \/ s.kind = "IbcUnshieldingTransfer" /\ i.party # "masp"
<1> SUFFICES /\ WayMoves(PoolEntries(s)) = PoolMoves(i)
             /\ \/ Cardinality(PoolEntries(s)) = Cardinality(PoolMoves(i))
                \/ s.kind = "IbcUnshieldingTransfer" /\ i.party # "masp"
  BY DEF WayMoves
<1>1. CASE i.code = "tx_transfer"
  <2> DEFINE filled == Entries(OfPool(i.targets), "in")
             pool == Entries(OfPool(i.sources), "out")
  <2>1. IsTransfer(i) /\ s.kind = TransferToTxKind(i) /\ i.shielded \in BOOLEAN
    BY <1>1, KindIs DEF IsInner
  <2>2. PoolEntries(s) = filled \cup pool
    BY <2>1, TransferEntries
  <2>3. IsFiniteSet(filled \cup pool)
    <3>1. IsFiniteSet(i.sources) /\ IsFiniteSet(i.targets)
      BY <2>1 DEF IsTransfer, IsAccounts
    <3>2. OfPool(i.targets) \subseteq i.targets /\ OfPool(i.sources) \subseteq i.sources
      BY DEF OfPool
    <3>3. IsFiniteSet(OfPool(i.targets)) /\ IsFiniteSet(OfPool(i.sources))
      BY <3>1, <3>2, FS_Subset
    <3>4. IsFiniteSet(filled) /\ IsFiniteSet(pool)
      BY <3>3, EntriesFinite
    <3> QED
      BY <3>4, FS_Union
  <2>4. \A e \in filled \cup pool : e = <<"masp", e[2], e[3]>>
    BY DEF Entries, OfPool
  <2>5. WayMoves(filled \cup pool) = PoolMoves(i)
    <3>1. PoolMoves(i) = {<<a[2], "out">> : a \in OfPool(i.sources)}
                             \cup {<<a[2], "in">> : a \in OfPool(i.targets)}
      BY <1>1 DEF PoolMoves, OfPool
    <3>2. WayMoves(filled \cup pool) = WayMoves(filled) \cup WayMoves(pool)
      BY EntriesFacts
    <3>3. /\ WayMoves(filled) = {<<a[2], "in">> : a \in OfPool(i.targets)}
          /\ WayMoves(pool) = {<<a[2], "out">> : a \in OfPool(i.sources)}
      BY EntriesFacts
    <3> QED
      BY <3>1, <3>2, <3>3
  <2>6. Cardinality(WayMoves(filled \cup pool)) = Cardinality(filled \cup pool)
    <3> HIDE DEF filled, pool
    <3> QED
      BY <2>3, <2>4, EntriesCount DEF WayMoves
  <2> QED
    BY <2>2, <2>5, <2>6
<1>2. CASE i.code = "tx_ibc"
  <2>1. IsPacket(i) /\ s.kind = TransferToIbcTxKind(i) /\ i.shielded \in BOOLEAN
    BY <1>2, KindIs DEF IsInner
  <2>2. TokenOf(i) = IF i.msg = "recv" THEN VoucherOf(i) ELSE i.denom
    BY <1>2, <2>1, TokenRead
  <2>3. CASE i.msg = "recv" /\ i.shielded
    <3>1. s.kind = "IbcShieldingTransfer"
      BY <2>1, <2>3, IbcKinds
    <3>2. IbcAccounts(i) = {<<i.party, VoucherOf(i)>>}
      BY <2>2, <2>3 DEF IbcAccounts
    <3>3. PoolEntries(s) = Entries({<<i.party, VoucherOf(i)>>}, "in")
      BY <3>1, <3>2 DEF PoolEntries, PoolTransfers, Entries
    <3>4. PoolEntries(s) = {<<i.party, VoucherOf(i), "in">>}
      BY <3>3 DEF Entries
    <3>5. PoolMoves(i) = {<<VoucherOf(i), "in">>}
      BY <1>2, <2>3 DEF PoolMoves, VoucherOf
    <3>6. WayMoves({<<i.party, VoucherOf(i), "in">>}) = {<<VoucherOf(i), "in">>}
      BY DEF WayMoves
    <3>7. Cardinality({<<i.party, VoucherOf(i), "in">>}) = Cardinality({<<VoucherOf(i), "in">>})
      BY FS_Singleton
    <3> QED
      BY <3>4, <3>5, <3>6, <3>7
  <2>4. CASE i.msg = "transfer" /\ i.shielded
    <3>1. s.kind = "IbcUnshieldingTransfer"
      BY <2>1, <2>4, IbcKinds
    <3>2. IbcAccounts(i) = {<<i.party, i.denom>>, <<"masp", i.denom>>}
      BY <2>2, <2>4 DEF IbcAccounts
    <3>3. PoolEntries(s) = Entries({<<i.party, i.denom>>, <<"masp", i.denom>>}, "out")
      BY <3>1, <3>2 DEF PoolEntries, PoolTransfers, Entries
    <3>4. PoolEntries(s) = {<<i.party, i.denom, "out">>, <<"masp", i.denom, "out">>}
      BY <3>3 DEF Entries
    <3>5. PoolMoves(i) = {<<i.denom, "out">>}
      BY <1>2, <2>4 DEF PoolMoves
    <3>6. i.party = "masp" => PoolEntries(s) = {<<"masp", i.denom, "out">>}
      BY <3>4
    <3>7. WayMoves({<<i.party, i.denom, "out">>, <<"masp", i.denom, "out">>}) = {<<i.denom, "out">>}
      BY DEF WayMoves
    <3>8. Cardinality({<<"masp", i.denom, "out">>}) = Cardinality({<<i.denom, "out">>})
      BY FS_Singleton
    <3> QED
      BY <3>1, <3>4, <3>5, <3>6, <3>7, <3>8
  <2>5. CASE ~i.shielded \/ i.msg \notin {"recv", "transfer"}
    <3>1. s.kind \in {"IbcMsg", "IbcSendTransparentTransfer", "IbcRecvTransparentTransfer"}
      BY <2>1, <2>5, IbcKinds DEF IsPacket
    <3>2. PoolEntries(s) = {}
      BY <3>1 DEF PoolEntries, PoolTransfers
    <3>3. PoolMoves(i) = {}
      BY <1>2, <2>5 DEF PoolMoves
    <3>4. WayMoves({}) = {}
      BY DEF WayMoves
    <3> QED
      BY <3>2, <3>3, <3>4
  <2> QED
    BY <2>1, <2>3, <2>4, <2>5
<1>3. CASE i.code \notin {"tx_transfer", "tx_ibc"}
  <2>1. s.kind \in Codes \ {"tx_transfer", "tx_ibc"}
    BY <1>3, KindIs
  <2>2. PoolEntries(s) = {}
    BY <2>1 DEF PoolEntries, PoolTransfers, Codes
  <2>3. PoolMoves(i) = {}
    BY <1>3 DEF PoolMoves
  <2>4. WayMoves({}) = {}
    BY DEF WayMoves
  <2> QED
    BY <2>2, <2>3, <2>4
<1> QED
  BY <1>1, <1>2, <1>3

\* A row of what counts: an inner transaction of the block.
LEMMA SuccessfulRow ==
    ASSUME NEW b \in Seq(Raws), NEW d, Decodes(d, b, Len(b)), NEW s \in Successful(d)
    PROVE  /\ s.at \in Counted(b) /\ s.at \in Inners(b)
           /\ s.data = InnerAt(b, s.at) /\ s.kind = KindOf(s.data)
           /\ IsInner(s.data)
<1>1. PICK p \in Counted(b) :
          s = [kind |-> KindOf(InnerAt(b, p)), data |-> InnerAt(b, p), at |-> p]
  BY SuccessfulIs
<1>2. p \in Inners(b)
  BY DEF Counted
<1>3. IsInner(InnerAt(b, p))
  BY <1>2, CountedPlaces, WrapperFacts DEF IsExecutedWrapper, InnerAt
<1> QED
  BY <1>1, <1>2, <1>3

\* The entries of the pool that transactions get (masp_entries) are the moves into
\* the pool and out of it.
THEOREM PoolCorrect == Spec => []PoolListed
<1>1. PlaceInv => PoolListed
  <2> SUFFICES ASSUME PlaceInv, Complete, NEW s \in Successful(decoded),
                      s.data.known, ~ (s.data.code = "tx_ibc" /\ Last(s.data.denom) = Last(Native))
               PROVE  /\ {<<e[2], e[3]>> : e \in PoolEntries(s)} = PoolMoves(s.data)
                      /\ \/ Cardinality(PoolEntries(s)) = Cardinality(PoolMoves(s.data))
                         \/ s.kind = "IbcUnshieldingTransfer" /\ s.data.party # "masp"
    BY DEF PoolListed
  <2>1. Block \in Seq(Raws) /\ Decodes(decoded, Block, Len(Block))
    BY PlaceFacts DEF Complete
  <2>2. s.kind = KindOf(s.data) /\ IsInner(s.data)
    BY <2>1, SuccessfulRow
  <2> QED
    BY <2>2, PoolIs
<1> QED
  BY <1>1, DecodingCorrect, PTL

-----------------------------------------------------------------------------
(* Changes.                                                                *)

\* The places that the indexer sees.
LEMMA SeenFacts ==
    ASSUME NEW b \in Seq(Raws), NEW at \in Seen(b)
    PROVE  /\ at \in Counted(b) /\ at \in Inners(b)
           /\ InnerAt(b, at).known /\ IsInner(InnerAt(b, at))
<1>1. at \in Inners(b) /\ at \in Counted(b) /\ InnerAt(b, at).known
  BY DEF Seen, Counted
<1>2. IsInner(InnerAt(b, at))
  BY <1>1, CountedPlaces, WrapperFacts DEF IsExecutedWrapper, InnerAt
<1> QED
  BY <1>1, <1>2

\* An account of NAM's vouchers, or of an escrowed token, is not asked for.
LEMMA PacketBalances ==
    ASSUME NEW i, IsPacket(i), i.shielded \in BOOLEAN, NEW a \in PacketAccounts(i), ~NotAsked(a),
           NEW s, s.kind = TransferToIbcTxKind(i), s.data = i, NEW T
    PROVE  a \in BalancesOf(s, T) \cup NativeAddresses
<1> DEFINE held == IF i.msg = "recv" THEN VoucherOf(i) ELSE i.denom
           owner == IF i.shielded /\ i.msg \in {"recv", "transfer"} THEN "masp" ELSE i.party
<1>1. Last(held) = Last(i.denom)
  BY VoucherFacts
<1>2. i.msg \in {"recv", "transfer", "ackError", "timeout"} /\ a \in {<<owner, held>>, <<"ibc", held>>}
  BY DEF PacketAccounts, VoucherOf, IsPacket
<1>3. TokenOf(i) = IF Last(held) = Last(Native) THEN Native ELSE held
  BY <1>1, TokenRead
<1>4. IbcAccounts(i) \subseteq BalancesOf(s, T) \/ i.msg \notin {"recv", "transfer"}
  <2>1. i.msg \in {"recv", "transfer"} =>
            s.kind \in {"IbcShieldingTransfer", "IbcUnshieldingTransfer",
                        "IbcSendTransparentTransfer", "IbcRecvTransparentTransfer"}
    BY IbcKinds
  <2> QED
    BY <2>1 DEF BalancesOf, WithPool, PoolTransfers
<1>5. i.msg \in {"ackError", "timeout"} => BalancesOf(s, T) = {<<i.party, TokenOf(i)>>}
  <2>1. i.msg \in {"ackError", "timeout"} => s.kind = "IbcMsg"
    BY IbcKinds
  <2>2. s.kind = "IbcMsg" => BalancesOf(s, T) = RefundOf(i)
    BY DEF BalancesOf, PoolTransfers
  <2>3. i.msg \in {"ackError", "timeout"} => RefundOf(i) = {<<i.party, TokenOf(i)>>}
    BY DEF RefundOf
  <2> QED
    BY <2>1, <2>2, <2>3
<1> HIDE DEF held
<1>6. CASE a = <<"ibc", held>>
  <2>1. held = Native
    BY <1>6 DEF NotAsked
  <2> QED
    BY <1>6, <2>1 DEF NativeAddresses
<1>7. CASE a = <<owner, held>>
  <2>1. TokenOf(i) = held
    BY <1>3, <1>7 DEF NotAsked
  <2>2. i.msg = "recv" => owner = i.party
    BY DEF IsPacket
  <2>3. i.msg = "transfer" /\ i.shielded => <<"masp", i.denom>> \in IbcAccounts(i)
    BY DEF IbcAccounts
  <2>4. <<i.party, held>> \in IbcAccounts(i)
    BY <2>1 DEF IbcAccounts
  <2>5. i.msg \in {"recv", "transfer"} => a \in IbcAccounts(i)
    BY <1>7, <2>2, <2>3, <2>4 DEF held
  <2>6. i.msg \in {"ackError", "timeout"} => a = <<i.party, TokenOf(i)>>
    BY <1>7, <2>1
  <2> QED
    BY <1>2, <1>4, <1>5, <2>5, <2>6
<1> QED
  BY <1>2, <1>6, <1>7

\* Every balance that a transaction of known code touches is asked for, or is not
\* among those asked for.
LEMMA BalancesAsked ==
    ASSUME NEW i, IsInner(i), i.known, NEW a \in Touched(i), ~NotAsked(a),
           NEW s, s.kind = KindOf(i), s.data = i, NEW T
    PROVE  a \in BalancesOf(s, T) \cup NativeAddresses
<1>1. CASE i.code = "tx_transfer"
  <2>1. IsTransfer(i) /\ s.kind = TransferToTxKind(i) /\ i.shielded \in BOOLEAN
    BY <1>1, KindIs DEF IsInner
  <2>2. a \in i.sources \cup i.targets
    BY <1>1 DEF Touched
  <2>3. s.kind \in {"UnshieldingTransfer", "ShieldingTransfer", "TransparentTransfer",
                    "MixedTransfer"}
    BY <2>1, <2>2, TransferKinds DEF IsTransfer
  <2> QED
    BY <2>2, <2>3 DEF BalancesOf, WithPool, PoolTransfers
<1>2. CASE i.code = "tx_ibc"
  <2>1. IsPacket(i) /\ s.kind = TransferToIbcTxKind(i) /\ i.shielded \in BOOLEAN
    BY <1>2, KindIs DEF IsInner
  <2>2. a \in PacketAccounts(i)
    BY <1>2 DEF Touched
  <2> QED
    BY <2>1, <2>2, PacketBalances
<1>3. CASE i.code \notin {"tx_transfer", "tx_ibc"}
  <2>1. s.kind = i.code /\ i.code \in Codes \ {"tx_transfer", "tx_ibc"}
    BY <1>3, KindIs
  <2>2. BalancesOf(s, T) = StakeBalances(s)
    BY <2>1 DEF BalancesOf, PoolTransfers, Codes
  <2>3. a \in StakeBalances(s) \cup {<<"pos", Native>>, <<"gov", Native>>}
    BY <1>3, <2>1 DEF Touched, StakeBalances
  <2> QED
    BY <2>2, <2>3 DEF NativeAddresses
<1> QED
  BY <1>1, <1>2, <1>3

LEMMA MovedAsked ==
    ASSUME NEW b \in Seq(Raws), NEW d, Decodes(d, b, Len(b)), NEW a \in Moved(b), ~NotAsked(a)
    PROVE  a \in AddressesWithBalanceChange(d) \cup NativeAddresses
<1>1. CASE \E at \in Seen(b) : a \in Touched(InnerAt(b, at))
  <2>1. PICK at \in Seen(b) : a \in Touched(InnerAt(b, at))
    BY <1>1
  <2> DEFINE i == InnerAt(b, at)
             s == [kind |-> KindOf(i), data |-> i, at |-> at]
  <2>2. s \in Successful(d)
    BY SeenFacts, SuccessfulIs
  <2>3. s.kind = KindOf(i) /\ s.data = i /\ IsInner(i) /\ i.known
    BY SeenFacts
  <2>4. BalancesOf(s, IbcTokens(d)) \subseteq AddressesWithBalanceChange(d)
    BY <2>2 DEF AddressesWithBalanceChange
  <2> HIDE DEF i, s
  <2>5. a \in BalancesOf(s, IbcTokens(d)) \cup NativeAddresses
    BY <2>1, <2>3, BalancesAsked DEF i
  <2> QED
    BY <2>4, <2>5
<1>2. CASE \E w \in {r \in ToSet(b) : IsWrapper(r)} : a \in {<<w.payer, w.token>>, <<Proposer, w.token>>}
  <2>1. PICK w \in ToSet(b) : IsWrapper(w) /\ a \in {<<w.payer, w.token>>, <<Proposer, w.token>>}
    BY <1>2
  <2>2. PICK t \in DOMAIN b : w = b[t]
    BY DEF ToSet
  <2>3. t \in WrappersTo(b, Len(b))
    BY <2>1, <2>2 DEF WrappersTo
  <2>4. PICK k \in DOMAIN d : d[k].tx = t
    BY <2>3 DEF Decodes
  <2>5. d[k].payer = w.payer /\ d[k].token = w.token
    BY <2>2, <2>4, DecodedOfBlock
  <2>6. FeesOf(d[k]) \subseteq AddressesWithBalanceChange(d)
    BY DEF AddressesWithBalanceChange, ToSet
  <2>7. a \in FeesOf(d[k]) \cup {<<Proposer, Native>>}
    BY <2>1, <2>5 DEF FeesOf
  <2>8. <<Proposer, Native>> \in NativeAddresses
    BY DEF NativeAddresses
  <2> QED
    BY <2>6, <2>7, <2>8
<1> QED
  BY <1>1, <1>2 DEF Moved

\* The transactions of some kinds that count are those of these codes that the
\* indexer sees.
LEMMA KindsSeen ==
    ASSUME NEW b \in Seq(Raws), NEW d, Decodes(d, b, Len(b)),
           NEW kinds, kinds \subseteq Codes \ {"tx_transfer", "tx_ibc"}
    PROVE  OfKind(d, kinds) = {i \in {InnerAt(b, at) : at \in Seen(b)} : i.code \in kinds}
<1> DEFINE Q == {InnerAt(b, at) : at \in Seen(b)}
<1>1. ASSUME NEW s \in Successful(d), s.kind \in kinds
      PROVE  s.data \in Q /\ s.data.code \in kinds
  <2> DEFINE i == s.data
  <2>1. s.at \in Counted(b) /\ i = InnerAt(b, s.at) /\ s.kind = KindOf(i) /\ IsInner(i)
    BY SuccessfulRow
  <2> HIDE DEF i
  <2>2. i.known
    BY <1>1, <2>1, KindIs DEF Codes
  <2>3. i.code \notin {"tx_transfer", "tx_ibc"}
    <3>1. i.code = "tx_transfer" => i.shielded \in BOOLEAN /\ s.kind = TransferToTxKind(i)
      BY <2>1, <2>2, KindIs DEF IsInner
    <3>2. i.code = "tx_ibc" =>
              IsPacket(i) /\ i.shielded \in BOOLEAN /\ s.kind = TransferToIbcTxKind(i)
      BY <2>1, <2>2, KindIs DEF IsInner
    <3>3. s.kind \in Codes
      BY <1>1
    <3>4. i.code # "tx_transfer"
      BY <3>1, <3>3, TransferKinds DEF Codes
    <3>5. i.code # "tx_ibc"
      BY <3>2, <3>3, IbcKinds DEF Codes, IsPacket
    <3> QED
      BY <3>4, <3>5
  <2>4. s.kind = i.code
    BY <2>1, <2>2, <2>3, KindIs
  <2>5. s.at \in Seen(b)
    BY <2>1, <2>2 DEF Seen, Counted
  <2> QED
    BY <1>1, <2>1, <2>4, <2>5 DEF i
<1>2. ASSUME NEW at \in Seen(b), InnerAt(b, at).code \in kinds
      PROVE  InnerAt(b, at) \in OfKind(d, kinds)
  <2> DEFINE i == InnerAt(b, at)
             s == [kind |-> KindOf(i), data |-> i, at |-> at]
  <2>1. s \in Successful(d)
    BY SeenFacts, SuccessfulIs
  <2>2. KindOf(i) = i.code
    BY <1>2, SeenFacts, KindIs
  <2>3. s.kind = i.code /\ s.data = i
    BY <2>2
  <2> HIDE DEF s
  <2> QED
    BY <1>2, <2>1, <2>3 DEF OfKind
<1>3. \A x : x \in OfKind(d, kinds) <=> x \in Q /\ x.code \in kinds
  BY <1>1, <1>2 DEF OfKind
<1> QED
  BY <1>3

\* What is asked for besides balances is what the chain changed.
LEMMA ChangesAsked ==
    ASSUME NEW b \in Seq(Raws), NEW d, Decodes(d, b, Len(b))
    PROVE  ListedChanges(d) = UNION {Changed(InnerAt(b, at)) : at \in Seen(b)}
<1> DEFINE Q == {InnerAt(b, at) : at \in Seen(b)}
           Coded(kinds) == {i \in Q : i.code \in kinds}
<1>1. /\ OfKind(d, {"tx_bond", "tx_unbond"}) = Coded({"tx_bond", "tx_unbond"})
      /\ OfKind(d, {"tx_redelegate"}) = Coded({"tx_redelegate"})
      /\ OfKind(d, {"tx_unbond"}) = Coded({"tx_unbond"})
      /\ OfKind(d, {"tx_withdraw"}) = Coded({"tx_withdraw"})
      /\ OfKind(d, {"tx_claim_rewards"}) = Coded({"tx_claim_rewards"})
      /\ OfKind(d, {"tx_vote_proposal"}) = Coded({"tx_vote_proposal"})
      /\ OfKind(d, {"tx_become_validator"}) = Coded({"tx_become_validator"})
      /\ OfKind(d, {"tx_deactivate_validator"}) = Coded({"tx_deactivate_validator"})
      /\ OfKind(d, {"tx_reactivate_validator"}) = Coded({"tx_reactivate_validator"})
      /\ OfKind(d, {"tx_change_validator_metadata", "tx_change_validator_commission"})
             = Coded({"tx_change_validator_metadata", "tx_change_validator_commission"})
      /\ OfKind(d, {"tx_reveal_pk"}) = Coded({"tx_reveal_pk"})
  <2> HIDE DEF Coded
  <2>1. \A kinds \in SUBSET (Codes \ {"tx_transfer", "tx_ibc"}) : OfKind(d, kinds) = Coded(kinds)
    BY KindsSeen DEF Coded
  <2> QED
    BY <2>1 DEF Codes
<1>2. \A i \in Q : i.code \in Codes
  BY SeenFacts DEF IsInner
<1> HIDE DEF Q
<1>3. ASSUME NEW c \in ListedChanges(d)
      PROVE  \E i \in Q : c \in Changed(i)
  <2>1. \/ c \in BondAddresses(d) \/ c \in UnbondAddresses(d) \/ c \in WithdrawAddresses(d)
        \/ c \in PosRewards(d) \/ c \in GovernanceVotes(d) \/ c \in NewValidators(d)
        \/ c \in UpdateValidatorsState(d) \/ c \in ValidatorMetadata(d) \/ c \in RevealedPks(d)
    BY DEF ListedChanges
  <2>2. CASE c \in BondAddresses(d)
    BY <1>1, <2>2 DEF BondAddresses, Changed
  <2>3. CASE c \in UnbondAddresses(d)
    BY <1>1, <2>3 DEF UnbondAddresses, Changed
  <2>4. CASE c \in WithdrawAddresses(d)
    BY <1>1, <2>4 DEF WithdrawAddresses, Changed
  <2>5. CASE c \in PosRewards(d)
    BY <1>1, <2>5 DEF PosRewards, Changed
  <2>6. CASE c \in GovernanceVotes(d)
    BY <1>1, <2>6 DEF GovernanceVotes, Changed
  <2>7. CASE c \in NewValidators(d)
    BY <1>1, <2>7 DEF NewValidators, Changed
  <2>8. CASE c \in UpdateValidatorsState(d)
    BY <1>1, <2>8 DEF UpdateValidatorsState, Changed
  <2>9. CASE c \in ValidatorMetadata(d)
    BY <1>1, <2>9 DEF ValidatorMetadata, Changed
  <2>10. CASE c \in RevealedPks(d)
    BY <1>1, <2>10 DEF RevealedPks, Changed
  <2> QED
    BY <2>1, <2>2, <2>3, <2>4, <2>5, <2>6, <2>7, <2>8, <2>9, <2>10
<1>4. ASSUME NEW i \in Q, NEW c \in Changed(i)
      PROVE  c \in ListedChanges(d)
  <2>1. CASE i.code = "tx_bond"
    BY <1>1, <1>4, <2>1 DEF Changed, ListedChanges, BondAddresses
  <2>2. CASE i.code = "tx_unbond"
    BY <1>1, <1>4, <2>2 DEF Changed, ListedChanges, BondAddresses, UnbondAddresses
  <2>3. CASE i.code = "tx_redelegate"
    BY <1>1, <1>4, <2>3 DEF Changed, ListedChanges, BondAddresses
  <2>4. CASE i.code = "tx_withdraw"
    BY <1>1, <1>4, <2>4 DEF Changed, ListedChanges, WithdrawAddresses
  <2>5. CASE i.code = "tx_claim_rewards"
    BY <1>1, <1>4, <2>5 DEF Changed, ListedChanges, PosRewards
  <2>6. CASE i.code = "tx_vote_proposal"
    BY <1>1, <1>4, <2>6 DEF Changed, ListedChanges, GovernanceVotes
  <2>7. CASE i.code = "tx_become_validator"
    BY <1>1, <1>4, <2>7 DEF Changed, ListedChanges, NewValidators
  <2>8. CASE i.code \in {"tx_deactivate_validator", "tx_reactivate_validator"}
    BY <1>1, <1>4, <2>8 DEF Changed, ListedChanges, UpdateValidatorsState
  <2>9. CASE i.code \in {"tx_change_validator_metadata", "tx_change_validator_commission"}
    BY <1>1, <1>4, <2>9 DEF Changed, ListedChanges, ValidatorMetadata
  <2>10. CASE i.code = "tx_reveal_pk"
    BY <1>1, <1>4, <2>10 DEF Changed, ListedChanges, RevealedPks
  <2>11. CASE i.code \in {"tx_transfer", "tx_ibc", "tx_init_proposal", "tx_unjail_validator",
                          "tx_init_account"}
    BY <1>4, <2>11 DEF Changed
  <2> QED
    BY <1>2, <2>1, <2>2, <2>3, <2>4, <2>5, <2>6, <2>7, <2>8, <2>9, <2>10, <2>11 DEF Codes
<1>5. \A c : c \in ListedChanges(d) <=> c \in UNION {Changed(InnerAt(b, at)) : at \in Seen(b)}
  BY <1>3, <1>4 DEF Q
<1> QED
  BY <1>5

\* The owner of a balance that a transaction touches is a party to it.
LEMMA OwnersAreParties ==
    ASSUME NEW i, IsInner(i), i.known, NEW a \in Touched(i), a[1] \notin {"ibc", "pos", "gov"},
           NEW s, s.kind = KindOf(i), s.data = i
    PROVE  a[1] \in Parties(s) \/ s.kind = "IbcMsg"
<1>1. CASE i.code = "tx_transfer"
  <2>1. s.kind = TransferToTxKind(i) /\ i.shielded \in BOOLEAN
    BY <1>1, KindIs DEF IsInner
  <2>2. a \in i.sources \cup i.targets
    BY <1>1 DEF Touched
  <2>3. s.kind \in PoolTransfers \cup {"TransparentTransfer", "ShieldedTransfer"}
    BY <2>1, TransferKinds DEF PoolTransfers
  <2>4. Parties(s) = Owners(i.sources \cup i.targets)
    BY <2>3 DEF Parties, PoolTransfers, IbcTransfers
  <2> QED
    BY <2>2, <2>4 DEF Owners
<1>2. CASE i.code = "tx_ibc"
  <2>1. IsPacket(i) /\ s.kind = TransferToIbcTxKind(i) /\ i.shielded \in BOOLEAN
    BY <1>2, KindIs DEF IsInner
  <2>2. a \in PacketAccounts(i)
    BY <1>2 DEF Touched
  <2>3. CASE i.msg \in {"recv", "transfer"}
    <3>1. s.kind \in IbcTransfers
      BY <2>1, <2>3, IbcKinds DEF IbcTransfers
    <3>2. Parties(s) = Owners(IbcAccounts(i))
      BY <3>1 DEF Parties, IbcTransfers, PoolTransfers
    <3>3. a[1] = IF i.shielded THEN "masp" ELSE i.party
      BY <1>2, <2>2, <2>3 DEF PacketAccounts
    <3>4. a[1] = i.party \/ (a[1] = "masp" /\ i.shielded /\ i.msg = "transfer")
      BY <2>1, <2>3, <3>3 DEF IsPacket
    <3>5. <<i.party, TokenOf(i)>> \in IbcAccounts(i)
      BY DEF IbcAccounts
    <3>6. i.shielded /\ i.msg = "transfer" => <<"masp", i.denom>> \in IbcAccounts(i)
      BY DEF IbcAccounts
    <3>7. i.party \in Owners(IbcAccounts(i))
      BY <3>5 DEF Owners
    <3>8. i.shielded /\ i.msg = "transfer" => "masp" \in Owners(IbcAccounts(i))
      BY <3>6 DEF Owners
    <3> QED
      BY <3>2, <3>4, <3>7, <3>8
  <2>4. CASE i.msg \notin {"recv", "transfer"}
    BY <2>1, <2>4, IbcKinds
  <2> QED
    BY <2>3, <2>4
<1>3. CASE i.code \notin {"tx_transfer", "tx_ibc"}
  <2>1. s.kind = i.code /\ i.code \in Codes \ {"tx_transfer", "tx_ibc"}
    BY <1>3, KindIs
  <2>2. Parties(s) = Author(s)
    BY <2>1 DEF Parties, PoolTransfers, IbcTransfers, Codes
  <2>3. \/ i.code \in {"tx_bond", "tx_withdraw", "tx_claim_rewards"} /\ a[1] = Delegator(i)
        \/ i.code = "tx_init_proposal" /\ a[1] = i.source
    BY <1>3 DEF Touched
  <2> QED
    BY <2>1, <2>2, <2>3 DEF Author
<1> QED
  BY <1>1, <1>2, <1>3

\* The balances, stake, votes and validators that a block changed are asked for
\* (the extractors of block.rs), in chains, blocks and batches of any size.
THEOREM ChangesCorrect == Spec => []ChangesListed
<1>1. PlaceInv => ChangesListed
  <2> SUFFICES ASSUME PlaceInv, Complete PROVE ChangesListed
    BY DEF ChangesListed
  <2>1. Block \in Seq(Raws) /\ Decodes(decoded, Block, Len(Block))
    BY PlaceFacts DEF Complete
  <2>2. {a \in Moved(Block) : ~NotAsked(a)}
            \subseteq AddressesWithBalanceChange(decoded) \cup NativeAddresses
    BY <2>1, MovedAsked
  <2>3. ListedChanges(decoded) = UNION {Changed(InnerAt(Block, at)) : at \in Seen(Block)}
    BY <2>1, ChangesAsked
  <2>4. ASSUME NEW at \in Seen(Block), NEW owner \in Owners(Touched(InnerAt(Block, at))),
               owner \notin {"ibc", "pos", "gov"}
        PROVE  <<at, owner>> \in Sources(decoded) \/ KindOf(InnerAt(Block, at)) = "IbcMsg"
    <3> DEFINE i == InnerAt(Block, at)
    <3>1. /\ at = <<at[1], at[2]>> /\ at[1] \in DOMAIN Block /\ IsWrapper(Block[at[1]])
          /\ at[2] \in DOMAIN Block[at[1]].batch
      BY <2>1, SeenFacts, CountedPlaces
    <3>2. at[1] \in WrappersTo(Block, Len(Block))
      BY <2>1, <3>1 DEF WrappersTo
    <3>3. PICK k \in DOMAIN decoded : decoded[k].tx = at[1]
      BY <2>1, <3>2 DEF Decodes
    <3> DEFINE s == decoded[k].batch[at[2]]
    <3>4. at[2] \in DOMAIN decoded[k].batch /\ s.kind = KindOf(i) /\ s.data = i
      <4>1. /\ DOMAIN decoded[k].batch = DOMAIN Block[decoded[k].tx].batch
            /\ \A j \in DOMAIN Block[decoded[k].tx].batch :
                  /\ decoded[k].batch[j].kind = KindOf(Block[decoded[k].tx].batch[j])
                  /\ decoded[k].batch[j].data = Block[decoded[k].tx].batch[j]
        BY <2>1, DecodedOfBlock
      <4> QED
        BY <3>1, <3>3, <4>1 DEF InnerAt
    <3>5. IsInner(i) /\ i.known
      BY <2>1, SeenFacts
    <3>6. PICK a \in Touched(i) : owner = a[1]
      BY DEF Owners
    <3>7. owner \in Parties(s) \/ s.kind = "IbcMsg"
      <4> HIDE DEF s, i
      <4> QED
        BY <2>4, <3>4, <3>5, <3>6, OwnersAreParties
    <3>8. owner \in Parties(s) => <<<<decoded[k].tx, at[2]>>, owner>> \in Sources(decoded)
      <4> HIDE DEF s
      <4>1. owner \in Parties(s) =>
                <<<<decoded[k].tx, at[2]>>, owner>>
                    \in {<<<<decoded[k].tx, at[2]>>, o>> : o \in Parties(s)}
        OBVIOUS
      <4> QED
        BY <3>4, <4>1 DEF Sources, s
    <3> QED
      BY <3>1, <3>3, <3>4, <3>7, <3>8
  <2> QED
    BY <2>2, <2>3, <2>4 DEF ChangesListed
<1> QED
  BY <1>1, DecodingCorrect, PTL

-----------------------------------------------------------------------------
(* Places of the chain.                                                    *)

LEMMA PlacesIs ==
    ASSUME NEW c, NEW p
    PROVE  p \in Places(c) <=> /\ p = <<p[1], p[2], p[3]>> /\ p[1] \in DOMAIN c
                               /\ <<p[2], p[3]>> \in Inners(c[p[1]])
<1>1. ASSUME p \in Places(c)
      PROVE  /\ p = <<p[1], p[2], p[3]>> /\ p[1] \in DOMAIN c
             /\ <<p[2], p[3]>> \in Inners(c[p[1]])
  <2>1. PICK h \in DOMAIN c : \E at \in Inners(c[h]) : p = <<h, at[1], at[2]>>
    BY <1>1 DEF Places
  <2>2. PICK at \in Inners(c[h]) : p = <<h, at[1], at[2]>>
    BY <2>1
  <2>3. at = <<at[1], at[2]>>
    BY DEF Inners
  <2> QED
    BY <2>2, <2>3
<1>2. ASSUME p = <<p[1], p[2], p[3]>>, p[1] \in DOMAIN c, <<p[2], p[3]>> \in Inners(c[p[1]])
      PROVE  p \in Places(c)
  <2> DEFINE at == <<p[2], p[3]>>
  <2>1. p = <<p[1], at[1], at[2]>> /\ at \in Inners(c[p[1]])
    BY <1>2
  <2> HIDE DEF at
  <2> QED
    BY <1>2, <2>1 DEF Places
<1> QED
  BY <1>1, <1>2

LEMMA PlaceType ==
    ASSUME NEW c \in Seq(Seq(Raws)), NEW p \in Places(c)
    PROVE  /\ p = <<p[1], p[2], p[3]>> /\ p[1] \in DOMAIN c
           /\ p[1] \in Nat /\ p[2] \in Nat /\ p[3] \in Nat /\ p[1] > 0 /\ p[2] > 0 /\ p[3] > 0
           /\ c[p[1]] \in Seq(Raws)
           /\ <<p[2], p[3]>> \in Inners(c[p[1]])
           /\ p[2] \in DOMAIN c[p[1]] /\ IsWrapper(c[p[1]][p[2]]) /\ p[3] \in Kept(c[p[1]][p[2]])
           /\ p[3] \in DOMAIN c[p[1]][p[2]].batch
           /\ InnerOf(c, p) = InnerAt(c[p[1]], <<p[2], p[3]>>)
           /\ IsInner(InnerOf(c, p))
<1>1. /\ p = <<p[1], p[2], p[3]>> /\ p[1] \in DOMAIN c
      /\ <<p[2], p[3]>> \in Inners(c[p[1]])
  BY PlacesIs
<1>2. c[p[1]] \in Seq(Raws) /\ p[1] \in Nat /\ p[1] > 0
  BY <1>1
<1> DEFINE b == c[p[1]]
           at == <<p[2], p[3]>>
<1>3. at[1] = p[2] /\ at[2] = p[3]
  OBVIOUS
<1>4. /\ p[2] \in DOMAIN b /\ IsWrapper(b[p[2]]) /\ p[3] \in Kept(b[p[2]])
      /\ p[3] \in DOMAIN b[p[2]].batch
      /\ p[2] \in Nat /\ p[3] \in Nat /\ p[2] > 0 /\ p[3] > 0
  <2> HIDE DEF b, at
  <2>1. b \in Seq(Raws) /\ at \in Inners(b)
    BY <1>1, <1>2 DEF b, at
  <2> QED
    BY <1>3, <2>1, CountedPlaces
<1>5. InnerOf(c, p) = InnerAt(b, at)
  BY <1>3 DEF InnerOf, InnerAt
<1>6. IsInner(b[p[2]].batch[p[3]])
  <2> HIDE DEF b
  <2>1. b \in Seq(Raws)
    BY <1>2 DEF b
  <2> QED
    BY <2>1, <1>4, WrapperFacts DEF IsExecutedWrapper
<1> QED
  BY <1>1, <1>2, <1>4, <1>5, <1>6 DEF InnerOf

\* What the chain had stays where it was.
LEMMA PlacesKept ==
    ASSUME NEW c \in Seq(Seq(Raws)), NEW block \in Seq(Raws)
    PROVE  LET grown == Append(c, block) IN
           /\ \A p : p \in Places(c) <=> p \in Places(grown) /\ p[1] <= Len(c)
           /\ \A p \in Places(c) : InnerOf(grown, p) = InnerOf(c, p)
           /\ \A p : p \in Received(c) <=> p \in Received(grown) /\ p[1] <= Len(c)
           /\ \A p : p \in Proposed(c) <=> p \in Proposed(grown) /\ p[1] <= Len(c)
<1> DEFINE grown == Append(c, block)
<1>1. /\ grown \in Seq(Seq(Raws)) /\ Len(c) \in Nat
      /\ DOMAIN grown = (DOMAIN c) \cup {Len(c) + 1} /\ DOMAIN c = 1..Len(c)
      /\ \A h \in DOMAIN c : grown[h] = c[h]
  BY GrownFacts
<1> HIDE DEF grown
<1>2. ASSUME NEW p
      PROVE  p \in Places(c) <=> p \in Places(grown) /\ p[1] <= Len(c)
  <2>1. p \in Places(c) => p \in Places(grown) /\ p[1] <= Len(c)
    <3>1. p \in Places(c) => /\ p = <<p[1], p[2], p[3]>> /\ p[1] \in DOMAIN c
                             /\ <<p[2], p[3]>> \in Inners(grown[p[1]])
      BY <1>1, PlacesIs
    <3>2. p[1] \in DOMAIN c => p[1] \in DOMAIN grown /\ p[1] <= Len(c)
      BY <1>1
    <3> QED
      BY <3>1, <3>2, PlacesIs
  <2>2. p \in Places(grown) /\ p[1] <= Len(c) => p \in Places(c)
    <3>1. p \in Places(grown) => /\ p = <<p[1], p[2], p[3]>> /\ p[1] \in DOMAIN grown
                                 /\ <<p[2], p[3]>> \in Inners(grown[p[1]])
      BY PlacesIs
    <3>2. p[1] \in DOMAIN grown /\ p[1] <= Len(c) => p[1] \in DOMAIN c
      BY <1>1
    <3> QED
      BY <1>1, <3>1, <3>2, PlacesIs
  <2> QED
    BY <2>1, <2>2
<1>3. \A p \in Places(c) : InnerOf(grown, p) = InnerOf(c, p)
  BY <1>1, PlacesIs DEF InnerOf
<1> QED
  BY <1>2, <1>3 DEF grown, Received, Proposed

\* Nothing that arrived or was proposed is a missed fee payment.
LEMMA KeptIsCounted ==
    ASSUME NEW c \in Seq(Seq(Raws)), NEW p \in Places(c), InnerOf(c, p).code # "tx_transfer"
    PROVE  <<p[2], p[3]>> \in Counted(c[p[1]])
<1> DEFINE w == c[p[1]][p[2]]
<1>1. /\ <<p[2], p[3]>> \in Inners(c[p[1]]) /\ c[p[1]] \in Seq(Raws)
      /\ p[2] \in DOMAIN c[p[1]] /\ IsWrapper(w)
  BY PlaceType
<1>2. w.paysShielded => w.batch[1].code = "tx_transfer"
  BY <1>1, WrapperFacts DEF IsExecutedWrapper
<1>3. ~ (p[3] = 1 /\ w.paysShielded)
  BY <1>2 DEF InnerOf
<1> QED
  BY <1>1, <1>3, MissedIs DEF Counted

-----------------------------------------------------------------------------
(* Tokens.                                                                 *)

\* The node executes nothing with a token that does not exist; the table has what
\* arrived in the blocks that are indexed.
TokenInv ==
    /\ \A h \in DOMAIN chain : \A t \in DOMAIN chain[h] :
          IsWrapper(chain[h][t]) => Needed(chain[h][t]) \subseteq Existing(chain, <<h, t, 1>>)
    /\ Native \in tokens
    /\ \A p \in Received(chain) : p[1] <= height /\ InnerOf(chain, p).known =>
          VoucherOf(InnerOf(chain, p)) \in tokens \/ IsNamVoucher(InnerOf(chain, p))

\* A voucher that arrives in a block is among the tokens found in it.
LEMMA VoucherFound ==
    ASSUME NEW c \in Seq(Seq(Raws)), NEW p \in Received(c), InnerOf(c, p).known,
           NEW d, Decodes(d, c[p[1]], Len(c[p[1]]))
    PROVE  VoucherOf(InnerOf(c, p)) \in IbcTokens(d) \cup {Native} \/ IsNamVoucher(InnerOf(c, p))
<1> DEFINE i == InnerOf(c, p)
           b == c[p[1]]
           at == <<p[2], p[3]>>
<1>1. p \in Places(c) /\ i.code = "tx_ibc" /\ i.msg = "recv"
  BY DEF Received
<1>2. at \in Counted(b) /\ InnerAt(b, at) = i /\ IsInner(i) /\ b \in Seq(Raws)
  BY <1>1, PlaceType, KeptIsCounted
<1> DEFINE s == [kind |-> KindOf(i), data |-> i, at |-> at]
<1>3. s \in Successful(d)
  BY <1>2, SuccessfulIs
<1>4. s.kind = KindOf(i) /\ s.data = i
  OBVIOUS
<1> HIDE DEF i, s, at, b
<1>5. IsPacket(i) /\ KindOf(i) = TransferToIbcTxKind(i) /\ i.shielded \in BOOLEAN
  BY <1>1, <1>2, KindIs DEF IsInner, i
<1>6. s.kind \in IbcTransfers
  BY <1>1, <1>4, <1>5, IbcKinds DEF IbcTransfers
<1>7. TokenOf(i) \in IbcTokens(d) \cup {Native}
  BY <1>3, <1>4, <1>6 DEF IbcTokens
<1>8. TokenOf(i) = VoucherOf(i) \/ (Last(i.denom) = Last(Native))
  BY <1>1, <1>5, TokenRead
<1>9. TokenOf(i) = VoucherOf(i) \/ VoucherOf(i) = Native \/ IsNamVoucher(i)
  BY <1>8 DEF IsNamVoucher
<1> QED
  BY <1>7, <1>9 DEF i

\* The tokens of the balances that a transaction makes the indexer ask for.
LEMMA TokensOfBalances ==
    ASSUME NEW i, IsInner(i), NEW s, s.kind = KindOf(i), s.data = i,
           NEW U, Native \in U, NEW T \in SUBSET U,
           i.code = "tx_transfer" => {a[2] : a \in i.sources} \subseteq U,
           i.code = "tx_ibc" /\ i.msg # "recv" => i.denom \in U,
           s.kind \in IbcTransfers => TokenOf(i) \in U,
           NEW a \in BalancesOf(s, T)
    PROVE  a[2] \in U
<1>1. CASE i.known /\ i.code = "tx_transfer"
  <2>1. IsTransfer(i) /\ s.kind = TransferToTxKind(i) /\ i.shielded \in BOOLEAN
    BY <1>1, KindIs DEF IsInner
  <2>2. \A x \in i.sources \cup i.targets : x[2] \in U
    <3>1. \A x \in i.sources : x[2] \in U
      BY <1>1
    <3>2. {x[2] : x \in i.targets} \subseteq {x[2] : x \in i.sources}
      BY <2>1 DEF IsTransfer
    <3> QED
      BY <3>1, <3>2
  <2>3. s.kind \in PoolTransfers \cup {"TransparentTransfer", "ShieldedTransfer"}
    BY <2>1, TransferKinds DEF PoolTransfers
  <2>4. CASE s.kind = "ShieldedTransfer"
    BY <2>4 DEF BalancesOf, PoolTransfers
  <2>5. CASE s.kind = "TransparentTransfer"
    BY <2>2, <2>5 DEF BalancesOf, PoolTransfers
  <2>6. CASE s.kind \in PoolTransfers
    <3>1. a \in WithPool(i.sources \cup i.targets)
      BY <2>6 DEF BalancesOf, PoolTransfers
    <3> QED
      BY <2>2, <3>1 DEF WithPool
  <2> QED
    BY <2>3, <2>4, <2>5, <2>6
<1>2. CASE i.known /\ i.code = "tx_ibc"
  <2>1. IsPacket(i) /\ s.kind = TransferToIbcTxKind(i) /\ i.shielded \in BOOLEAN
    BY <1>2, KindIs DEF IsInner
  <2>2. CASE i.msg \in {"recv", "transfer"}
    <3>1. s.kind \in IbcTransfers
      BY <2>1, <2>2, IbcKinds DEF IbcTransfers
    <3>2. \A x \in IbcAccounts(i) : x[2] \in U
      BY <1>2, <3>1 DEF IbcAccounts
    <3>3. a \in IbcAccounts(i) \/ a \in WithPool(IbcAccounts(i))
      BY <3>1 DEF BalancesOf, PoolTransfers, IbcTransfers
    <3> HIDE DEF IbcAccounts
    <3> QED
      BY <3>2, <3>3 DEF WithPool
  <2>3. CASE i.msg \notin {"recv", "transfer"}
    <3>1. s.kind = "IbcMsg"
      BY <2>1, <2>3, IbcKinds
    <3>2. a \in RefundOf(i)
      BY <3>1 DEF BalancesOf, PoolTransfers
    <3>3. a = <<i.party, TokenOf(i)>>
      BY <3>2 DEF RefundOf
    <3>4. TokenOf(i) \in {Native, i.denom}
      BY <2>1, <2>3, TokenRead
    <3> QED
      BY <1>2, <2>3, <3>3, <3>4
  <2> QED
    BY <2>2, <2>3
<1>3. CASE ~i.known \/ i.code \notin {"tx_transfer", "tx_ibc"}
  <2>1. s.kind \in {"Unknown"} \cup (Codes \ {"tx_transfer", "tx_ibc"})
    BY <1>3, KindIs DEF IsInner
  <2>2. a \in StakeBalances(s)
    BY <2>1 DEF BalancesOf, PoolTransfers, Codes
  <2> QED
    BY <2>2 DEF StakeBalances
<1> QED
  BY <1>1, <1>2, <1>3 DEF IsInner

\* The tokens that exist are in the table, or are found in the block, if all that
\* arrived could be seen, and no voucher of NAM among it.
LEMMA RowsAreAccepted ==
    ASSUME PlaceInv, TokenInv, Complete,
           \A p \in Received(chain) : p[1] <= height + 1 =>
              InnerOf(chain, p).known /\ ~IsNamVoucher(InnerOf(chain, p))
    PROVE  RowsAccepted
<1> DEFINE U == tokens \cup IbcTokens(decoded)
<1>1. /\ Block \in Seq(Raws) /\ Decodes(decoded, Block, Len(Block))
      /\ height + 1 \in DOMAIN chain /\ height \in Nat
      /\ chain \in Seq(Seq(Raws))
  BY PlaceFacts DEF Complete, PlaceInv
<1>2. ASSUME NEW p \in Received(chain), p[1] <= height + 1
      PROVE  VoucherOf(InnerOf(chain, p)) \in U
  <2>1. InnerOf(chain, p).known /\ ~IsNamVoucher(InnerOf(chain, p))
    BY <1>2
  <2>2. p \in Places(chain) /\ p[1] \in Nat
    BY <1>1, PlaceType DEF Received
  <2>3. CASE p[1] <= height
    BY <2>1, <2>3 DEF TokenInv
  <2>4. CASE p[1] = height + 1
    <3>1. Decodes(decoded, chain[p[1]], Len(chain[p[1]]))
      BY <1>1, <2>4 DEF Block
    <3>2. VoucherOf(InnerOf(chain, p)) \in IbcTokens(decoded) \cup {Native}
      BY <1>1, <2>1, <3>1, VoucherFound
    <3> QED
      BY <3>2 DEF TokenInv
  <2> QED
    BY <1>1, <1>2, <2>2, <2>3, <2>4
<1>3. ASSUME NEW t \in DOMAIN Block, IsWrapper(Block[t])
      PROVE  Needed(Block[t]) \subseteq U
  <2>1. Needed(Block[t]) \subseteq Existing(chain, <<height + 1, t, 1>>)
    BY <1>1, <1>3 DEF TokenInv, Block
  <2>2. ASSUME NEW r \in Received(chain), Before(r, <<height + 1, t, 1>>)
        PROVE  r[1] <= height + 1
    <3>1. r = <<r[1], r[2], r[3]>> /\ r[1] \in Nat /\ r[2] \in Nat /\ r[3] \in Nat
      BY <1>1, PlaceType DEF Received
    <3>2. t \in Nat
      BY <1>1
    <3>3. Before(<<r[1], r[2], r[3]>>, <<height + 1, t, 1>>)
      BY <2>2, <3>1
    <3>4. r[1] < height + 1 \/ r[1] = height + 1
      <4> DEFINE n == height + 1
      <4>1. n \in Nat
        BY <1>1
      <4> HIDE DEF n
      <4>2. Before(<<r[1], r[2], r[3]>>, <<n, t, 1>>) => r[1] < n \/ r[1] = n
        BY <3>1, <3>2, <4>1, BeforeTriples
      <4> QED
        BY <3>3, <4>2 DEF n
    <3> QED
      BY <1>1, <3>1, <3>4
  <2>3. Existing(chain, <<height + 1, t, 1>>) \subseteq U
    BY <1>2, <2>2 DEF Existing, TokenInv
  <2> QED
    BY <2>1, <2>3
<1>4. ASSUME NEW s \in Successful(decoded), NEW a \in BalancesOf(s, IbcTokens(decoded))
      PROVE  a[2] \in U
  <2> DEFINE i == s.data
             t == s.at[1]
             j == s.at[2]
             w == Block[t]
  <2>1. /\ s.at \in Inners(Block) /\ i = InnerAt(Block, s.at) /\ s.kind = KindOf(i) /\ IsInner(i)
    BY <1>1, SuccessfulRow
  <2>2. /\ t \in DOMAIN Block /\ IsWrapper(w) /\ j \in Kept(w) /\ i = w.batch[j]
    BY <1>1, <2>1, CountedPlaces DEF InnerAt
  <2> HIDE DEF t, w, j
  <2>3. Needed(w) \subseteq U
    BY <1>3, <2>2 DEF w
  <2>4. i.code = "tx_transfer" => {x[2] : x \in i.sources} \subseteq Needed(w)
    BY <2>2 DEF Needed
  <2>5. i.code = "tx_ibc" /\ i.msg # "recv" => i.denom \in Needed(w)
    BY <2>2 DEF Needed
  <2>6. s.kind \in IbcTransfers => TokenOf(i) \in IbcTokens(decoded) \cup {Native}
    BY DEF IbcTokens
  <2>7. Native \in U
    BY DEF TokenInv
  <2> DEFINE T == IbcTokens(decoded)
  <2>8. /\ T \in SUBSET U
        /\ i.code = "tx_transfer" => {x[2] : x \in i.sources} \subseteq U
        /\ i.code = "tx_ibc" /\ i.msg # "recv" => i.denom \in U
        /\ s.kind \in IbcTransfers => TokenOf(i) \in U
        /\ a \in BalancesOf(s, T)
    BY <2>3, <2>4, <2>5, <2>6, <2>7, <1>4
  <2> HIDE DEF U, T, i
  <2> QED
    BY <2>1, <2>7, <2>8, TokensOfBalances DEF i
<1>5. ASSUME NEW w \in ToSet(decoded), NEW a \in FeesOf(w)
      PROVE  a[2] \in U
  <2>1. PICK k \in DOMAIN decoded : w = decoded[k]
    BY DEF ToSet
  <2> DEFINE t == decoded[k].tx
  <2>2. t \in DOMAIN Block /\ IsWrapper(Block[t]) /\ decoded[k].token = Block[t].token
    BY <1>1, DecodedOfBlock
  <2>3. w.token \in Needed(Block[t])
    BY <2>1, <2>2 DEF Needed
  <2>4. w.token \in U
    BY <2>2, <2>3, <1>3
  <2> QED
    BY <2>4 DEF FeesOf
<1>6. \A a \in AddressesWithBalanceChange(decoded) : a[2] \in U
  BY <1>4, <1>5 DEF AddressesWithBalanceChange
<1> QED
  BY <1>6 DEF RowsAccepted

LEMMA TokenStep ==
    ASSUME PlaceInv, PlaceInv', TokenInv, [Next]_vars
    PROVE  TokenInv'
<1>1. CASE \E n \in 1..MaxPerBlock : \E block \in [1..n -> Raws] : Finalize(block)
  <2>1. PICK n \in 1..MaxPerBlock : \E block \in [1..n -> Raws] : Finalize(block)
    BY <1>1
  <2>2. PICK block \in [1..n -> Raws] : Finalize(block)
    BY <2>1
  <2> DEFINE grown == Append(chain, block)
  <2>3. block \in Seq(Raws) /\ chain \in Seq(Seq(Raws))
    BY BlockType DEF PlaceInv
  <2>4. /\ chain' = grown /\ height' = height /\ tokens' = tokens /\ height \in 0..Len(chain)
        /\ \A t \in DOMAIN block : IsWrapper(block[t]) =>
              Needed(block[t]) \subseteq Existing(grown, <<Len(grown), t, 1>>)
    BY <2>2 DEF Finalize, PlaceInv
  <2>5. /\ Len(grown) = Len(chain) + 1 /\ Len(chain) \in Nat
        /\ DOMAIN grown = (DOMAIN chain) \cup {Len(chain) + 1}
        /\ \A h \in DOMAIN chain : grown[h] = chain[h]
        /\ grown[Len(chain) + 1] = block
    BY <2>3, GrownFacts
  <2>6. /\ \A p \in Received(chain) : p \in Received(grown) /\ p \in Places(chain)
        /\ \A p \in Received(grown) : p[1] <= Len(chain) => p \in Received(chain)
        /\ \A p \in Places(chain) : InnerOf(grown, p) = InnerOf(chain, p)
    BY <2>3, PlacesKept DEF Received
  <2> HIDE DEF grown
  <2>7. \A place : Existing(chain, place) \subseteq Existing(grown, place)
    BY <2>6 DEF Existing
  <2>8. ASSUME NEW h \in DOMAIN grown, NEW t \in DOMAIN grown[h], IsWrapper(grown[h][t])
        PROVE  Needed(grown[h][t]) \subseteq Existing(grown, <<h, t, 1>>)
    <3>1. CASE h \in DOMAIN chain
      BY <2>5, <2>7, <2>8, <3>1 DEF TokenInv
    <3>2. CASE h = Len(chain) + 1
      BY <2>4, <2>5, <2>8, <3>2
    <3> QED
      BY <2>5, <3>1, <3>2
  <2>9. ASSUME NEW p \in Received(grown), p[1] <= height, InnerOf(grown, p).known
        PROVE  VoucherOf(InnerOf(grown, p)) \in tokens \/ IsNamVoucher(InnerOf(grown, p))
    <3>1. p[1] \in Nat
      <4>1. p \in Places(grown) /\ grown \in Seq(Seq(Raws))
        BY <2>3, GrownFacts DEF Received, grown
      <4> QED
        BY <4>1, PlaceType
    <3>2. p \in Received(chain) /\ p \in Places(chain)
      BY <2>4, <2>5, <2>6, <2>9, <3>1
    <3> QED
      BY <2>6, <2>9, <3>2 DEF TokenInv
  <2>10. Native \in tokens
    BY DEF TokenInv
  <2> QED
    BY <2>4, <2>8, <2>9, <2>10 DEF TokenInv
<1>2. CASE Commit
  <2>1. /\ Complete /\ chain' = chain /\ height' = height + 1
        /\ tokens' = tokens \cup IbcTokens(decoded)
    BY <1>2 DEF Commit
  <2>2. /\ Block \in Seq(Raws) /\ Decodes(decoded, Block, Len(Block))
        /\ chain \in Seq(Seq(Raws)) /\ height \in Nat
    BY <2>1, PlaceFacts DEF Complete, PlaceInv
  <2>3. ASSUME NEW p \in Received(chain), p[1] <= height + 1, InnerOf(chain, p).known
        PROVE  VoucherOf(InnerOf(chain, p)) \in tokens' \/ IsNamVoucher(InnerOf(chain, p))
    <3>1. p \in Places(chain) /\ p[1] \in Nat
      BY <2>2, PlaceType DEF Received
    <3>2. CASE p[1] <= height
      BY <2>1, <2>3, <3>2 DEF TokenInv
    <3>3. CASE p[1] = height + 1
      <4>1. Decodes(decoded, chain[p[1]], Len(chain[p[1]]))
        BY <2>2, <3>3 DEF Block
      <4>2. VoucherOf(InnerOf(chain, p)) \in IbcTokens(decoded) \cup {Native}
                \/ IsNamVoucher(InnerOf(chain, p))
        BY <2>2, <2>3, <4>1, VoucherFound
      <4> QED
        BY <2>1, <4>2 DEF TokenInv
    <3> QED
      BY <2>2, <2>3, <3>1, <3>2, <3>3
  <2> QED
    BY <2>1, <2>3 DEF TokenInv
<1>3. CASE UNCHANGED <<chain, height, tokens>>
  BY <1>3 DEF TokenInv
<1> QED
  BY <1>1, <1>2, <1>3 DEF Next, DecodeTx, AttemptFails, vars

\* Every voucher that reached the chain is in the token table once its block is
\* indexed, and no block is refused for one that is not (ibc_tokens, and the
\* insertion of tokens before balances): both but for vouchers of NAM and what
\* transactions of unknown code received.
THEOREM TokensCorrect == Spec => []TokensListed
<1>1. Init => TokenInv
  <2> SUFFICES ASSUME Init PROVE TokenInv
    OBVIOUS
  <2>1. chain = <<>> /\ tokens = {Native}
    BY DEF Init
  <2>2. DOMAIN chain = {}
    BY <2>1
  <2>3. Received(chain) = {}
    BY <2>2 DEF Received, Places
  <2> QED
    BY <2>1, <2>2, <2>3 DEF TokenInv
<1>2. PlaceInv /\ TokenInv => TokensListed
  <2> SUFFICES ASSUME PlaceInv, TokenInv PROVE TokensListed
    OBVIOUS
  <2>1. ASSUME Complete, ~RowsAccepted
        PROVE  \E p \in Received(chain) : /\ p[1] <= height + 1
                                          /\ InnerOf(chain, p).known => IsNamVoucher(InnerOf(chain, p))
    BY <2>1, RowsAreAccepted
  <2> QED
    BY <2>1 DEF TokensListed, TokenInv
<1> QED
  BY <1>1, <1>2, TokenStep, DecodingCorrect, PTL DEF Spec

-----------------------------------------------------------------------------
(* Proposals.                                                              *)

LEMMA FamilyFinite ==
    ASSUME NEW S, IsFiniteSet(S), NEW f, DOMAIN f = S, \A x \in S : IsFiniteSet(f[x])
    PROVE  IsFiniteSet(UNION {f[x] : x \in S})
<1> DEFINE T == {f[x] : x \in S}
           g == [x \in S |-> f[x]]
<1>1. g \in Surjection(S, T)
  BY DEF Surjection
<1>2. IsFiniteSet(T)
  BY <1>1, FS_Surjection
<1> QED
  BY <1>2, FS_UNION

LEMMA InnersFinite ==
    ASSUME NEW b \in Seq(Raws)
    PROVE  IsFiniteSet(Inners(b))
<1> DEFINE W == {u \in DOMAIN b : IsWrapper(b[u])}
           f == [t \in W |-> {t} \X Kept(b[t])]
<1>1. IsFiniteSet(W)
  <2>1. DOMAIN b = 1..Len(b) /\ Len(b) \in Int /\ 1 \in Int
    OBVIOUS
  <2>2. IsFiniteSet(DOMAIN b)
    BY <2>1, FS_Interval
  <2> QED
    BY <2>2, FS_Subset
<1>2. ASSUME NEW t \in W
      PROVE  IsFiniteSet(f[t])
  <2>1. /\ DOMAIN b[t].batch = 1..Len(b[t].batch) /\ Len(b[t].batch) \in Int /\ 1 \in Int
        /\ Kept(b[t]) \subseteq DOMAIN b[t].batch
    BY WrapperFacts DEF IsExecutedWrapper
  <2>2. IsFiniteSet(DOMAIN b[t].batch)
    BY <2>1, FS_Interval
  <2>3. IsFiniteSet(Kept(b[t])) /\ IsFiniteSet({t})
    BY <2>1, <2>2, FS_Subset, FS_Singleton
  <2>4. IsFiniteSet({t} \X Kept(b[t]))
    BY <2>3, FS_Product
  <2> QED
    BY <2>4
<1>3. Inners(b) = UNION {f[t] : t \in W}
  BY DEF Inners
<1>4. DOMAIN f = W
  OBVIOUS
<1> HIDE DEF f, W
<1> QED
  BY <1>1, <1>2, <1>3, <1>4, FamilyFinite

LEMMA PlacesFinite ==
    ASSUME NEW c \in Seq(Seq(Raws))
    PROVE  IsFiniteSet(Places(c)) /\ IsFiniteSet(Proposed(c))
<1> DEFINE f == [h \in DOMAIN c |-> {<<h, at[1], at[2]>> : at \in Inners(c[h])}]
<1>1. IsFiniteSet(DOMAIN c)
  <2>1. DOMAIN c = 1..Len(c) /\ Len(c) \in Int /\ 1 \in Int
    OBVIOUS
  <2> QED
    BY <2>1, FS_Interval
<1>2. ASSUME NEW h \in DOMAIN c
      PROVE  IsFiniteSet(f[h])
  <2> DEFINE g == [at \in Inners(c[h]) |-> <<h, at[1], at[2]>>]
  <2>1. c[h] \in Seq(Raws)
    OBVIOUS
  <2>2. IsFiniteSet(Inners(c[h]))
    BY <2>1, InnersFinite
  <2>3. g \in Surjection(Inners(c[h]), f[h])
    BY DEF Surjection
  <2> QED
    BY <2>2, <2>3, FS_Surjection
<1>3. Places(c) = UNION {f[h] : h \in DOMAIN c}
  BY DEF Places
<1>4. DOMAIN f = DOMAIN c
  OBVIOUS
<1>5. IsFiniteSet(Places(c))
  <2> HIDE DEF f
  <2> QED
    BY <1>1, <1>2, <1>3, <1>4, FamilyFinite
<1>6. Proposed(c) \subseteq Places(c)
  BY DEF Proposed
<1> QED
  BY <1>5, <1>6, FS_Subset

\* The order of what was decoded is that of the transactions.
LEMMA OrderKept ==
    ASSUME NEW b \in Seq(Raws), NEW d, Decodes(d, b, Len(b)),
           NEW x \in SuccessfulAt(d), NEW y \in SuccessfulAt(d)
    PROVE  /\ Before(x, y) <=> Before(PlaceOf(d, x), PlaceOf(d, y))
           /\ PlaceOf(d, x) = PlaceOf(d, y) => x = y
<1>1. /\ x = <<x[1], x[2]>> /\ x[1] \in DOMAIN d /\ x[2] \in DOMAIN d[x[1]].batch
      /\ y = <<y[1], y[2]>> /\ y[1] \in DOMAIN d /\ y[2] \in DOMAIN d[y[1]].batch
      /\ PlaceOf(d, x) \in Inners(b) /\ PlaceOf(d, y) \in Inners(b)
  BY SuccessfulPlaces DEF Counted
<1> DEFINE u == d[x[1]].tx
           v == d[y[1]].tx
<1>2. PlaceOf(d, x) = <<u, x[2]>> /\ PlaceOf(d, y) = <<v, y[2]>>
  BY DEF PlaceOf
<1>3. u \in Nat /\ v \in Nat /\ x[1] \in Nat /\ y[1] \in Nat
  BY <1>1, DecodedOfBlock
<1>4. x[2] \in Nat /\ y[2] \in Nat
  BY <1>1, <1>2, CountedPlaces
<1>5. /\ x[1] < y[1] => u < v
      /\ y[1] < x[1] => v < u
      /\ x[1] = y[1] => u = v
  BY <1>1 DEF Decodes
<1> HIDE DEF u, v
<1>6. Before(<<x[1], x[2]>>, <<y[1], y[2]>>) <=> x[1] < y[1] \/ (x[1] = y[1] /\ x[2] < y[2])
  BY <1>3, <1>4, BeforePairs
<1>7. Before(<<u, x[2]>>, <<v, y[2]>>) <=> u < v \/ (u = v /\ x[2] < y[2])
  BY <1>3, <1>4, BeforePairs
<1>8. Before(x, y) <=> Before(PlaceOf(d, x), PlaceOf(d, y))
  BY <1>1, <1>2, <1>3, <1>5, <1>6, <1>7
<1>9. PlaceOf(d, x) = PlaceOf(d, y) => x = y
  <2>1. PlaceOf(d, x) = PlaceOf(d, y) => u = v /\ x[2] = y[2]
    BY <1>2
  <2>2. u = v => x[1] = y[1]
    BY <1>3, <1>5
  <2> QED
    BY <1>1, <2>1, <2>2
<1> QED
  BY <1>8, <1>9

LEMMA SuccessfulFinite ==
    ASSUME NEW b \in Seq(Raws), NEW d, Decodes(d, b, Len(b))
    PROVE  IsFiniteSet(SuccessfulAt(d))
<1> DEFINE f == [x \in SuccessfulAt(d) |-> PlaceOf(d, x)]
<1>1. f \in [SuccessfulAt(d) -> Inners(b)]
  BY SuccessfulPlaces DEF Counted
<1>2. \A x \in SuccessfulAt(d), y \in SuccessfulAt(d) : f[x] = f[y] => x = y
  BY OrderKept
<1>3. f \in Injection(SuccessfulAt(d), Inners(b))
  BY <1>1, <1>2 DEF Injection, IsInjective
<1> QED
  BY <1>3, InnersFinite, FS_Injection

\* The proposals found in a block.
Found(d) == {at \in SuccessfulAt(d) : d[at[1]].batch[at[2]].kind = "tx_init_proposal"}

LEMMA ProposalKind ==
    ASSUME NEW i, IsInner(i)
    PROVE  KindOf(i) = "tx_init_proposal" <=> i.known /\ i.code = "tx_init_proposal"
<1>1. i.known /\ i.code = "tx_transfer" => KindOf(i) # "tx_init_proposal"
  <2> SUFFICES ASSUME i.known, i.code = "tx_transfer" PROVE KindOf(i) # "tx_init_proposal"
    OBVIOUS
  <2>1. KindOf(i) = TransferToTxKind(i) /\ i.shielded \in BOOLEAN
    BY KindIs DEF IsInner
  <2> QED
    BY <2>1, TransferKinds
<1>2. i.known /\ i.code = "tx_ibc" => KindOf(i) # "tx_init_proposal"
  <2> SUFFICES ASSUME i.known, i.code = "tx_ibc" PROVE KindOf(i) # "tx_init_proposal"
    OBVIOUS
  <2>1. KindOf(i) = TransferToIbcTxKind(i) /\ i.shielded \in BOOLEAN /\ IsPacket(i)
    BY KindIs DEF IsInner
  <2> QED
    BY <2>1, IbcKinds DEF IsPacket
<1> QED
  BY <1>1, <1>2, KindIs

\* A proposal that is found gets the id the chain gave it, unless one of unknown
\* code is before it in the block.
LEMMA FoundIds ==
    ASSUME PlaceInv, Complete, NEW at \in Found(decoded)
    PROVE  LET place == PlaceOf(decoded, at)
               p == <<height + 1, place[1], place[2]>>
           IN /\ p \in Proposed(chain)
              /\ \/ NextGovernanceId + Cardinality({b \in Found(decoded) : Before(b, at)}) = ChainId(p)
                 \/ AfterUnknown(p)
<1> DEFINE n == height + 1
           P(x) == <<n, PlaceOf(decoded, x)[1], PlaceOf(decoded, x)[2]>>
           S == {b \in Found(decoded) : Before(b, at)}
           A == {o \in Proposed(chain) : o[1] <= height}
           B == {o \in Proposed(chain) : o[1] = n /\ Before(o, P(at))}
           E == {o \in Proposed(chain) : Before(o, P(at))}
<1>1. /\ Block \in Seq(Raws) /\ Decodes(decoded, Block, Len(Block))
      /\ n \in DOMAIN chain /\ height \in Nat /\ n \in Nat /\ chain \in Seq(Seq(Raws))
      /\ Block = chain[n]
  BY PlaceFacts DEF Complete, PlaceInv, Block
<1>2. \A x \in Found(decoded) : x \in SuccessfulAt(decoded)
  BY DEF Found
<1> HIDE DEF n
<1>3. ASSUME NEW x \in Found(decoded)
      PROVE  /\ P(x) \in Proposed(chain)
             /\ PlaceOf(decoded, x) = <<P(x)[2], P(x)[3]>>
             /\ P(x)[1] = n /\ P(x)[2] \in Nat /\ P(x)[3] \in Nat
  <2> DEFINE place == PlaceOf(decoded, x)
  <2>1. place \in Counted(Block) /\ decoded[x[1]].batch[x[2]].kind = KindOf(InnerAt(Block, place))
    BY <1>1, <1>2, SuccessfulPlaces
  <2>2. place \in Inners(Block)
    BY <2>1 DEF Counted
  <2>3. place = <<place[1], place[2]>> /\ place[1] \in Nat /\ place[2] \in Nat
    BY <1>1, <2>2, CountedPlaces
  <2> HIDE DEF place
  <2>4. P(x) = <<n, place[1], place[2]>>
    BY DEF place
  <2> HIDE DEF P
  <2>5. /\ P(x) = <<P(x)[1], P(x)[2], P(x)[3]>> /\ P(x)[1] = n
        /\ P(x)[2] = place[1] /\ P(x)[3] = place[2]
    BY <2>4
  <2>6. P(x) \in Places(chain)
    BY <1>1, <2>2, <2>3, <2>5, PlacesIs
  <2>7. InnerOf(chain, P(x)) = InnerAt(Block, place) /\ IsInner(InnerOf(chain, P(x)))
    BY <1>1, <2>3, <2>5, <2>6, PlaceType
  <2>8. KindOf(InnerOf(chain, P(x))) = "tx_init_proposal"
    BY <2>1, <2>7 DEF Found, place
  <2>9. InnerOf(chain, P(x)).code = "tx_init_proposal"
    BY <2>7, <2>8, ProposalKind
  <2> QED
    BY <2>3, <2>5, <2>6, <2>9 DEF Proposed, place
<1>4. \A x \in Found(decoded), y \in Found(decoded) :
          /\ Before(x, y) <=> Before(P(x), P(y))
          /\ P(x) = P(y) => x = y
  <2> TAKE x \in Found(decoded), y \in Found(decoded)
  <2>1. /\ Before(x, y) <=> Before(PlaceOf(decoded, x), PlaceOf(decoded, y))
        /\ PlaceOf(decoded, x) = PlaceOf(decoded, y) => x = y
    BY <1>1, <1>2, OrderKept
  <2> DEFINE a == PlaceOf(decoded, x)[1]
             b == PlaceOf(decoded, x)[2]
             c == PlaceOf(decoded, y)[1]
             e == PlaceOf(decoded, y)[2]
  <2>2. /\ PlaceOf(decoded, x) = <<a, b>> /\ PlaceOf(decoded, y) = <<c, e>>
        /\ a \in Nat /\ b \in Nat /\ c \in Nat /\ e \in Nat
        /\ P(x) = <<n, a, b>> /\ P(y) = <<n, c, e>>
    <3>1. /\ PlaceOf(decoded, x) = <<P(x)[2], P(x)[3]>> /\ P(x)[2] \in Nat /\ P(x)[3] \in Nat
          /\ PlaceOf(decoded, y) = <<P(y)[2], P(y)[3]>> /\ P(y)[2] \in Nat /\ P(y)[3] \in Nat
      <4> HIDE DEF P
      <4> QED
        BY <1>3
    <3>2. P(x) = <<n, a, b>> /\ P(y) = <<n, c, e>>
      OBVIOUS
    <3> HIDE DEF P
    <3>3. P(x)[2] = a /\ P(x)[3] = b /\ P(y)[2] = c /\ P(y)[3] = e
      <4> HIDE DEF a, b, c, e
      <4> QED
        BY <3>2
    <3> QED
      BY <3>1, <3>2, <3>3
  <2> HIDE DEF a, b, c, e, P
  <2>3. Before(<<a, b>>, <<c, e>>) <=> a < c \/ (a = c /\ b < e)
    BY <2>2, BeforePairs
  <2>4. Before(<<n, a, b>>, <<n, c, e>>) <=> n < n \/ (n = n /\ (a < c \/ (a = c /\ b < e)))
    <3>1. n \in Nat /\ a \in Nat /\ b \in Nat /\ c \in Nat /\ e \in Nat
      BY <1>1, <2>2
    <3> QED
      BY <3>1, BeforeTriples
  <2>5. <<n, a, b>> = <<n, c, e>> => <<a, b>> = <<c, e>>
    OBVIOUS
  <2> QED
    BY <1>1, <2>1, <2>2, <2>3, <2>4, <2>5
<1>5. P(at) \in Proposed(chain)
  BY <1>3
<1> SUFFICES ASSUME ~AfterUnknown(P(at))
             PROVE  NextGovernanceId + Cardinality(S) = ChainId(P(at))
  BY <1>5 DEF n
<1>6. Cardinality(S) = Cardinality(B) /\ IsFiniteSet(B)
  <2> DEFINE f == [x \in S |-> P(x)]
  <2>1. f \in [S -> B]
    <3>1. \A x \in S : P(x) \in B
      <4> TAKE x \in S
      <4>1. P(x) \in Proposed(chain) /\ P(x)[1] = n /\ Before(P(x), P(at))
        <5>1. x \in Found(decoded) /\ Before(x, at)
          OBVIOUS
        <5> HIDE DEF P
        <5> QED
          BY <5>1, <1>3, <1>4
      <4> HIDE DEF P
      <4> QED
        BY <4>1
    <3> HIDE DEF P, S, B
    <3> QED
      BY <3>1
  <2>2. \A x \in S, y \in S : f[x] = f[y] => x = y
    <3> HIDE DEF P
    <3> QED
      BY <1>4
  <2>3. ASSUME NEW o \in B
        PROVE  \E x \in S : f[x] = o
    <3>1. o \in Proposed(chain) /\ o[1] = n /\ Before(o, P(at))
      <4> HIDE DEF P
      <4> QED
        OBVIOUS
    <3>2. o \in Places(chain) /\ InnerOf(chain, o).code = "tx_init_proposal"
      BY <3>1 DEF Proposed
    <3> DEFINE place == <<o[2], o[3]>>
    <3>3. /\ o = <<o[1], o[2], o[3]>>
          /\ InnerOf(chain, o) = InnerAt(Block, place) /\ IsInner(InnerOf(chain, o))
          /\ place \in Counted(Block)
      BY <1>1, <3>1, <3>2, PlaceType, KeptIsCounted
    <3>4. InnerOf(chain, o).known
      <4>1. P(at)[1] = n
        BY <1>3
      <4> HIDE DEF P
      <4> QED
        BY <3>1, <4>1 DEF AfterUnknown
    <3>5. PICK x \in SuccessfulAt(decoded) : PlaceOf(decoded, x) = place
      BY <1>1, <3>3, SuccessfulPlaces
    <3>6. decoded[x[1]].batch[x[2]].kind = KindOf(InnerAt(Block, PlaceOf(decoded, x)))
      BY <1>1, <3>5, SuccessfulPlaces
    <3>7. KindOf(InnerAt(Block, place)) = "tx_init_proposal"
      BY <3>2, <3>3, <3>4, ProposalKind
    <3>8. decoded[x[1]].batch[x[2]].kind = "tx_init_proposal"
      BY <3>5, <3>6, <3>7
    <3>9. x \in Found(decoded)
      BY <3>5, <3>8 DEF Found
    <3>10. P(x) = o
      BY <3>1, <3>3, <3>5
    <3>11. Before(x, at)
      <4> HIDE DEF P
      <4> QED
        BY <1>4, <3>1, <3>9, <3>10
    <3>12. x \in S
      BY <3>9, <3>11
    <3> QED
      BY <3>10, <3>12
  <2>4. IsFiniteSet(S)
    <3>1. IsFiniteSet(SuccessfulAt(decoded)) /\ S \subseteq SuccessfulAt(decoded)
      BY <1>1, <1>2, SuccessfulFinite
    <3> QED
      BY <3>1, FS_Subset
  <2> HIDE DEF f, S, B
  <2> QED
    BY <2>1, <2>2, <2>3, <2>4, ImageCount
<1>7. E = A \cup B /\ A \cap B = {}
  <2>1. ASSUME NEW o \in Proposed(chain)
        PROVE  /\ o[1] \in Nat
               /\ o[1] <= height => Before(o, P(at))
               /\ Before(o, P(at)) => o[1] <= height \/ o[1] = n
    <3>1. o = <<o[1], o[2], o[3]>> /\ o[1] \in Nat /\ o[2] \in Nat /\ o[3] \in Nat
      BY <1>1, PlaceType DEF Proposed
    <3>2. P(at) = <<n, P(at)[2], P(at)[3]>> /\ P(at)[2] \in Nat /\ P(at)[3] \in Nat
      BY <1>3
    <3> HIDE DEF P
    <3>3. Before(o, P(at)) => o[1] < n \/ o[1] = n
      BY <1>1, <3>1, <3>2, BeforeTriples
    <3>4. o[1] < n => Before(o, P(at))
      BY <1>1, <3>1, <3>2, BeforeTriples
    <3> QED
      BY <1>1, <3>1, <3>3, <3>4 DEF n
  <2>2. n > height
    BY <1>1 DEF n
  <2> HIDE DEF P
  <2> QED
    BY <1>1, <2>1, <2>2
<1>8. IsFiniteSet(A)
  <2>1. IsFiniteSet(Proposed(chain))
    BY <1>1, PlacesFinite
  <2> QED
    BY <2>1, FS_Subset
<1>9. NextGovernanceId = Cardinality(A) /\ ChainId(P(at)) = Cardinality(E)
  <2>1. NextGovernanceId = Cardinality(A)
    BY Zenon DEF NextGovernanceId
  <2>2. ChainId(P(at)) = Cardinality(E)
    BY Zenon DEF ChainId
  <2> QED
    BY <2>1, <2>2
<1> HIDE DEF A, B, E, S, P
<1>10. Cardinality(E) = Cardinality(A) + Cardinality(B)
  <2>1. Cardinality(A \cup B) = Cardinality(A) + Cardinality(B) - Cardinality(A \cap B)
    BY <1>6, <1>8, FS_Union
  <2>2. Cardinality(A) \in Nat /\ Cardinality(B) \in Nat /\ Cardinality({}) = 0
    BY <1>6, <1>8, FS_CardinalityType, FS_EmptySet
  <2>3. Cardinality(A \cup B) = Cardinality(E) /\ Cardinality(A \cap B) = Cardinality({})
    BY <1>7, Zenon
  <2> QED
    BY <2>1, <2>2, <2>3
<1> QED
  BY <1>6, <1>9, <1>10

\* The table has proposals of the indexed blocks, each under the id the chain gave
\* it.
ProposalInv ==
    \A p \in proposals :
        /\ p.at \in Proposed(chain) /\ p.at[1] <= height
        /\ p.id = ChainId(p.at) \/ AfterUnknown(p.at)

LEMMA ProposalStep ==
    ASSUME PlaceInv, ProposalInv, [Next]_vars
    PROVE  ProposalInv'
<1>1. CASE \E n \in 1..MaxPerBlock : \E block \in [1..n -> Raws] : Finalize(block)
  <2>1. PICK n \in 1..MaxPerBlock : \E block \in [1..n -> Raws] : Finalize(block)
    BY <1>1
  <2>2. PICK block \in [1..n -> Raws] : Finalize(block)
    BY <2>1
  <2> DEFINE grown == Append(chain, block)
  <2>3. block \in Seq(Raws) /\ chain \in Seq(Seq(Raws))
    BY BlockType DEF PlaceInv
  <2>4. /\ chain' = grown /\ height' = height /\ proposals' = proposals
        /\ height \in 0..Len(chain) /\ Len(chain) \in Nat
    BY <2>2, PlaceFacts DEF Finalize, PlaceInv
  <2>5. /\ \A o : o \in Proposed(chain) <=> o \in Proposed(grown) /\ o[1] <= Len(chain)
        /\ \A o \in Places(chain) : InnerOf(grown, o) = InnerOf(chain, o)
        /\ grown \in Seq(Seq(Raws))
    BY <2>3, PlacesKept, GrownFacts
  <2> HIDE DEF grown
  <2>6. ASSUME NEW p \in Proposed(chain), p[1] <= height
        PROVE  /\ p \in Proposed(grown)
               /\ {o \in Proposed(grown) : Before(o, p)} = {o \in Proposed(chain) : Before(o, p)}
               /\ AfterUnknown(p) => AfterUnknown(p)'
    <3>1. p \in Proposed(grown)
      BY <2>5
    <3>2. ASSUME NEW o \in Proposed(grown), Before(o, p)
          PROVE  o \in Proposed(chain)
      <4>1. /\ o = <<o[1], o[2], o[3]>> /\ o[1] \in Nat /\ o[2] \in Nat /\ o[3] \in Nat
            /\ p = <<p[1], p[2], p[3]>> /\ p[1] \in Nat /\ p[2] \in Nat /\ p[3] \in Nat
        BY <2>3, <2>5, PlaceType DEF Proposed
      <4>2. Before(<<o[1], o[2], o[3]>>, <<p[1], p[2], p[3]>>)
        BY <3>2, <4>1
      <4>3. o[1] <= p[1]
        BY <4>1, <4>2, BeforeTriples
      <4>4. o[1] <= Len(chain)
        BY <2>4, <2>6, <4>1, <4>3
      <4> QED
        BY <2>5, <4>4
    <3>3. \A o : o \in Proposed(grown) /\ Before(o, p) <=> o \in Proposed(chain) /\ Before(o, p)
      BY <2>5, <3>2
    <3>4. AfterUnknown(p) => AfterUnknown(p)'
      <4> SUFFICES ASSUME AfterUnknown(p) PROVE AfterUnknown(p)'
        OBVIOUS
      <4>1. PICK o \in Proposed(chain) : o[1] = p[1] /\ Before(o, p) /\ ~InnerOf(chain, o).known
        BY DEF AfterUnknown
      <4>2. o \in Proposed(grown) /\ InnerOf(grown, o) = InnerOf(chain, o)
        BY <2>5, <4>1 DEF Proposed
      <4>3. \E x \in Proposed(grown) : x[1] = p[1] /\ Before(x, p) /\ ~InnerOf(grown, x).known
        BY <4>1, <4>2
      <4> QED
        BY <2>4, <4>3 DEF AfterUnknown
    <3> QED
      BY <3>1, <3>3, <3>4
  <2>7. ASSUME NEW p \in proposals
        PROVE  /\ p.at \in Proposed(grown) /\ p.at[1] <= height
               /\ p.id = ChainId(p.at)' \/ AfterUnknown(p.at)'
    <3> DEFINE q == p.at
    <3>1. q \in Proposed(chain) /\ q[1] <= height /\ (p.id = ChainId(q) \/ AfterUnknown(q))
      BY DEF ProposalInv
    <3> HIDE DEF q
    <3>2. /\ q \in Proposed(grown)
          /\ {o \in Proposed(grown) : Before(o, q)} = {o \in Proposed(chain) : Before(o, q)}
          /\ AfterUnknown(q) => AfterUnknown(q)'
      BY <3>1, <2>6
    <3>3. ChainId(q) = Cardinality({o \in Proposed(chain) : Before(o, q)})
      BY Zenon DEF ChainId
    <3>4. ChainId(q)' = Cardinality({o \in Proposed(grown) : Before(o, q)})
      BY <2>4, Zenon DEF ChainId, q
    <3>5. ChainId(q)' = ChainId(q)
      BY <3>2, <3>3, <3>4
    <3>6. p.id = ChainId(q)' \/ AfterUnknown(q)'
      BY <3>1, <3>2, <3>5
    <3> QED
      BY <3>1, <3>2, <3>6 DEF q
  <2> QED
    BY <2>4, <2>7 DEF ProposalInv
<1>2. CASE Commit
  <2>1. /\ Complete /\ chain' = chain /\ height' = height + 1
        /\ proposals' = proposals \cup
              {[id |-> p.id, at |-> <<height + 1, p.at[1], p.at[2]>>] :
                   p \in GovernanceProposals(decoded, NextGovernanceId)}
    BY <1>2 DEF Commit
  <2>2. height \in Nat /\ chain \in Seq(Seq(Raws))
    BY PlaceFacts DEF PlaceInv
  <2>3. /\ \A p : ChainId(p)' = ChainId(p) /\ (AfterUnknown(p)' <=> AfterUnknown(p))
    BY <2>1 DEF ChainId, AfterUnknown
  <2>4. ASSUME NEW p \in proposals
        PROVE  /\ p.at \in Proposed(chain) /\ p.at[1] <= height + 1
               /\ p.id = ChainId(p.at) \/ AfterUnknown(p.at)
    <3>1. /\ p.at \in Proposed(chain) /\ p.at[1] <= height
          /\ p.id = ChainId(p.at) \/ AfterUnknown(p.at)
      BY DEF ProposalInv
    <3>2. p.at[1] \in Nat
      BY <2>2, <3>1, PlaceType DEF Proposed
    <3> QED
      BY <2>2, <3>1, <3>2
  <2>5. ASSUME NEW p \in {[id |-> g.id, at |-> <<height + 1, g.at[1], g.at[2]>>] :
                              g \in GovernanceProposals(decoded, NextGovernanceId)}
        PROVE  /\ p.at \in Proposed(chain) /\ p.at[1] <= height + 1
               /\ p.id = ChainId(p.at) \/ AfterUnknown(p.at)
    <3>1. PICK g \in GovernanceProposals(decoded, NextGovernanceId) :
              p = [id |-> g.id, at |-> <<height + 1, g.at[1], g.at[2]>>]
      BY <2>5
    <3>2. PICK at \in Found(decoded) :
              g = [id |-> NextGovernanceId + Cardinality({b \in Found(decoded) : Before(b, at)}),
                   at |-> PlaceOf(decoded, at)]
      BY Zenon DEF GovernanceProposals, Found
    <3> DEFINE id == NextGovernanceId + Cardinality({b \in Found(decoded) : Before(b, at)})
               place == PlaceOf(decoded, at)
               q == <<height + 1, place[1], place[2]>>
    <3>3. q \in Proposed(chain) /\ (id = ChainId(q) \/ AfterUnknown(q))
      BY <2>1, FoundIds
    <3>4. q[1] = height + 1
      OBVIOUS
    <3>5. g = [id |-> id, at |-> place]
      BY <3>2, Zenon
    <3> HIDE DEF id, place
    <3>6. p.id = id /\ p.at = q
      BY <3>1, <3>5
    <3> HIDE DEF q
    <3> QED
      BY <2>2, <3>3, <3>4, <3>6
  <2> QED
    BY <2>1, <2>3, <2>4, <2>5 DEF ProposalInv
<1>3. CASE UNCHANGED <<chain, height, proposals>>
  BY <1>3 DEF ProposalInv, ChainId, AfterUnknown
<1> QED
  BY <1>1, <1>2, <1>3 DEF Next, DecodeTx, AttemptFails, vars

\* A proposal is in the table under the id that the chain gave it (governance_proposal
\* counts on from the node's next id), however many there are in a block, unless one
\* of unknown code came before it there.
THEOREM ProposalsCorrect == Spec => []ProposalIds
<1>1. Init => ProposalInv
  BY DEF Init, ProposalInv
<1>2. ProposalInv => ProposalIds
  BY DEF ProposalInv, ProposalIds
<1> QED
  BY <1>1, <1>2, ProposalStep, DecodingCorrect, PTL DEF Spec

\* An id is in the table for one proposal only.
IdsDistinct ==
    \A p, q \in proposals :
        p.id = q.id => p.at = q.at \/ AfterUnknown(p.at) \/ AfterUnknown(q.at)

LEMMA EarlierHasSmallerId ==
    ASSUME PlaceInv, NEW p \in Proposed(chain), NEW q \in Proposed(chain), Before(p, q)
    PROVE  ChainId(p) # ChainId(q)
<1> DEFINE E(x) == {o \in Proposed(chain) : Before(o, x)}
<1>1. chain \in Seq(Seq(Raws))
  BY DEF PlaceInv
<1>2. \A o \in Proposed(chain) : /\ o = <<o[1], o[2], o[3]>>
                                 /\ o[1] \in Nat /\ o[2] \in Nat /\ o[3] \in Nat
  BY <1>1, PlaceType DEF Proposed
<1>3. \A o \in Proposed(chain), x \in Proposed(chain) :
          Before(o, x) <=> o[1] < x[1] \/ (o[1] = x[1] /\ (o[2] < x[2] \/ (o[2] = x[2] /\ o[3] < x[3])))
  <2> TAKE o \in Proposed(chain), x \in Proposed(chain)
  <2>1. Before(<<o[1], o[2], o[3]>>, <<x[1], x[2], x[3]>>) <=>
            o[1] < x[1] \/ (o[1] = x[1] /\ (o[2] < x[2] \/ (o[2] = x[2] /\ o[3] < x[3])))
    BY <1>2, BeforeTriples
  <2> QED
    BY <1>2, <2>1
<1>4. ASSUME NEW o \in Proposed(chain), Before(o, p)
      PROVE  Before(o, q)
  <2>1. o[1] \in Nat /\ o[2] \in Nat /\ o[3] \in Nat /\ p[1] \in Nat /\ p[2] \in Nat /\ p[3] \in Nat
        /\ q[1] \in Nat /\ q[2] \in Nat /\ q[3] \in Nat
    BY <1>2
  <2> QED
    BY <1>3, <1>4, <2>1
<1>5. p \in E(q) /\ p \notin E(p) /\ E(p) \subseteq E(q)
  BY <1>2, <1>3, <1>4
<1>6. IsFiniteSet(E(q))
  BY <1>1, PlacesFinite, FS_Subset
<1>7. ChainId(p) = Cardinality(E(p))
  BY Zenon DEF ChainId
<1>8. ChainId(q) = Cardinality(E(q))
  BY Zenon DEF ChainId
<1> HIDE DEF E
<1>9. Cardinality(E(q)) # Cardinality(E(p))
  BY <1>5, <1>6, FS_Subset
<1> QED
  BY <1>7, <1>8, <1>9

\* The ids of the proposals of any two indexed blocks do not collide, but where one
\* of unknown code came before a proposal in its block (the key of
\* governance_proposals).
THEOREM ProposalIdsDistinct == Spec => []IdsDistinct
<1>1. PlaceInv /\ ProposalInv => IdsDistinct
  <2> SUFFICES ASSUME PlaceInv, ProposalInv, NEW p \in proposals, NEW q \in proposals, p.id = q.id,
                      ~AfterUnknown(p.at), ~AfterUnknown(q.at)
               PROVE  p.at = q.at
    BY DEF IdsDistinct
  <2> DEFINE a == p.at
             b == q.at
  <2>1. a \in Proposed(chain) /\ b \in Proposed(chain) /\ ChainId(a) = ChainId(b)
    BY DEF ProposalInv
  <2> HIDE DEF a, b
  <2>2. /\ a = <<a[1], a[2], a[3]>> /\ a[1] \in Nat /\ a[2] \in Nat /\ a[3] \in Nat
        /\ b = <<b[1], b[2], b[3]>> /\ b[1] \in Nat /\ b[2] \in Nat /\ b[3] \in Nat
    BY <2>1, PlaceType DEF Proposed, PlaceInv
  <2>3. ~Before(a, b) /\ ~Before(b, a)
    BY <2>1, EarlierHasSmallerId
  <2>4. /\ Before(<<a[1], a[2], a[3]>>, <<b[1], b[2], b[3]>>) <=>
               a[1] < b[1] \/ (a[1] = b[1] /\ (a[2] < b[2] \/ (a[2] = b[2] /\ a[3] < b[3])))
        /\ Before(<<b[1], b[2], b[3]>>, <<a[1], a[2], a[3]>>) <=>
               b[1] < a[1] \/ (b[1] = a[1] /\ (b[2] < a[2] \/ (b[2] = a[2] /\ b[3] < a[3])))
    BY <2>2, BeforeTriples
  <2>5. a[1] = b[1] /\ a[2] = b[2] /\ a[3] = b[3]
    BY <2>2, <2>3, <2>4
  <2> QED
    BY <2>2, <2>5 DEF a, b
<1>2. Init => ProposalInv
  BY DEF Init, ProposalInv
<1> QED
  BY <1>1, <1>2, ProposalStep, DecodingCorrect, PTL DEF Spec
=============================================================================
