--------------------- MODULE TransactionsCrawlerProofs ---------------------
(***************************************************************************)
(* Theorems about TransactionsCrawler, for every chain, every set of       *)
(* packets and every sequence of failures, crashes and backfills: the      *)
(* types, the recorded progress and the sequential indexer it implements,  *)
(* the checksums, and the rows of the packets and of the flows.            *)
(***************************************************************************)
EXTENDS TransactionsCrawler, Integers, FiniteSetTheorems, WellFoundedInduction, TLAPS

\* A bounded set of natural numbers that is not empty has a greatest element: the
\* intervals from its elements up to the bound are finite, and inclusion of finite
\* sets is well-founded.
LEMMA GreatestElement ==
    ASSUME NEW k \in Nat, NEW S \in SUBSET (0..k), S # {}
    PROVE  \E m \in S : \A n \in S : n <= m
<1> DEFINE T == {n..k : n \in S}
<1>1. ASSUME NEW n \in S
      PROVE  /\ n \in Nat /\ n..k \in SUBSET Nat /\ n..k \in FiniteSubsetsOf(Nat)
             /\ n \in n..k /\ \A m \in S : n > m => n..k \subseteq m..k /\ m \notin n..k /\ m \in m..k
  <2>1. n \in 0..k /\ n..k \in SUBSET Nat /\ \A m \in S : m \in 0..k
    OBVIOUS
  <2>2. IsFiniteSet(n..k)
    BY <2>1, FS_Interval
  <2> QED
    BY <2>1, <2>2 DEF FiniteSubsetsOf
<1>2. T \subseteq FiniteSubsetsOf(Nat) /\ T # {}
  <2>1. \A n \in S : n..k \in FiniteSubsetsOf(Nat)
    BY <1>1
  <2> QED
    BY <2>1
<1>3. \A m \in S : m..k \in T
  BY Zenon
<1>4. PICK t \in T : \A u \in T : ~ (<<u, t>> \in StrictSubsetOrdering(Nat))
  <2> HIDE DEF T
  <2> QED
    BY <1>2, FS_StrictSubsetOrderingWellFounded, WFMin
<1>5. PICK m \in S : t = m..k
  OBVIOUS
<1>6. ASSUME NEW n \in S, n > m
      PROVE  FALSE
  <2>1. n..k \subseteq m..k /\ m \notin n..k /\ m \in m..k
    BY <1>1, <1>6
  <2>2. <<n..k, m..k>> \in StrictSubsetOrdering(Nat)
    BY <1>1, <2>1, Zenon DEF StrictSubsetOrdering
  <2> QED
    BY <1>3, <1>4, <1>5, <2>2
<1> QED
  BY <1>1, <1>6

-----------------------------------------------------------------------------

LEMMA ChainFacts ==
    ASSUME NEW c \in Chains
    PROVE  /\ c \in [Heights -> Block]
           /\ \A h \in Heights : c[h].epoch \in Epochs
           /\ \A h \in Heights : c[h].sent \subseteq Packets
           /\ \A h \in Heights : c[h].received \subseteq Packets
           /\ \A h \in Heights : c[h].acked \subseteq Packets
           /\ \A h \in Heights : c[h].relays \in Seq(Relay)
  BY ChainAssumption DEF Block

\* The counters a block adds to a row are natural numbers.
LEMMA CountsAreNatural ==
    ASSUME NEW c \in Chains, NEW h \in Heights, NEW t
    PROVE  Deposited(c[h], t) \in Nat /\ Withdrawn(c[h], t) \in Nat
<1>1. ASSUME NEW S, S \subseteq Packets
      PROVE  IsFiniteSet(Moved(S, t)) /\ Cardinality(Moved(S, t)) \in Nat
  <2>1. Moved(S, t) \in SUBSET Packets
    BY <1>1 DEF Moved
  <2>2. IsFiniteSet(Moved(S, t))
    BY <2>1, FS_Subset, BoundsAssumption
  <2> QED
    BY <2>2, FS_CardinalityType
<1>2. QED
  BY <1>1, ChainFacts DEF Deposited, Withdrawn

-----------------------------------------------------------------------------
(* Type correctness.                                                       *)

LEMMA NewRowsTyped ==
    ASSUME TypeOK, index \in Heights
    PROVE  /\ AckRows(chain[index]) \in [Packets -> Status \cup {"none"}]
           /\ FlowRows(chain[index]) \in [Tokens -> [Epochs -> [deposit : Nat, withdraw : Nat]]]
           /\ KindOf(chain[index]) \in {"known", "unknown"}
<1> DEFINE b == chain[index]
<1>1. b \in Block /\ b.relays \in Seq(Relay) /\ b.epoch \in Epochs
  BY ChainFacts DEF TypeOK, Block
<1>2. ASSUME NEW p \in Packets
      PROVE  AckRows(b)[p] \in Status \cup {"none"}
  <2> DEFINE acks == {i \in AcksOf(b) : b.relays[i].packet = p}
             row  == IF p \in b.sent THEN "unknown" ELSE ibcAck[p]
             last == CHOOSE i \in acks : \A j \in acks : j <= i
  <2>1. row \in Status \cup {"none"}
    BY DEF TypeOK, Status
  <2>2. CASE acks = {} \/ row = "none"
    BY <2>1, <2>2 DEF AckRows
  <2>3. CASE ~(acks = {} \/ row = "none")
    <3>1. acks # {} /\ Len(b.relays) \in Nat /\ acks \in SUBSET (0..Len(b.relays))
      <4>1. DOMAIN b.relays = 1..Len(b.relays) /\ Len(b.relays) \in Nat
        BY <1>1
      <4>2. acks \subseteq 0..Len(b.relays)
        BY <4>1 DEF AcksOf
      <4> QED
        BY <2>3, <4>1, <4>2
    <3>2. last \in acks
      <4>1. \E i \in acks : \A j \in acks : j <= i
        <5> HIDE DEF acks
        <5> QED
          BY <3>1, GreatestElement
      <4> QED
        BY <4>1
    <3>3. b.relays[last].status \in Status
      <4>1. last \in DOMAIN b.relays
        BY <3>2 DEF AcksOf
      <4> HIDE DEF last
      <4>2. b.relays[last] \in Relay
        BY <1>1, <4>1
      <4> QED
        BY <4>2 DEF Relay
    <3> QED
      BY <2>3, <3>3 DEF AckRows
  <2> QED
    BY <2>2, <2>3
<1>3. ASSUME NEW t \in Tokens, NEW e \in Epochs
      PROVE  FlowRows(b)[t][e] \in [deposit : Nat, withdraw : Nat]
  <2>1. Deposited(b, t) \in Nat /\ Withdrawn(b, t) \in Nat
    BY CountsAreNatural DEF TypeOK
  <2>2. flows[t][e] \in [deposit : Nat, withdraw : Nat]
    BY DEF TypeOK
  <2> QED
    BY <2>1, <2>2 DEF FlowRows
<1>4. AckRows(b) \in [Packets -> Status \cup {"none"}]
  BY <1>2 DEF AckRows
<1>5. FlowRows(b) \in [Tokens -> [Epochs -> [deposit : Nat, withdraw : Nat]]]
  BY <1>3 DEF FlowRows
<1> QED
  BY <1>4, <1>5 DEF KindOf

\* The checksums a process takes are those of some epoch.
LEMMA LatestCodeTyped ==
    ASSUME TypeOK, tip > 0
    PROVE  LatestCode \in {CodeOf[e] : e \in Epochs}
<1>1. tip \in Heights /\ chain[tip].epoch \in Epochs
  BY ChainFacts DEF TypeOK, Heights
<1> QED
  BY <1>1 DEF LatestCode, CurrentEpoch

LEMMA NextBlockTyped ==
    ASSUME TypeOK
    PROVE  NextBlock \in Nat /\ NextBlock >= FromBlock
  BY BoundsAssumption DEF TypeOK, NextBlock, Heights

Phases == {"epoch", "refresh", "commit"}

\* An attempt ends at the same index, at the next one, or in no process.
Leaves ==
    \/ Gone
    \/ task' = "poll" /\ index' = index + 1 /\ mustExit' = mustExit
    \/ task' = "poll" /\ index' = index /\ mustExit' = mustExit

LEMMA FailLeaves == ASSUME NEW error, FailWith(error) PROVE Leaves
  BY DEF FailWith, NextIndex, Retry, Leaves

\* An attempt that got past `poll` is at a block the chain has; streams begin at 1.
AtBlock ==
    /\ task \in Phases => index \in 1..tip
    /\ task # "down" => index >= 1

\* The loop's variables after an attempt ended.
LoopTyped ==
    /\ task \in {"down", "poll", "epoch", "refresh", "commit"}
    /\ index \in Nat
    /\ mustExit \in BOOLEAN
    /\ AtBlock

LEMMA LeavesTyped ==
    ASSUME TypeOK, AtBlock, task # "down", Leaves
    PROVE  LoopTyped'
<1>1. /\ task' \in {"down", "poll"} /\ index' \in Nat /\ mustExit' \in BOOLEAN
      /\ task' # "down" => index' >= 1
  <2>1. index \in Nat /\ index >= 1 /\ mustExit \in BOOLEAN
    BY DEF TypeOK, AtBlock
  <2>2. mustExit' \in BOOLEAN
    BY <2>1, Zenon DEF Leaves, Gone
  <2>3. /\ task' \in {"down", "poll"} /\ index' \in Nat
        /\ task' # "down" => index' >= 1
    BY <2>1, SMT DEF Leaves, Gone
  <2> QED
    BY <2>2, <2>3
<1> QED
  BY <1>1 DEF LoopTyped, AtBlock, Phases

LEMMA StartTyped ==
    ASSUME TypeOK, NEW first \in Nat, first >= 1, NEW backfill \in BOOLEAN,
           Start(first, backfill)
    PROVE  /\ LoopTyped'
           /\ UNCHANGED <<chain, tip, crawlerState, rows, ibcAck, flows, tokenRows>>
           /\ checksums' \in {CodeOf[e] : e \in Epochs}
           /\ backfilling' \in BOOLEAN
           /\ conn' \in {"up", "lost"}
<1>1. LoopTyped'
  BY DEF Start, CrawlFrom, LoopTyped, AtBlock, Phases
<1>2. checksums' \in {CodeOf[e] : e \in Epochs}
  BY LatestCodeTyped DEF Start
<1> QED
  BY <1>1, <1>2 DEF Start, node, database

\* What the typed state and the position of the attempt give to every write.
LEMMA WriteTyped ==
    ASSUME TypeOK, AtBlock, WriteBlock
    PROVE  /\ index \in Heights
           /\ crawlerState' \in 0..MaxHeight
           /\ rows' \in [Heights -> {"none", "known", "unknown"}]
           /\ ibcAck' \in [Packets -> Status \cup {"none"}]
           /\ flows' \in [Tokens -> [Epochs -> [deposit : Nat, withdraw : Nat]]]
<1>1. index \in Heights
  BY BoundsAssumption DEF AtBlock, WriteBlock, Phases, TypeOK, Heights
<1>2. crawlerState' \in 0..MaxHeight
  BY <1>1, BoundsAssumption DEF WriteBlock, Recorded, TypeOK, Heights
<1>3. rows' \in [Heights -> {"none", "known", "unknown"}]
  BY <1>1, NewRowsTyped DEF WriteBlock, TypeOK
<1>4. /\ ibcAck' \in [Packets -> Status \cup {"none"}]
      /\ flows' \in [Tokens -> [Epochs -> [deposit : Nat, withdraw : Nat]]]
  BY <1>1, NewRowsTyped DEF WriteBlock
<1> QED
  BY <1>1, <1>2, <1>3, <1>4

LEMMA TypeStep ==
    ASSUME TypeOK, AtBlock, [Next]_vars
    PROVE  TypeOK' /\ AtBlock'
<1> USE DEF TypeOK
<1>1. CASE Grow
  BY <1>1, BoundsAssumption DEF Grow, AtBlock, Phases, crawlVars, process, database
<1>2. ASSUME NEW t \in Tokens, TokenIndexed(t)
      PROVE  TypeOK' /\ AtBlock'
  BY <1>2 DEF TokenIndexed, AtBlock, Phases, crawlVars, node, process
<1>3. CASE StartNormal
  <2>1. NextBlock \in Nat /\ NextBlock >= 1
    BY NextBlockTyped, BoundsAssumption DEF Heights
  <2>2. Start(NextBlock, FALSE) /\ UNCHANGED backfills
    BY <1>3 DEF StartNormal
  <2> QED
    BY <2>1, <2>2, StartTyped DEF LoopTyped
<1>4. ASSUME NEW h \in Heights, StartBackfill(h)
      PROVE  TypeOK' /\ AtBlock'
  <2>1. h \in Nat /\ h >= 1
    BY DEF Heights
  <2>2. Start(h, TRUE) /\ backfills < MaxBackfills /\ backfills' = backfills + 1
    BY <1>4 DEF StartBackfill
  <2>3. backfills' \in 0..MaxBackfills
    BY <2>2, BoundsAssumption
  <2> QED
    BY <2>1, <2>2, <2>3, StartTyped DEF LoopTyped
<1>5. CASE Work
  <2>1. CASE ReadBlock
    BY <2>1 DEF ReadBlock, Proceed, AtBlock, Phases, node, process, database
  <2>2. CASE ReadFirstBlock
    BY <2>2 DEF ReadFirstBlock, Proceed, AtBlock, Phases, node, process, database
  <2>3. CASE RefreshChecksums
    <3>1. tip > 0
      BY <2>3 DEF RefreshChecksums, AtBlock, Phases
    <3> QED
      BY <2>3, <3>1, LatestCodeTyped DEF RefreshChecksums, Proceed, AtBlock, Phases, node, database
  <2>4. CASE Commit
    <3>1. WriteBlock /\ NextIndex /\ UNCHANGED conn
      BY <2>4 DEF Commit
    <3>2. Leaves
      BY <3>1 DEF NextIndex, Leaves
    <3>3. task # "down" /\ UNCHANGED <<chain, tip, checksums, backfilling, tokenRows, backfills>>
      BY <3>1 DEF WriteBlock, node
    <3> QED
      BY <3>1, <3>2, <3>3, WriteTyped, LeavesTyped DEF LoopTyped
  <2>5. CASE CommitUnheard
    <3>1. WriteBlock /\ FailWith("Database") /\ conn' = "lost"
      BY <2>5 DEF CommitUnheard
    <3>2. Leaves
      BY <3>1, FailLeaves
    <3>3. task # "down" /\ UNCHANGED <<chain, tip, checksums, backfilling, tokenRows, backfills>>
      BY <3>1 DEF WriteBlock, node
    <3> QED
      BY <3>1, <3>2, <3>3, WriteTyped, LeavesTyped DEF LoopTyped
  <2>6. CASE CommitRejected
    <3>1. Leaves
      BY <2>6, FailLeaves DEF CommitRejected
    <3> QED
      BY <2>6, <3>1, LeavesTyped
         DEF CommitRejected, LoopTyped, node, process, database
  <2>7. CASE AttemptFails
    <3>1. Leaves
      BY <2>7, FailLeaves DEF AttemptFails
    <3> QED
      BY <2>7, <3>1, LeavesTyped
         DEF AttemptFails, LoopTyped, node, process, database
  <2> QED
    BY <1>5, <2>1, <2>2, <2>3, <2>4, <2>5, <2>6, <2>7 DEF Work
<1>6. CASE ConnectionLost
  BY <1>6 DEF ConnectionLost, crawlVars, AtBlock, Phases, node, database
<1>7. CASE Signal
  BY <1>7 DEF Signal, CtrlC, AtBlock, Phases, node, process, database
<1>8. CASE Killed
  BY <1>8 DEF Killed, Crash, AtBlock, Phases, Gone, node, process, database
<1>9. CASE UNCHANGED vars
  BY <1>9 DEF vars, crawlVars, AtBlock, Phases, node, process, database
<1> QED
  BY <1>1, <1>2, <1>3, <1>4, <1>5, <1>6, <1>7, <1>8, <1>9 DEF Next

LEMMA TypeInit == Init => TypeOK /\ AtBlock
<1> SUFFICES ASSUME Init PROVE TypeOK /\ AtBlock
  OBVIOUS
<1>1. checksums \in {CodeOf[e] : e \in Epochs}
  BY ChainFacts, BoundsAssumption DEF Init
<1>2. tip \in 0..MaxHeight
  BY BoundsAssumption DEF Init, Heights
<1>3. flows \in [Tokens -> [Epochs -> [deposit : Nat, withdraw : Nat]]]
  BY DEF Init, NoFlows
<1>4. /\ rows \in [Heights -> {"none", "known", "unknown"}]
      /\ ibcAck \in [Packets -> Status \cup {"none"}]
      /\ crawlerState \in 0..MaxHeight
      /\ backfills \in 0..MaxBackfills
  BY BoundsAssumption DEF Init
<1> QED
  BY <1>1, <1>2, <1>3, <1>4 DEF Init, CrawlInit, TypeOK, AtBlock, Phases

\* Every reachable state has the types of TypeOK: the crawler never leaves its
\* phases, and the rows it writes are statuses and natural numbers.
THEOREM TypeCorrect == Spec => []TypeOK
<1>1. Init => TypeOK /\ AtBlock
  BY TypeInit
<1>2. TypeOK /\ AtBlock /\ [Next]_vars => TypeOK' /\ AtBlock'
  BY TypeStep
<1> QED
  BY <1>1, <1>2, PTL DEF Spec

-----------------------------------------------------------------------------
(* The indexed blocks are a prefix.  The invariant that is inductive says  *)
(* where a process that can still write is (WorksOnNextBlock), where it    *)
(* may start (AtBlock, Floor) and that only a backfill is an exception.    *)

Floor ==
    /\ crawlerState = 0 \/ crawlerState >= FromBlock
    /\ backfilling => backfills > 0

PrefixInv == TypeOK /\ AtBlock /\ Floor /\ IndexedPrefix /\ WorksOnNextBlock

\* A step that writes no block keeps the prefix.
LEMMA PrefixKept ==
    ASSUME PrefixInv, UNCHANGED <<crawlerState, rows>>, tip' \in Nat, tip' >= tip,
           backfills' = backfills \/ backfills' # 0,
           backfilling' => backfills' > 0
    PROVE  Floor' /\ IndexedPrefix' /\ NextBlock' = NextBlock
<1>1. Indexed' = Indexed /\ crawlerState' = crawlerState
  BY DEF Indexed
<1>2. crawlerState' <= tip'
  BY <1>1, BoundsAssumption DEF PrefixInv, TypeOK, IndexedPrefix
<1> QED
  BY <1>1, <1>2 DEF PrefixInv, Floor, IndexedPrefix, NextBlock

\* A write adds the block of the attempt, and nothing else.
LEMMA WriteAdds ==
    ASSUME PrefixInv, WriteBlock
    PROVE  index \in Heights /\ Indexed' = Indexed \cup {index}
<1>1. index \in Heights
  BY WriteTyped DEF PrefixInv
<1>2. rows' = [rows EXCEPT ![index] = KindOf(chain[index])]
      /\ KindOf(chain[index]) # "none"
  BY DEF WriteBlock, KindOf
<1>3. rows \in [Heights -> {"none", "known", "unknown"}]
  BY DEF PrefixInv, TypeOK
<1> QED
  BY <1>1, <1>2, <1>3 DEF Indexed

\* The block an ordinary process writes is the one after the prefix.
LEMMA WriteExtends ==
    ASSUME PrefixInv, WriteBlock
    PROVE  /\ Floor' /\ IndexedPrefix'
           /\ ~backfilling => NextBlock' = index + 1
           /\ backfills = 0 => index >= FromBlock /\ Indexed = FromBlock..(index - 1)
<1> USE DEF PrefixInv
<1>1. index \in Heights /\ index \in 1..tip /\ Indexed' = Indexed \cup {index}
  BY WriteAdds DEF AtBlock, Phases, WriteBlock
<1>2. UNCHANGED <<tip, backfills, backfilling>>
  BY DEF WriteBlock, node
<1>3. /\ FromBlock \in Nat \ {0} /\ tip \in Nat /\ crawlerState \in Nat
      /\ MaxHeight \in Nat /\ backfills \in Nat
  BY BoundsAssumption DEF TypeOK, Heights
<1>4. CASE backfilling
  <2>1. crawlerState' = crawlerState /\ backfills > 0
    BY <1>4 DEF WriteBlock, Recorded, Floor
  <2>2. Floor'
    BY <2>1, <1>2, <1>4 DEF Floor
  <2>3. IndexedPrefix'
    BY <2>1, <1>1, <1>2, <1>3 DEF IndexedPrefix
  <2> QED
    BY <2>1, <2>2, <2>3, <1>3, <1>4
<1>5. CASE ~backfilling
  <2>1. crawlerState' = index /\ index = NextBlock
    BY <1>5 DEF WriteBlock, Recorded, WorksOnNextBlock
  <2>2. \/ crawlerState = 0 /\ index = FromBlock
        \/ crawlerState >= FromBlock /\ index = crawlerState + 1
    BY <2>1, <1>3 DEF NextBlock, Floor
  <2>3. index >= FromBlock /\ FromBlock..crawlerState = FromBlock..(index - 1)
    BY <2>2, <1>3
  <2>4. FromBlock..index = (FromBlock..crawlerState) \cup {index}
    BY <2>2, <1>1, <1>3
  <2>5. Floor'
    BY <2>1, <2>3, <1>2, <1>5 DEF Floor
  <2>6. IndexedPrefix'
    <3>1. FromBlock..crawlerState \subseteq Indexed
          /\ (backfills = 0 => Indexed = FromBlock..crawlerState)
      BY DEF IndexedPrefix
    <3>2. crawlerState' <= tip'
      BY <2>1, <1>1, <1>2
    <3>3. FromBlock..crawlerState' \subseteq Indexed'
          /\ (backfills' = 0 => Indexed' = FromBlock..crawlerState')
      BY <3>1, <2>1, <2>4, <1>1, <1>2
    <3> QED
      BY <3>2, <3>3 DEF IndexedPrefix
  <2>7. NextBlock' = index + 1
    BY <2>1, <2>3, <1>1, <1>3 DEF NextBlock
  <2> QED
    BY <2>3, <2>5, <2>6, <2>7 DEF IndexedPrefix
<1> QED
  BY <1>4, <1>5

LEMMA PrefixStep ==
    ASSUME PrefixInv, [Next]_vars
    PROVE  Floor' /\ IndexedPrefix' /\ WorksOnNextBlock'
<1> USE DEF PrefixInv
<1>1. tip \in Nat /\ backfills \in Nat
  BY BoundsAssumption DEF TypeOK
<1>2. ASSUME UNCHANGED <<crawlerState, rows, backfilling, backfills>>,
             tip' \in Nat, tip' >= tip,
             \/ task' = "down" \/ conn' # "up"
             \/ task # "down" /\ conn = "up" /\ index' = index
      PROVE  Floor' /\ IndexedPrefix' /\ WorksOnNextBlock'
  <2>1. Floor' /\ IndexedPrefix' /\ NextBlock' = NextBlock
    BY <1>2, PrefixKept DEF Floor
  <2> QED
    BY <1>2, <2>1 DEF WorksOnNextBlock
<1>3. CASE Grow
  <2>1. task = "down" \/ task # "down"
    OBVIOUS
  <2>2. tip' = tip + 1 /\ UNCHANGED <<task, index, conn, crawlerState, rows, backfilling, backfills>>
    BY <1>3 DEF Grow, crawlVars, process, database
  <2>3. tip' \in Nat /\ tip' >= tip
    BY <2>2, <1>1
  <2>4. conn # "up" \/ conn = "up"
    OBVIOUS
  <2> QED
    BY <2>2, <2>3, <1>2
<1>4. ASSUME NEW t \in Tokens, TokenIndexed(t)
      PROVE  Floor' /\ IndexedPrefix' /\ WorksOnNextBlock'
  <2>1. UNCHANGED <<tip, task, index, conn, crawlerState, rows, backfilling, backfills>>
    BY <1>4 DEF TokenIndexed, crawlVars, node, process
  <2> QED
    BY <2>1, <1>1, <1>2
<1>5. CASE StartNormal
  <2>1. /\ UNCHANGED <<tip, crawlerState, rows, backfills>>
        /\ backfilling' = FALSE /\ index' = NextBlock
    BY <1>5 DEF StartNormal, Start, CrawlFrom, node, database
  <2>2. Floor' /\ IndexedPrefix' /\ NextBlock' = NextBlock
    BY <2>1, <1>1, PrefixKept
  <2> QED
    BY <2>1, <2>2 DEF WorksOnNextBlock
<1>6. ASSUME NEW h \in Heights, StartBackfill(h)
      PROVE  Floor' /\ IndexedPrefix' /\ WorksOnNextBlock'
  <2>1. /\ UNCHANGED <<tip, crawlerState, rows>>
        /\ backfilling' = TRUE /\ backfills' = backfills + 1
    BY <1>6 DEF StartBackfill, Start, node, database
  <2>2. Floor' /\ IndexedPrefix' /\ NextBlock' = NextBlock
    BY <2>1, <1>1, PrefixKept
  <2> QED
    BY <2>1, <2>2 DEF WorksOnNextBlock
<1>7. CASE Work
  <2>1. CASE ReadBlock
    BY <2>1, <1>1, <1>2 DEF ReadBlock, Proceed, node, process, database
  <2>2. CASE ReadFirstBlock
    <3>1. UNCHANGED <<tip, index, conn, crawlerState, rows, backfilling, backfills>> /\ task # "down"
      BY <2>2 DEF ReadFirstBlock, Proceed, node, process, database
    <3> QED
      BY <3>1, <1>1, <1>2
  <2>3. CASE RefreshChecksums
    <3>1. UNCHANGED <<tip, index, conn, crawlerState, rows, backfilling, backfills>> /\ task # "down"
      BY <2>3 DEF RefreshChecksums, Proceed, node, database
    <3> QED
      BY <3>1, <1>1, <1>2
  <2>4. CASE Commit
    <3>1. WriteBlock /\ NextIndex /\ UNCHANGED <<conn, backfilling>>
      BY <2>4 DEF Commit, WriteBlock
    <3>2. task' = "down" \/ index' = index + 1
      BY <3>1 DEF NextIndex, Gone
    <3> QED
      BY <3>1, <3>2, WriteExtends DEF WorksOnNextBlock
  <2>5. CASE CommitUnheard
    BY <2>5, WriteExtends DEF CommitUnheard, WorksOnNextBlock
  <2>6. CASE CommitRejected
    <3>1. UNCHANGED <<tip, conn, crawlerState, rows, backfilling, backfills>> /\ task # "down"
      BY <2>6 DEF CommitRejected, node, process, database
    <3>2. task' = "down" \/ index' = index
      BY <2>6 DEF CommitRejected, FailWith, Retryable, NextIndex, Retry, Gone
    <3> QED
      BY <3>1, <3>2, <1>1, <1>2
  <2>7. CASE AttemptFails
    <3>1. UNCHANGED <<tip, conn, crawlerState, rows, backfilling, backfills>> /\ task # "down"
      BY <2>7 DEF AttemptFails, node, process, database
    <3>2. task' = "down" \/ index' = index
      BY <2>7 DEF AttemptFails, FailWith, Retryable, NextIndex, Retry, Gone
    <3> QED
      BY <3>1, <3>2, <1>1, <1>2
  <2> QED
    BY <1>7, <2>1, <2>2, <2>3, <2>4, <2>5, <2>6, <2>7 DEF Work
<1>8. CASE ConnectionLost
  BY <1>8, <1>1, <1>2 DEF ConnectionLost, crawlVars, node, database
<1>9. CASE Signal
  BY <1>9, <1>1, <1>2 DEF Signal, CtrlC, node, process, database
<1>10. CASE Killed
  BY <1>10, <1>1, <1>2 DEF Killed, Crash, Gone, node, process, database
<1>11. CASE UNCHANGED vars
  <2>1. UNCHANGED <<tip, task, index, conn, crawlerState, rows, backfilling, backfills>>
    BY <1>11 DEF vars, crawlVars, node, process, database
  <2> QED
    BY <2>1, <1>1, <1>2
<1> QED
  BY <1>3, <1>4, <1>5, <1>6, <1>7, <1>8, <1>9, <1>10, <1>11 DEF Next

LEMMA PrefixInit == Init => PrefixInv
<1> SUFFICES ASSUME Init PROVE PrefixInv
  OBVIOUS
<1>1. TypeOK /\ AtBlock
  BY TypeInit
<1>2. FromBlock \in Nat \ {0}
  BY BoundsAssumption DEF Heights
<1>3. Indexed = {} /\ FromBlock..crawlerState = {}
  BY <1>2 DEF Init, Indexed
<1>4. crawlerState <= tip
  BY <1>2 DEF Init
<1> QED
  BY <1>1, <1>3, <1>4 DEF Init, CrawlInit, PrefixInv, Floor, IndexedPrefix, WorksOnNextBlock

LEMMA PrefixInvariant == Spec => []PrefixInv
<1>1. PrefixInv /\ [Next]_vars => PrefixInv'
  BY PrefixStep, TypeStep DEF PrefixInv
<1> QED
  BY <1>1, PrefixInit, PTL DEF Spec

\* Through failures, crashes, restarts and unheard commits the indexed blocks are
\* those from the first up to last_processed_block; a backfill leaves no gap.
THEOREM PrefixCorrect == Spec => []IndexedPrefix
<1>1. PrefixInv => IndexedPrefix
  BY DEF PrefixInv
<1> QED
  BY <1>1, PrefixInvariant, PTL

\* A process whose connection holds is at the block after the recorded one.
THEOREM PositionCorrect == Spec => []WorksOnNextBlock
<1>1. PrefixInv => WorksOnNextBlock
  BY DEF PrefixInv
<1> QED
  BY <1>1, PrefixInvariant, PTL

-----------------------------------------------------------------------------
(* Without backfills the crawler implements SequentialIndexer.             *)

LEMMA StepRefines ==
    ASSUME PrefixInv, backfills = 0, [Next]_vars
    PROVE  [Sequential!Next]_<<tip, Indexed>>
<1> USE DEF PrefixInv
<1>1. ASSUME UNCHANGED <<tip, rows>>
      PROVE  [Sequential!Next]_<<tip, Indexed>>
  BY <1>1 DEF Indexed
<1>2. CASE Grow
  BY <1>2 DEF Grow, database, Indexed, Sequential!Next, Sequential!Grow
<1>3. ASSUME WriteBlock
      PROVE  Sequential!IndexNext
  <2>1. /\ Indexed' = Indexed \cup {index}
        /\ index >= FromBlock /\ Indexed = FromBlock..(index - 1)
    BY <1>3, WriteAdds, WriteExtends
  <2>2. index \in FromBlock..tip /\ tip' = tip
    BY <1>3, <2>1 DEF WriteBlock, AtBlock, Phases, node
  <2> QED
    BY <2>1, <2>2 DEF Sequential!IndexNext
<1>4. ASSUME NEW t \in Tokens, TokenIndexed(t)
      PROVE  UNCHANGED <<tip, rows>>
  BY <1>4 DEF TokenIndexed, node
<1>5. ASSUME StartNormal \/ \E h \in Heights : StartBackfill(h)
      PROVE  UNCHANGED <<tip, rows>>
  BY <1>5 DEF StartNormal, StartBackfill, Start, node, database
<1>6. CASE Work
  <2>1. CASE ReadBlock \/ ReadFirstBlock \/ RefreshChecksums
    BY <2>1, <1>1 DEF ReadBlock, ReadFirstBlock, RefreshChecksums, node, database
  <2>2. CASE CommitRejected \/ AttemptFails
    BY <2>2, <1>1 DEF CommitRejected, AttemptFails, node, database
  <2>3. CASE Commit \/ CommitUnheard
    BY <2>3, <1>3 DEF Commit, CommitUnheard, Sequential!Next
  <2> QED
    BY <1>6, <2>1, <2>2, <2>3 DEF Work
<1>7. CASE ConnectionLost \/ Signal \/ Killed
  BY <1>7, <1>1 DEF ConnectionLost, Signal, Killed, node, database
<1>8. CASE UNCHANGED vars
  BY <1>8, <1>1 DEF vars, node, database
<1> QED
  BY <1>1, <1>2, <1>4, <1>5, <1>6, <1>7, <1>8 DEF Next

LEMMA NoBackfills == ASSUME MaxBackfills = 0 PROVE Spec => [](backfills = 0)
<1>1. TypeOK => backfills = 0
  BY DEF TypeOK
<1> QED
  BY <1>1, TypeCorrect, PTL

\* The crawler implements the sequential indexer: whatever fails and however
\* often it is restarted, the database goes from one prefix of the chain to the
\* next, one block at a time.
THEOREM CrawlerRefines ==
    ASSUME MaxBackfills = 0
    PROVE  Spec => RefinesSequential
<1>1. Init => Sequential!Init
  BY PrefixInit, BoundsAssumption DEF Init, PrefixInv, IndexedPrefix, Indexed, Sequential!Init, Heights
<1>2. PrefixInv /\ backfills = 0 /\ [Next]_vars => [Sequential!Next]_<<tip, Indexed>>
  BY StepRefines
<1> QED
  BY <1>1, <1>2, PrefixInvariant, NoBackfills, PTL
     DEF Spec, RefinesSequential, Sequential!Spec

-----------------------------------------------------------------------------
(* An indexer that keeps pace decodes with the right checksums.  Only the  *)
(* attempt at the first block of the node's epoch refreshes them, so the   *)
(* argument is about the blocks after it: a process that is past the first *)
(* block of the node's epoch has refreshed its checksums in that epoch, or *)
(* was started in it.                                                      *)

\* The process is past the first block of the node's current epoch.
PastFirst == \E g \in 1..(index - 1) : chain[g].epoch = CurrentEpoch

FreshInv ==
    /\ tip >= FromBlock - 1
    /\ (backfills = 0 /\ task # "down") =>
          /\ tip >= 1 /\ index <= tip + 1
          /\ (task = "commit" /\ chain[index].epoch = CurrentEpoch) => checksums = LatestCode
          /\ PastFirst => checksums = LatestCode

CodeInv == PrefixInv /\ FreshInv

-----------------------------------------------------------------------------

LEMMA EpochsGrow ==
    ASSUME NEW c \in Chains, NEW g \in Heights, NEW h \in Heights, g <= h
    PROVE  /\ c[g].epoch \in Nat /\ c[h].epoch \in Nat
           /\ c[g].epoch <= c[h].epoch
<1>1. c[g].epoch \in Nat /\ c[h].epoch \in Nat
  BY ChainFacts, BoundsAssumption
<1>2. CASE g = h
  BY <1>1, <1>2
<1>3. CASE g < h
  <2>1. c[g].epoch <= c[h].epoch
    BY <1>3, ChainAssumption
  <2> QED
    BY <1>1, <2>1
<1> QED
  BY <1>2, <1>3 DEF Heights

\* The epochs between two heights of one epoch are that epoch.
LEMMA SameEpoch ==
    ASSUME NEW c \in Chains, NEW g \in Heights, NEW k \in Heights, NEW h \in Heights,
           g <= k, k <= h, c[g].epoch = c[h].epoch
    PROVE  c[k].epoch = c[h].epoch
<1>1. c[g].epoch <= c[k].epoch /\ c[k].epoch <= c[h].epoch
  BY EpochsGrow
<1>2. c[g].epoch \in Nat /\ c[k].epoch \in Nat /\ c[h].epoch \in Nat
  BY EpochsGrow
<1> QED
  BY <1>1, <1>2

\* A block of the node's epoch that no block of that epoch precedes is the first
\* one the node answers with.
LEMMA FirstIsFound ==
    ASSUME TypeOK, index \in 1..tip, chain[index].epoch = CurrentEpoch, ~PastFirst
    PROVE  FirstBlockInEpoch = index
<1> DEFINE P(h) == /\ chain[h].epoch = CurrentEpoch
                   /\ \A g \in 1..tip : chain[g].epoch = CurrentEpoch => h <= g
<1>1. tip \in Nat /\ index \in Nat
  BY BoundsAssumption DEF TypeOK
<1>2. \A g \in 1..tip : chain[g].epoch = CurrentEpoch => index <= g
  <2>1. SUFFICES ASSUME NEW g \in 1..tip, chain[g].epoch = CurrentEpoch, g < index
                 PROVE  FALSE
    BY <1>1
  <2>2. g \in 1..(index - 1)
    BY <1>1, <2>1
  <2> QED
    BY <2>1, <2>2 DEF PastFirst
<1>3. P(index)
  BY <1>2
<1>4. \A h \in 1..tip : P(h) => h = index
  BY <1>1, <1>3
<1>5. FirstBlockInEpoch = CHOOSE h \in 1..tip : P(h)
  BY DEF FirstBlockInEpoch
<1> HIDE DEF P
<1> QED
  BY <1>3, <1>4, <1>5

-----------------------------------------------------------------------------

\* Wherever the process goes next while the node stands still, it has the
\* checksums it needs.
LEMMA FreshKept ==
    ASSUME CodeInv, UNCHANGED <<chain, tip, checksums, backfills>>,
           task # "down", task' # "commit",
           task' = "down" \/ index' = index
    PROVE  FreshInv'
<1>1. CurrentEpoch' = CurrentEpoch /\ LatestCode' = LatestCode
  BY DEF CurrentEpoch, LatestCode
<1>2. index' = index => (PastFirst' <=> PastFirst)
  BY <1>1 DEF PastFirst
<1> QED
  BY <1>1, <1>2 DEF CodeInv, FreshInv

LEMMA FreshAfterWrite ==
    ASSUME CodeInv, WriteBlock, NextIndex \/ FailWith("Database")
    PROVE  FreshInv'
<1>1. /\ UNCHANGED <<chain, tip, checksums, backfills>>
      /\ task = "commit"
      /\ index \in 1..tip /\ tip \in Nat /\ chain \in Chains /\ tip <= MaxHeight
  BY BoundsAssumption DEF WriteBlock, node, CodeInv, PrefixInv, AtBlock, Phases, TypeOK
<1>2. \/ task' = "down"
      \/ task' = "poll" /\ (index' = index \/ index' = index + 1)
  BY DEF NextIndex, FailWith, Retry, Gone
<1>3. CurrentEpoch' = CurrentEpoch /\ LatestCode' = LatestCode
  BY <1>1 DEF CurrentEpoch, LatestCode
<1>4. ASSUME backfills' = 0, task' = "poll"
      PROVE  /\ tip' >= 1 /\ index' <= tip' + 1
             /\ PastFirst' => checksums' = LatestCode'
  <2>1. /\ chain[index].epoch = CurrentEpoch => checksums = LatestCode
        /\ PastFirst => checksums = LatestCode
    BY <1>1, <1>4 DEF CodeInv, FreshInv
  <2>2. tip' >= 1 /\ index' <= tip' + 1
    BY <1>1, <1>2, <1>4
  <2>3. ASSUME NEW g \in 1..(index' - 1), chain[g].epoch = CurrentEpoch
        PROVE  checksums = LatestCode
    <3>1. g \in 1..index
      BY <1>1, <1>2, <1>4
    <3>2. g \in Heights /\ index \in Heights /\ tip \in Heights /\ g <= index /\ index <= tip
      BY <1>1, <3>1, BoundsAssumption DEF Heights
    <3>3. chain[index].epoch = CurrentEpoch
      BY <1>1, <2>3, <3>2, SameEpoch DEF CurrentEpoch
    <3> QED
      BY <2>1, <3>3
  <2>4. PastFirst' => checksums' = LatestCode'
    BY <1>1, <1>3, <2>3 DEF PastFirst
  <2> QED
    BY <2>2, <2>4
<1>5. tip' >= FromBlock - 1
  BY <1>1 DEF CodeInv, FreshInv
<1> QED
  BY <1>2, <1>4, <1>5 DEF FreshInv

\* A new block of the same epoch needs the same checksums, and one of a new
\* epoch is ahead of the process.
LEMMA FreshGrows ==
    ASSUME CodeInv, Grow
    PROVE  FreshInv'
<1>1. /\ UNCHANGED <<chain, task, index, checksums, backfills>>
      /\ tip' = tip + 1 /\ tip' \in Heights
      /\ tip \in Nat /\ index \in Nat /\ chain \in Chains
  BY BoundsAssumption DEF Grow, crawlVars, process, CodeInv, PrefixInv, TypeOK, Heights
<1>2. tip' >= FromBlock - 1
  BY <1>1, BoundsAssumption DEF CodeInv, FreshInv, Heights
<1>3. ASSUME backfills = 0, task # "down"
      PROVE  /\ tip' >= 1 /\ index <= tip' + 1
             /\ (task = "commit" /\ chain[index].epoch = CurrentEpoch') => checksums = LatestCode'
             /\ PastFirst' => checksums = LatestCode'
  <2>1. /\ tip >= 1 /\ index <= tip + 1
        /\ (task = "commit" /\ chain[index].epoch = CurrentEpoch) => checksums = LatestCode
        /\ PastFirst => checksums = LatestCode
    BY <1>3 DEF CodeInv, FreshInv
  <2>2. tip \in Heights /\ tip <= tip'
    BY <1>1, <2>1, BoundsAssumption DEF Heights
  <2>3. ASSUME NEW g \in 1..tip, chain[g].epoch = CurrentEpoch'
        PROVE  CurrentEpoch' = CurrentEpoch /\ LatestCode' = LatestCode
    <3>1. g \in Heights /\ g <= tip
      BY <1>1, <2>2, <2>3, BoundsAssumption DEF Heights
    <3>2. chain[g].epoch = chain[tip'].epoch
      BY <1>1, <2>3 DEF CurrentEpoch
    <3>3. chain[tip].epoch = chain[tip'].epoch
      BY <1>1, <2>2, <3>1, <3>2, SameEpoch
    <3> QED
      BY <1>1, <3>3 DEF CurrentEpoch, LatestCode
  <2>4. ASSUME task = "commit", chain[index].epoch = CurrentEpoch'
        PROVE  checksums = LatestCode'
    <3>1. index \in 1..tip
      BY <2>4 DEF CodeInv, PrefixInv, AtBlock, Phases
    <3>2. CurrentEpoch' = CurrentEpoch /\ LatestCode' = LatestCode
      BY <2>3, <2>4, <3>1
    <3> QED
      BY <2>1, <2>4, <3>2
  <2>5. ASSUME PastFirst'
        PROVE  checksums = LatestCode'
    <3>1. PICK g \in 1..(index - 1) : chain[g].epoch = CurrentEpoch'
      BY <1>1, <2>5 DEF PastFirst
    <3>2. g \in 1..tip
      BY <1>1, <2>1, <3>1
    <3>3. CurrentEpoch' = CurrentEpoch /\ LatestCode' = LatestCode
      BY <2>3, <3>1, <3>2
    <3>4. PastFirst
      BY <3>1, <3>3 DEF PastFirst
    <3> QED
      BY <2>1, <3>3, <3>4
  <2> QED
    BY <1>1, <2>1, <2>2, <2>4, <2>5
<1> QED
  BY <1>1, <1>2, <1>3 DEF FreshInv

LEMMA FreshStarts ==
    ASSUME CodeInv, StartNormal
    PROVE  FreshInv'
<1>1. /\ UNCHANGED <<chain, tip>> /\ tip > 0 /\ tip \in Nat
      /\ task' = "poll" /\ index' = NextBlock /\ checksums' = LatestCode
      /\ tip >= FromBlock - 1
  BY BoundsAssumption DEF StartNormal, Start, CrawlFrom, node, CodeInv, PrefixInv, TypeOK, FreshInv
<1>2. crawlerState \in Nat /\ crawlerState <= tip /\ FromBlock \in Nat
  BY BoundsAssumption DEF CodeInv, PrefixInv, TypeOK, IndexedPrefix, Heights
<1>3. index' <= tip' + 1
  BY <1>1, <1>2 DEF NextBlock
<1>4. LatestCode' = LatestCode
  BY <1>1 DEF LatestCode, CurrentEpoch
<1> QED
  BY <1>1, <1>3, <1>4 DEF FreshInv

LEMMA FreshReads ==
    ASSUME CodeInv, ReadFirstBlock \/ RefreshChecksums
    PROVE  FreshInv'
<1>1. /\ UNCHANGED <<chain, tip, index, backfills>> /\ task' # "down"
      /\ task \in {"epoch", "refresh"}
      /\ index \in 1..tip /\ tip \in Nat
  BY BoundsAssumption DEF ReadFirstBlock, RefreshChecksums, Proceed, node, CodeInv, PrefixInv,
                          AtBlock, Phases, TypeOK
<1>2. CurrentEpoch' = CurrentEpoch /\ LatestCode' = LatestCode
  BY <1>1 DEF CurrentEpoch, LatestCode
<1>3. PastFirst' <=> PastFirst
  BY <1>1, <1>2 DEF PastFirst
<1>4. tip' >= FromBlock - 1
  BY <1>1 DEF CodeInv, FreshInv
<1>5. CASE RefreshChecksums
  <2>1. checksums' = LatestCode'
    BY <1>2, <1>5 DEF RefreshChecksums
  <2> QED
    BY <1>1, <1>4, <2>1 DEF FreshInv
<1>6. CASE ReadFirstBlock
  <2>1. checksums' = checksums
        /\ task' = IF FirstBlockInEpoch = index THEN "refresh" ELSE "commit"
    BY <1>6 DEF ReadFirstBlock, Proceed, process
  <2>2. ASSUME backfills = 0
        PROVE  PastFirst => checksums = LatestCode
    BY <1>1, <2>2 DEF CodeInv, FreshInv
  <2>3. ASSUME backfills = 0, task' = "commit", chain[index].epoch = CurrentEpoch
        PROVE  checksums = LatestCode
    <3>1. FirstBlockInEpoch # index
      BY <2>1, <2>3
    <3>2. PastFirst
      BY <1>1, <2>3, <3>1, FirstIsFound DEF CodeInv, PrefixInv
    <3> QED
      BY <2>2, <2>3, <3>2
  <2> QED
    BY <1>1, <1>2, <1>3, <1>4, <2>1, <2>2, <2>3 DEF FreshInv
<1> QED
  BY <1>5, <1>6

LEMMA FreshStep ==
    ASSUME CodeInv, [Next]_vars
    PROVE  FreshInv'
<1>1. ASSUME UNCHANGED <<chain, tip, task, index, checksums, backfills>>
      PROVE  FreshInv'
  BY <1>1 DEF CodeInv, FreshInv, PastFirst, CurrentEpoch, LatestCode
<1>2. CASE Grow
  BY <1>2, FreshGrows
<1>3. ASSUME NEW t \in Tokens, TokenIndexed(t)
      PROVE  FreshInv'
  BY <1>1, <1>3 DEF TokenIndexed, crawlVars, node, process
<1>4. CASE StartNormal
  BY <1>4, FreshStarts
<1>5. ASSUME NEW h \in Heights, StartBackfill(h)
      PROVE  FreshInv'
  <2>1. tip' = tip /\ backfills' = backfills + 1 /\ backfills \in Nat
    BY <1>5, BoundsAssumption DEF StartBackfill, Start, node, CodeInv, PrefixInv, TypeOK
  <2> QED
    BY <2>1 DEF CodeInv, FreshInv
<1>6. CASE Work
  <2>1. CASE ReadBlock
    <3>1. /\ UNCHANGED <<chain, tip, checksums, backfills, index>>
          /\ task # "down" /\ task' # "commit"
      BY <2>1 DEF ReadBlock, Proceed, node, process
    <3> QED
      BY <3>1, FreshKept
  <2>2. CASE ReadFirstBlock \/ RefreshChecksums
    BY <2>2, FreshReads
  <2>3. CASE Commit \/ CommitUnheard
    BY <2>3, FreshAfterWrite DEF Commit, CommitUnheard
  <2>4. CASE CommitRejected \/ AttemptFails
    <3>1. UNCHANGED <<chain, tip, checksums, backfills>> /\ task # "down"
      BY <2>4 DEF CommitRejected, AttemptFails, node, process
    <3>2. task' # "commit" /\ (task' = "down" \/ index' = index)
      BY <2>4 DEF CommitRejected, AttemptFails, FailWith, Retryable, NextIndex, Retry, Gone
    <3> QED
      BY <3>1, <3>2, FreshKept
  <2> QED
    BY <1>6, <2>1, <2>2, <2>3, <2>4 DEF Work
<1>7. CASE ConnectionLost
  BY <1>1, <1>7 DEF ConnectionLost, crawlVars, node
<1>8. CASE Signal
  BY <1>1, <1>8 DEF Signal, CtrlC, node, process
<1>9. CASE Killed
  <2>1. UNCHANGED <<chain, tip, checksums, backfills>> /\ task # "down" /\ task' = "down"
    BY <1>9 DEF Killed, Crash, Gone, node, process
  <2> QED
    BY <2>1, FreshKept
<1>10. CASE UNCHANGED vars
  BY <1>1, <1>10 DEF vars, crawlVars, node, process
<1> QED
  BY <1>2, <1>3, <1>4, <1>5, <1>6, <1>7, <1>8, <1>9, <1>10 DEF Next

\* A block of the node's epoch is written with the checksums of its epoch,
\* although only the first block of an epoch refreshes them: an indexer that was
\* behind skips the refresh, and has caught up with none of the later blocks.
THEOREM ChecksumsCorrect == Spec => []FreshChecksums
<1>1. Init => CodeInv
  BY PrefixInit DEF CodeInv, FreshInv, Init, CrawlInit
<1>2. CodeInv /\ [Next]_vars => CodeInv'
  BY FreshStep, PrefixStep, TypeStep DEF CodeInv, PrefixInv
<1>3. CodeInv => FreshChecksums
  BY DEF CodeInv, FreshInv, FreshChecksums
<1> QED
  BY <1>1, <1>2, <1>3, PTL DEF Spec

-----------------------------------------------------------------------------
(* What the rows of the transactions indexer say of the indexed blocks:    *)
(* which packets have a row, what the flows count, and what the status of  *)
(* a packet is.  Only WriteBlock touches those rows, so each proof is      *)
(* about what one more block adds to the sets the rows describe.           *)

\* Whatever else happens leaves the rows alone, and no step takes back a backfill.
LEMMA OnlyWritesTouchRows ==
    ASSUME TypeOK, [Next]_vars
    PROVE  /\ \/ WriteBlock
              \/ UNCHANGED <<rows, ibcAck, flows>>
           /\ chain' = chain
           /\ backfills' = 0 => backfills = 0
<1>0. backfills \in Nat
  BY DEF TypeOK
<1>1. ASSUME UNCHANGED <<chain, rows, ibcAck, flows, backfills>>
      PROVE  /\ WriteBlock \/ UNCHANGED <<rows, ibcAck, flows>>
             /\ chain' = chain
             /\ backfills' = 0 => backfills = 0
  BY <1>1
<1>2. CASE Grow
  BY <1>1, <1>2 DEF Grow, database
<1>3. ASSUME NEW t \in Tokens, TokenIndexed(t)
      PROVE  UNCHANGED <<chain, rows, ibcAck, flows, backfills>>
  BY <1>3 DEF TokenIndexed, node
<1>4. CASE StartNormal
  BY <1>1, <1>4 DEF StartNormal, Start, node, database
<1>5. ASSUME NEW h \in Heights, StartBackfill(h)
      PROVE  UNCHANGED <<chain, rows, ibcAck, flows>> /\ backfills' # 0
  BY <1>0, <1>5 DEF StartBackfill, Start, node, database
<1>6. CASE Work
  <2>1. CASE Commit \/ CommitUnheard
    BY <2>1 DEF Commit, CommitUnheard, WriteBlock, node
  <2>2. CASE ~(Commit \/ CommitUnheard)
    BY <1>1, <1>6, <2>2 DEF Work, ReadBlock, ReadFirstBlock, RefreshChecksums, CommitRejected,
                            AttemptFails, node, database
  <2> QED
    BY <2>1, <2>2
<1>7. CASE ConnectionLost \/ Signal \/ Killed \/ UNCHANGED vars
  BY <1>1, <1>7 DEF ConnectionLost, Signal, Killed, vars, node, database
<1> QED
  BY <1>1, <1>2, <1>3, <1>4, <1>5, <1>6, <1>7 DEF Next

-----------------------------------------------------------------------------
(* A row for every packet sent.                                            *)

\* The row of a packet when the acknowledgements of the block are applied.
RowBefore(b, p) == IF p \in b.sent THEN "unknown" ELSE ibcAck[p]

\* A row ends up as it was, or with the status one of its decoded answers carries.
LEMMA AckRow ==
    ASSUME TypeOK, index \in Heights, NEW p \in Packets
    PROVE  LET b == chain[index] IN
           \/ /\ \A i \in AcksOf(b) : b.relays[i].packet # p
              /\ AckRows(b)[p] = RowBefore(b, p)
           \/ RowBefore(b, p) = "none" /\ AckRows(b)[p] = "none"
           \/ /\ RowBefore(b, p) # "none"
              /\ \E i \in AcksOf(b) : /\ b.relays[i] \in Relay
                                      /\ b.relays[i].packet = p
                                      /\ AckRows(b)[p] = b.relays[i].status
<1> DEFINE b == chain[index]
           acks == {i \in AcksOf(b) : b.relays[i].packet = p}
           last == CHOOSE i \in acks : \A j \in acks : j <= i
<1>1. AckRows(b)[p] = IF acks = {} \/ RowBefore(b, p) = "none" THEN RowBefore(b, p)
                      ELSE b.relays[last].status
  BY DEF AckRows, RowBefore
<1>2. ASSUME acks # {}
      PROVE  last \in acks
  <2>1. b.relays \in Seq(Relay)
    BY ChainFacts DEF TypeOK
  <2>2. Len(b.relays) \in Nat /\ acks \in SUBSET (0..Len(b.relays))
    BY <2>1 DEF AcksOf
  <2>3. \E i \in acks : \A j \in acks : j <= i
    <3> HIDE DEF acks
    <3> QED
      BY <1>2, <2>2, GreatestElement
  <2> QED
    BY <2>3
<1>3. ASSUME NEW i \in AcksOf(b)
      PROVE  b.relays[i] \in Relay
  <2>1. b.relays \in Seq(Relay) /\ i \in DOMAIN b.relays
    BY ChainFacts DEF TypeOK, AcksOf
  <2> QED
    BY <2>1
<1>4. CASE acks = {}
  BY <1>1, <1>4
<1>5. CASE acks # {} /\ RowBefore(b, p) = "none"
  BY <1>1, <1>5
<1>6. CASE acks # {} /\ RowBefore(b, p) # "none"
  <2>1. last \in AcksOf(b) /\ b.relays[last].packet = p
    BY <1>2, <1>6
  <2>2. AckRows(b)[p] = b.relays[last].status
    BY <1>1, <1>6
  <2> HIDE DEF last
  <2> QED
    BY <1>3, <1>6, <2>1, <2>2
<1> QED
  BY <1>4, <1>5, <1>6

LEMMA SentAdds ==
    ASSUME PrefixInv, WriteBlock
    PROVE  SentPackets' = SentPackets \cup chain[index].sent
<1>1. index \in Heights /\ Indexed' = Indexed \cup {index} /\ chain' = chain
  BY WriteAdds DEF WriteBlock, node
<1>2. chain[index].sent \subseteq Packets
  BY <1>1, ChainFacts DEF PrefixInv, TypeOK
<1> QED
  BY <1>1, <1>2 DEF SentPackets

LEMMA PacketRowsAdded ==
    ASSUME PrefixInv, PacketRows, WriteBlock
    PROVE  PacketRows'
<1> DEFINE b == chain[index]
<1>1. index \in Heights /\ ibcAck' = AckRows(b) /\ TypeOK
  BY WriteAdds DEF WriteBlock, PrefixInv
<1>2. ASSUME NEW p \in Packets
      PROVE  ibcAck'[p] # "none" <=> p \in SentPackets'
  <2>1. RowBefore(b, p) # "none" <=> p \in SentPackets'
    BY SentAdds DEF PacketRows, RowBefore
  <2>2. ASSUME NEW r \in Relay
        PROVE  r.status # "none"
    BY DEF Relay, Status
  <2>3. AckRows(b)[p] # "none" <=> RowBefore(b, p) # "none"
    BY <1>1, <2>2, AckRow
  <2> QED
    BY <1>1, <2>1, <2>3
<1> QED
  BY <1>2 DEF PacketRows

LEMMA PacketStep ==
    ASSUME PrefixInv, PacketRows, [Next]_vars
    PROVE  PacketRows'
<1>1. CASE WriteBlock
  BY <1>1, PacketRowsAdded
<1>2. CASE UNCHANGED <<chain, rows, ibcAck>>
  BY <1>2 DEF PacketRows, SentPackets, Indexed
<1> QED
  BY <1>1, <1>2, OnlyWritesTouchRows DEF PrefixInv

LEMMA NothingIndexedAtFirst == Init => Indexed = {}
  BY DEF Init, Indexed

LEMMA PacketInit == Init => PacketRows
  BY NothingIndexedAtFirst DEF Init, PacketRows, SentPackets

\* The INSERT of ibc_ack and the UPDATEs that follow it leave a row for every
\* packet the indexed blocks sent, and an answer for a packet that was never
\* sent creates none.
THEOREM PacketRowsCorrect == Spec => []PacketRows
<1>1. PrefixInv /\ PacketRows /\ [Next]_vars => PacketRows'
  BY PacketStep
<1> QED
  BY <1>1, PacketInit, PrefixInvariant, PTL DEF Spec
-----------------------------------------------------------------------------
(* The status of a packet.                                                 *)

\* In a prefix nothing answered a packet before it is sent.
LEMMA NoAnswerBeforeSending ==
    ASSUME PrefixInv, WriteBlock, backfills = 0, NEW p \in chain[index].sent
    PROVE  AppliedStatus(p) = {}
<1>1. /\ index \in Heights /\ Indexed = FromBlock..(index - 1)
      /\ chain \in Chains /\ FromBlock \in Heights
  BY WriteAdds, WriteExtends, BoundsAssumption DEF PrefixInv, TypeOK
<1>2. SUFFICES ASSUME NEW s \in Status, NEW g \in Indexed, NEW i \in DOMAIN chain[g].relays,
                      chain[g].relays[i] = [packet |-> p, status |-> s, applied |-> TRUE]
               PROVE  FALSE
  BY DEF AppliedStatus
<1>3. g \in Heights /\ g < index
  <2>1. g \in Heights
    BY DEF Indexed
  <2> QED
    BY <1>1, <2>1, BoundsAssumption DEF Heights
<1>4. p \in Answered(chain[g])
  BY <1>2 DEF Answered
<1>5. Answered(chain[g]) \cap chain[index].sent = {}
  BY <1>1, <1>3, ChainAssumption
<1> QED
  BY <1>4, <1>5

LEMMA SettledStatusAdded ==
    ASSUME PrefixInv, PacketRows', SettledStatus, WriteBlock
    PROVE  SettledStatus'
<1> DEFINE b == chain[index]
           expected(p) == IF AppliedStatus(p) = {} THEN {"unknown"} ELSE AppliedStatus(p)
<1>1. /\ index \in Heights /\ Indexed' = Indexed \cup {index} /\ chain' = chain
      /\ ibcAck' = AckRows(b) /\ rows' = [rows EXCEPT ![index] = KindOf(b)]
      /\ backfills' = backfills /\ TypeOK
      /\ rows \in [Heights -> {"none", "known", "unknown"}]
  BY WriteAdds DEF WriteBlock, PrefixInv, TypeOK, node
<1>2. SUFFICES ASSUME backfills = 0, NEW p \in SentPackets', Settled(p)'
               PROVE  ibcAck'[p] \in expected(p)'
  BY <1>1 DEF SettledStatus
<1>3. p \in Packets
  BY DEF SentPackets
<1>4. \A i \in DOMAIN b.relays :
         b.relays[i].packet = p => KindOf(b) = "known" /\ b.relays[i].applied
  BY <1>1, <1>2 DEF Settled
<1>5. AppliedStatus(p)' =
         AppliedStatus(p) \cup
           {s \in Status : \E i \in DOMAIN b.relays :
               b.relays[i] = [packet |-> p, status |-> s, applied |-> TRUE]}
  BY <1>1 DEF AppliedStatus
<1>6. ASSUME NEW i \in AcksOf(b), b.relays[i] \in Relay, b.relays[i].packet = p,
             ibcAck'[p] = b.relays[i].status
      PROVE  ibcAck'[p] \in expected(p)'
  <2>1. i \in DOMAIN b.relays /\ b.relays[i].applied = TRUE
    BY <1>4, <1>6 DEF AcksOf, Relay
  <2>2. /\ b.relays[i] = [packet |-> p, status |-> b.relays[i].status, applied |-> TRUE]
        /\ b.relays[i].status \in Status
    BY <1>6, <2>1 DEF Relay
  <2>3. b.relays[i].status \in AppliedStatus(p)'
    BY <1>5, <2>1, <2>2
  <2> QED
    BY <1>6, <2>3
<1>7. ASSUME \A i \in AcksOf(b) : b.relays[i].packet # p,
             ibcAck'[p] = RowBefore(b, p)
      PROVE  ibcAck'[p] \in expected(p)'
  <2>1. \A i \in DOMAIN b.relays : b.relays[i].packet # p
    BY <1>4, <1>7 DEF AcksOf
  <2>2. AppliedStatus(p)' = AppliedStatus(p)
    <3>1. ASSUME NEW i \in DOMAIN b.relays, NEW s
          PROVE  b.relays[i] # [packet |-> p, status |-> s, applied |-> TRUE]
      BY <2>1
    <3> QED
      BY <1>5, <3>1
  <2>3. CASE p \in b.sent
    BY <1>2, <1>7, <2>2, <2>3, NoAnswerBeforeSending DEF RowBefore
  <2>4. CASE p \notin b.sent
    <3>1. p \in SentPackets
      BY <2>4, SentAdds
    <3>2. Settled(p)
      <4>1. SUFFICES ASSUME NEW h \in Indexed, NEW i \in DOMAIN chain[h].relays,
                            chain[h].relays[i].packet = p
                     PROVE  rows[h] = "known" /\ chain[h].relays[i].applied
        BY DEF Settled
      <4>2. h # index
        BY <2>1, <4>1
      <4>3. h \in Indexed' /\ rows'[h] = rows[h]
        BY <1>1, <4>2 DEF Indexed
      <4> QED
        BY <1>1, <1>2, <4>1, <4>3 DEF Settled
    <3> QED
      BY <1>2, <1>7, <2>2, <2>4, <3>1, <3>2 DEF RowBefore, SettledStatus
  <2> QED
    BY <2>3, <2>4
<1>8. ibcAck'[p] # "none"
  BY <1>2, <1>3 DEF PacketRows
<1> QED
  BY <1>1, <1>3, <1>6, <1>7, <1>8, AckRow

LEMMA SettledStep ==
    ASSUME PrefixInv, PacketRows', SettledStatus, [Next]_vars
    PROVE  SettledStatus'
<1>1. CASE WriteBlock
  BY <1>1, SettledStatusAdded
<1>2. CASE UNCHANGED <<chain, rows, ibcAck>> /\ (backfills' = 0 => backfills = 0)
  <2>1. Indexed' = Indexed
    BY <1>2 DEF Indexed
  <2>2. SentPackets' = SentPackets
    BY <1>2, <2>1 DEF SentPackets
  <2>3. ASSUME NEW p
        PROVE  (Settled(p)' <=> Settled(p)) /\ AppliedStatus(p)' = AppliedStatus(p)
    BY <1>2, <2>1 DEF Settled, AppliedStatus
  <2> QED
    BY <1>2, <2>2, <2>3 DEF SettledStatus
<1> QED
  BY <1>1, <1>2, OnlyWritesTouchRows DEF PrefixInv

\* As long as the relayer transactions for a packet are decoded and were
\* applied, its row has the status they report, whatever the retries, crashes
\* and restarts in between; without one it is still unknown.
THEOREM SettledStatusCorrect == Spec => []SettledStatus
<1>1. Init => SettledStatus
  BY NothingIndexedAtFirst DEF SettledStatus, SentPackets
<1>2. PrefixInv /\ PacketRows' /\ SettledStatus /\ [Next]_vars => SettledStatus'
  BY SettledStep
<1> QED
  BY <1>1, <1>2, PrefixInvariant, PacketRowsCorrect, PTL DEF Spec

-----------------------------------------------------------------------------
(* The token flows.                                                        *)

\* The packets of a kind that move a token in the indexed blocks of an epoch.
Counted(kind, t, e) == Moved(IndexedPackets(kind, e), t)

\* What a block adds to them.
New(kind, t, e) ==
    IF e = chain[index].epoch THEN Moved(Happens(kind, chain, index), t) ELSE {}

LEMMA HappensToPackets ==
    ASSUME NEW c \in Chains, NEW h \in Heights, NEW kind \in Kinds
    PROVE  Happens(kind, c, h) \subseteq Packets
  BY ChainFacts DEF Happens, Kinds

LEMMA CountedAdds ==
    ASSUME PrefixInv, WriteBlock, NEW kind \in Kinds, NEW t, NEW e
    PROVE  /\ Counted(kind, t, e)' = Counted(kind, t, e) \cup New(kind, t, e)
           /\ IsFiniteSet(Counted(kind, t, e)) /\ IsFiniteSet(New(kind, t, e))
<1>1. index \in Heights /\ Indexed' = Indexed \cup {index} /\ chain' = chain /\ chain \in Chains
  BY WriteAdds DEF WriteBlock, node, PrefixInv, TypeOK
<1>2. Happens(kind, chain, index) \subseteq Packets
  BY <1>1, HappensToPackets
<1>3. ASSUME NEW h
      PROVE  Happens(kind, chain', h) = Happens(kind, chain, h)
  BY <1>1
<1>4. IndexedPackets(kind, e)' =
        IndexedPackets(kind, e) \cup (IF e = chain[index].epoch THEN Happens(kind, chain, index) ELSE {})
  BY <1>1, <1>2, <1>3 DEF IndexedPackets
<1>5. Counted(kind, t, e) \in SUBSET Packets /\ New(kind, t, e) \in SUBSET Packets
  BY <1>2 DEF Counted, New, Moved, IndexedPackets
<1>6. Counted(kind, t, e)' = Counted(kind, t, e) \cup New(kind, t, e)
  BY <1>4 DEF Counted, New, Moved
<1> QED
  BY <1>5, <1>6, FS_Subset, BoundsAssumption

\* In a prefix a block adds no packet a second time.
LEMMA NewIsNew ==
    ASSUME PrefixInv, WriteBlock, backfills = 0, NEW kind \in Kinds, NEW t, NEW e
    PROVE  Counted(kind, t, e) \cap New(kind, t, e) = {}
<1>1. /\ index \in Heights /\ Indexed = FromBlock..(index - 1)
      /\ chain \in Chains /\ FromBlock \in Heights
  BY WriteAdds, WriteExtends, BoundsAssumption DEF PrefixInv, TypeOK
<1>2. SUFFICES ASSUME NEW p \in Counted(kind, t, e), p \in New(kind, t, e)
               PROVE  FALSE
  OBVIOUS
<1>3. PICK h \in Indexed : p \in Happens(kind, chain, h)
  BY DEF Counted, Moved, IndexedPackets
<1>4. h \in Heights /\ h < index
  <2>1. h \in Heights
    BY DEF Indexed
  <2> QED
    BY <1>1, <2>1, BoundsAssumption DEF Heights
<1>5. p \in Happens(kind, chain, index)
  BY <1>2 DEF New, Moved
<1>6. Happens(kind, chain, h) \cap Happens(kind, chain, index) = {}
  BY <1>1, <1>4, ChainAssumption
<1> QED
  BY <1>3, <1>5, <1>6

LEMMA CountedGrows ==
    ASSUME PrefixInv, WriteBlock, NEW kind \in Kinds, NEW t, NEW e
    PROVE  LET old == Cardinality(Counted(kind, t, e))
               new == Cardinality(New(kind, t, e))
               all == Cardinality(Counted(kind, t, e)')
           IN  /\ old \in Nat /\ new \in Nat /\ all \in Nat
               /\ all <= old + new
               /\ backfills = 0 => all = old + new
<1> DEFINE S == Counted(kind, t, e)
           T == New(kind, t, e)
<1>1. S' = S \cup T /\ IsFiniteSet(S) /\ IsFiniteSet(T)
  BY CountedAdds
<1>2. backfills = 0 => S \cap T = {}
  BY NewIsNew
<1> HIDE DEF S, T
<1>3. /\ IsFiniteSet(S \cup T) /\ IsFiniteSet(S \cap T)
      /\ Cardinality(S \cup T) = Cardinality(S) + Cardinality(T) - Cardinality(S \cap T)
  BY <1>1, FS_Union, FS_Intersection
<1>4. /\ Cardinality(S) \in Nat /\ Cardinality(T) \in Nat
      /\ Cardinality(S \cup T) \in Nat /\ Cardinality(S \cap T) \in Nat
  BY <1>1, <1>3, FS_CardinalityType
<1>5. Cardinality(S') = Cardinality(S \cup T)
  BY <1>1
<1>6. backfills = 0 => Cardinality(S \cap T) = 0
  BY <1>2, FS_EmptySet
<1> QED
  BY <1>3, <1>4, <1>5, <1>6 DEF S, T

\* What the block adds to a row.
LEMMA FlowAdds ==
    ASSUME PrefixInv, WriteBlock, NEW t \in Tokens, NEW e \in Epochs
    PROVE  /\ flows[t][e].deposit \in Nat /\ flows[t][e].withdraw \in Nat
           /\ flows'[t][e].deposit = flows[t][e].deposit + Cardinality(New("received", t, e))
           /\ flows'[t][e].withdraw = flows[t][e].withdraw + Cardinality(New("sent", t, e))
                                      + Cardinality(New("acked", t, e))
<1> DEFINE b == chain[index]
<1>1. /\ flows' = FlowRows(b) /\ index \in Heights
      /\ flows[t][e] \in [deposit : Nat, withdraw : Nat]
  BY WriteAdds DEF WriteBlock, PrefixInv, TypeOK
<1>2. \A kind \in Kinds : Cardinality(New(kind, t, e)) \in Nat
  BY CountedGrows
<1>3. \A kind \in Kinds : e # b.epoch => Cardinality(New(kind, t, e)) = 0
  BY FS_EmptySet DEF New
<1>4. e = b.epoch => /\ Deposited(b, t) = Cardinality(New("received", t, e))
                     /\ Withdrawn(b, t) = Cardinality(New("sent", t, e))
                                          + Cardinality(New("acked", t, e))
  BY DEF New, Deposited, Withdrawn, Happens
<1>5. flows'[t][e] = IF e # b.epoch THEN flows[t][e]
                     ELSE [deposit  |-> flows[t][e].deposit + Deposited(b, t),
                           withdraw |-> flows[t][e].withdraw + Withdrawn(b, t)]
  BY <1>1 DEF FlowRows
<1>6. "received" \in Kinds /\ "sent" \in Kinds /\ "acked" \in Kinds
  BY DEF Kinds
<1>7. CASE e # b.epoch
  BY <1>1, <1>2, <1>3, <1>5, <1>6, <1>7
<1>8. CASE e = b.epoch
  <2>1. /\ flows'[t][e].deposit = flows[t][e].deposit + Deposited(b, t)
        /\ flows'[t][e].withdraw = flows[t][e].withdraw + Withdrawn(b, t)
    BY <1>5, <1>8
  <2> QED
    BY <1>1, <1>2, <1>4, <1>6, <1>8, <2>1
<1> QED
  BY <1>7, <1>8

FlowsInv == FlowsNeverLost /\ FlowsCountEvents

LEMMA FlowsStep ==
    ASSUME PrefixInv, FlowsInv, [Next]_vars
    PROVE  FlowsInv'
<1>1. CASE WriteBlock
  <2>1. "received" \in Kinds /\ "sent" \in Kinds /\ "acked" \in Kinds /\ backfills' = backfills
    BY <1>1 DEF Kinds, WriteBlock
  <2>2. ASSUME NEW t \in Tokens, NEW e \in Epochs
        PROVE  /\ flows'[t][e].deposit >= Cardinality(Counted("received", t, e)')
               /\ flows'[t][e].withdraw >= Cardinality(Counted("sent", t, e)')
                                           + Cardinality(Counted("acked", t, e)')
               /\ backfills = 0 =>
                    /\ flows'[t][e].deposit = Cardinality(Counted("received", t, e)')
                    /\ flows'[t][e].withdraw = Cardinality(Counted("sent", t, e)')
                                               + Cardinality(Counted("acked", t, e)')
    <3>1. /\ flows[t][e].deposit >= Cardinality(Counted("received", t, e))
          /\ flows[t][e].withdraw >= Cardinality(Counted("sent", t, e))
                                     + Cardinality(Counted("acked", t, e))
          /\ backfills = 0 =>
               /\ flows[t][e].deposit = Cardinality(Counted("received", t, e))
               /\ flows[t][e].withdraw = Cardinality(Counted("sent", t, e))
                                         + Cardinality(Counted("acked", t, e))
      BY DEF FlowsInv, FlowsNeverLost, FlowsCountEvents, Counted
    <3>2. \A kind \in Kinds :
             /\ Cardinality(Counted(kind, t, e)) \in Nat
             /\ Cardinality(New(kind, t, e)) \in Nat
             /\ Cardinality(Counted(kind, t, e)') \in Nat
             /\ Cardinality(Counted(kind, t, e)')
                  <= Cardinality(Counted(kind, t, e)) + Cardinality(New(kind, t, e))
             /\ backfills = 0 =>
                  Cardinality(Counted(kind, t, e)')
                    = Cardinality(Counted(kind, t, e)) + Cardinality(New(kind, t, e))
      BY <1>1, CountedGrows
    <3> QED
      BY <1>1, <2>1, <3>1, <3>2, FlowAdds
  <2> QED
    BY <2>1, <2>2 DEF FlowsInv, FlowsNeverLost, FlowsCountEvents, Counted
<1>2. CASE UNCHANGED <<chain, rows, flows>> /\ (backfills' = 0 => backfills = 0)
  <2>1. \A kind, e : IndexedPackets(kind, e)' = IndexedPackets(kind, e)
    BY <1>2 DEF IndexedPackets, Indexed, Happens
  <2> QED
    BY <1>2, <2>1 DEF FlowsInv, FlowsNeverLost, FlowsCountEvents, Moved
<1> QED
  BY <1>1, <1>2, OnlyWritesTouchRows DEF PrefixInv

LEMMA FlowsInit == Init => FlowsInv
<1> SUFFICES ASSUME Init PROVE FlowsInv
  OBVIOUS
<1>1. ASSUME NEW kind, NEW e, NEW t
      PROVE  Cardinality(Moved(IndexedPackets(kind, e), t)) = 0
  <2>1. Moved(IndexedPackets(kind, e), t) = {}
    BY NothingIndexedAtFirst DEF IndexedPackets, Moved
  <2> QED
    BY <2>1, FS_EmptySet
<1>2. \A t \in Tokens, e \in Epochs : flows[t][e].deposit = 0 /\ flows[t][e].withdraw = 0
  BY DEF Init, NoFlows
<1> QED
  BY <1>1, <1>2 DEF FlowsInv, FlowsNeverLost, FlowsCountEvents

LEMMA FlowsInvariant == Spec => []FlowsInv
<1>1. PrefixInv /\ FlowsInv /\ [Next]_vars => FlowsInv'
  BY FlowsStep
<1> QED
  BY <1>1, FlowsInit, PrefixInvariant, PTL DEF Spec

\* However crawls, failing attempts and backfills interleave, the flows count
\* every event of the indexed blocks at least once.
THEOREM FlowsNotLost == Spec => []FlowsNeverLost
<1>1. FlowsInv => FlowsNeverLost
  BY DEF FlowsInv
<1> QED
  BY <1>1, FlowsInvariant, PTL

\* Until an operator reindexes, every event is counted once (a packet that was sent
\* and acknowledged counts for each): the upsert adds, and it is the prefix of
\* written blocks that makes it safe to repeat.
THEOREM EventsCountedOnce == Spec => []FlowsCountEvents
<1>1. FlowsInv => FlowsCountEvents
  BY DEF FlowsInv
<1> QED
  BY <1>1, FlowsInvariant, PTL
=============================================================================
