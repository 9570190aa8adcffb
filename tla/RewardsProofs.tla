--------------------------- MODULE RewardsProofs ----------------------------
(***************************************************************************)
(* The rewards table is sound for every number of delegations, epochs and  *)
(* claims.  The two indexers that write it share nothing but its rows, so  *)
(* the invariant says what an amount is worth while it is in memory, read  *)
(* from the node and not written yet, and what the chain indexer may have  *)
(* marked meanwhile.                                                       *)
(***************************************************************************)
EXTENDS Rewards, Integers, FiniteSetTheorems, WellFoundedInduction, TLAPS

-----------------------------------------------------------------------------

\* A bounded set of natural numbers that is not empty has a greatest element: the
\* intervals from its elements up to the bound are finite, and inclusion of finite
\* sets is well-founded.
LEMMA GreatestElement ==
    ASSUME NEW k \in Nat, NEW S \in SUBSET (0..k), S # {}
    PROVE  \E m \in S : \A n \in S : n <= m
<1> DEFINE T == {n..k : n \in S}
<1>1. ASSUME NEW n \in S
      PROVE  /\ n \in Nat /\ n..k \in SUBSET Nat /\ n..k \in FiniteSubsetsOf(Nat)
             /\ n \in n..k /\ \A m \in S : n > m => n..k \subseteq m..k /\ m \notin n..k /\ m \in m..k
  <2>1. n \in 0..k /\ n..k \in SUBSET Nat /\ \A m \in S : m \in 0..k
    OBVIOUS
  <2>2. IsFiniteSet(n..k)
    BY <2>1, FS_Interval
  <2> QED
    BY <2>1, <2>2 DEF FiniteSubsetsOf
<1>2. T \subseteq FiniteSubsetsOf(Nat) /\ T # {}
  <2>1. \A n \in S : n..k \in FiniteSubsetsOf(Nat)
    BY <1>1
  <2> QED
    BY <2>1
<1>3. \A m \in S : m..k \in T
  BY Zenon
<1>4. PICK t \in T : \A u \in T : ~ (<<u, t>> \in StrictSubsetOrdering(Nat))
  <2> HIDE DEF T
  <2> QED
    BY <1>2, FS_StrictSubsetOrderingWellFounded, WFMin
<1>5. PICK m \in S : t = m..k
  OBVIOUS
<1>6. ASSUME NEW n \in S, n > m
      PROVE  FALSE
  <2>1. n..k \subseteq m..k /\ m \notin n..k /\ m \in m..k
    BY <1>1, <1>6
  <2>2. <<n..k, m..k>> \in StrictSubsetOrdering(Nat)
    BY <1>1, <2>1, Zenon DEF StrictSubsetOrdering
  <2> QED
    BY <1>3, <1>4, <1>5, <2>2
<1> QED
  BY <1>1, <1>6

\* An epoch that is read or written has begun; between two attempts there is
\* nothing in memory.
Position ==
    /\ task # "down" => index >= 1
    /\ task \in {"rewards", "commit"} => index \in 1..epoch
    /\ task \notin {"rewards", "commit"} => \A d \in Pairs : reward[d] = NotAsked

\* Only claims that were made come to the table, and only epochs that began.
Begun ==
    /\ \A d \in Pairs : indexed[d] \subseteq claims[d]
    /\ \A d \in Pairs, e \in Epochs : rows[d][e] # NoRow => e <= epoch

\* An amount in memory accrued since a claim, and no claim of its epoch or later
\* came to the table but as a race.
MemorySound ==
    \A d \in Pairs : reward[d] > 0 =>
        /\ \E c \in {0} \cup claims[d] : c < index /\ reward[d] = index - c
        /\ <<d, index>> \notin racing => \A c \in indexed[d] : c < index

TableSound == AmountSound /\ ClaimedNotOffered /\ MarkedWasClaimed

RewardsInv == TypeOK /\ Position /\ Begun /\ MemorySound /\ TableSound /\ EpochsContiguous

LEMMA Bounds == MaxEpoch \in Nat \ {0} /\ MaxClaims \in Nat /\ MaxRare \in Nat
  BY BoundsAssumption

\* The claim that Latest names is the last one.
LEMMA LatestIsLast ==
    ASSUME NEW S \in SUBSET Epochs
    PROVE  /\ Latest(S) \in {0} \cup S
           /\ \A c \in S : c <= Latest(S)
<1>1. CASE S = {}
  BY <1>1 DEF Latest
<1>2. CASE S # {}
  <2>1. S \in SUBSET (0..MaxEpoch)
    BY Bounds DEF Epochs
  <2>2. PICK m \in S : \A n \in S : n <= m
    BY <1>2, <2>1, Bounds, GreatestElement
  <2> QED
    BY <1>2, <2>2 DEF Latest
<1> QED
  BY <1>1, <1>2

\* What the node answers accrued since the last claim, if it is not zero.
LEMMA ClaimableSound ==
    ASSUME NEW d \in Pairs, NEW e \in Epochs, claims[d] \in SUBSET Epochs
    PROVE  /\ Claimable(d, e) \in 0..MaxEpoch
           /\ Claimable(d, e) > 0 =>
                 /\ \E c \in {0} \cup claims[d] : c < e /\ Claimable(d, e) = e - c
                 /\ \A c \in claims[d] : c < e
<1>1. Latest(claims[d]) \in {0} \cup claims[d] /\ \A c \in claims[d] : c <= Latest(claims[d])
  BY LatestIsLast
<1>2. Latest(claims[d]) \in 0..MaxEpoch /\ e \in 1..MaxEpoch /\ \A c \in claims[d] : c \in Int
  BY <1>1, Bounds DEF Epochs
<1>3. CASE e > Latest(claims[d])
  <2>1. Claimable(d, e) = e - Latest(claims[d])
    BY <1>3 DEF Claimable
  <2>2. \A c \in claims[d] : c < e
    BY <1>1, <1>2, <1>3
  <2>3. \E c \in {0} \cup claims[d] : c < e /\ Claimable(d, e) = e - c
    BY <1>1, <1>3, <2>1
  <2> QED
    BY <1>2, <1>3, <2>1, <2>2, <2>3, Bounds
<1>4. CASE ~(e > Latest(claims[d]))
  BY <1>4, Bounds DEF Claimable
<1> QED
  BY <1>3, <1>4

\* A record with another flag.
LEMMA FlagSet ==
    ASSUME NEW row \in [amount : 0..MaxEpoch, claimed : BOOLEAN], NEW flag \in BOOLEAN
    PROVE  [row EXCEPT !.claimed = flag] = [amount |-> row.amount, claimed |-> flag]
  OBVIOUS

\* Marking leaves the amounts, and rows that are not there.
LEMMA RowsMarked ==
    ASSUME TypeOK, NEW d \in Pairs, NEW c, rows' = MarkClaimed(d, c)
    PROVE  /\ rows' \in [Pairs -> [Epochs -> [amount : 0..MaxEpoch, claimed : BOOLEAN]]]
           /\ \A b \in Pairs, e \in Epochs :
                 /\ rows'[b][e].amount = rows[b][e].amount
                 /\ rows'[b][e] = NoRow <=> rows[b][e] = NoRow
                 /\ b = d /\ rows[b][e] # NoRow => rows'[b][e].claimed
                 /\ b # d \/ rows[b][e] = NoRow => rows'[b][e] = rows[b][e]
<1> DEFINE Row == [amount : 0..MaxEpoch, claimed : BOOLEAN]
           Marked(e) == [rows[d][e] EXCEPT !.claimed = @ \/ rows[d][e] # NoRow]
<1>1. rows \in [Pairs -> [Epochs -> Row]]
  BY DEF TypeOK
<1>2. ASSUME NEW e \in Epochs
      PROVE  /\ Marked(e) \in Row
             /\ Marked(e).amount = rows[d][e].amount
             /\ rows[d][e] # NoRow => Marked(e).claimed
             /\ rows[d][e] = NoRow => Marked(e) = rows[d][e]
             /\ rows[d][e] # NoRow => Marked(e) # NoRow
  <2>1. rows[d][e] \in Row
    BY <1>1
  <2>2. CASE rows[d][e] = NoRow
    BY <2>1, <2>2 DEF NoRow
  <2>3. CASE rows[d][e] # NoRow
    <3>1. (rows[d][e].claimed \/ rows[d][e] # NoRow) = TRUE
      BY <2>3, Zenon
    <3>2. [rows[d][e] EXCEPT !.claimed = TRUE] = [amount |-> rows[d][e].amount, claimed |-> TRUE]
      BY <2>1, FlagSet
    <3>3. Marked(e) = [amount |-> rows[d][e].amount, claimed |-> TRUE]
      BY <3>1, <3>2, Zenon
    <3> QED
      BY <2>1, <2>3, <3>3 DEF NoRow
  <2> QED
    BY <2>2, <2>3
<1>3. rows' = [rows EXCEPT ![d] = [e \in Epochs |-> Marked(e)]]
  BY DEF MarkClaimed
<1> HIDE DEF Marked, Row
<1>4. /\ rows' \in [Pairs -> [Epochs -> Row]]
      /\ \A b \in Pairs, e \in Epochs : rows'[b][e] = IF b = d THEN Marked(e) ELSE rows[b][e]
  BY <1>1, <1>2, <1>3
<1>5. ASSUME NEW b \in Pairs, NEW e \in Epochs
      PROVE  /\ rows'[b][e].amount = rows[b][e].amount
             /\ rows'[b][e] = NoRow <=> rows[b][e] = NoRow
             /\ b = d /\ rows[b][e] # NoRow => rows'[b][e].claimed
             /\ b # d \/ rows[b][e] = NoRow => rows'[b][e] = rows[b][e]
  BY <1>2, <1>4
<1> QED
  BY <1>4, <1>5 DEF Row

\* A commit sets the amounts of its epoch that are not zero, and nothing else.
LEMMA RowsWritten ==
    ASSUME TypeOK, Position, WriteRewards
    PROVE  /\ index \in Epochs
           /\ rows' \in [Pairs -> [Epochs -> [amount : 0..MaxEpoch, claimed : BOOLEAN]]]
           /\ \A d \in Pairs, e \in Epochs :
                 rows'[d][e] = IF reward[d] > 0 /\ e = index
                               THEN [amount |-> reward[d], claimed |-> rows[d][e].claimed]
                               ELSE rows[d][e]
<1> DEFINE Row == [amount : 0..MaxEpoch, claimed : BOOLEAN]
           New(d) == [rows[d] EXCEPT ![index] = Upsert(@, reward[d])]
<1>1. /\ rows \in [Pairs -> [Epochs -> Row]]
      /\ reward \in [Pairs -> NotAsked..MaxEpoch]
  BY DEF TypeOK
<1>2. index \in Epochs
  BY Bounds DEF WriteRewards, Position, TypeOK, Epochs
<1>3. ASSUME NEW d \in Pairs, reward[d] > 0
      PROVE  /\ New(d) \in [Epochs -> Row]
             /\ \A e \in Epochs :
                   New(d)[e] = IF e = index THEN [amount |-> reward[d], claimed |-> rows[d][e].claimed]
                               ELSE rows[d][e]
  <2>1. rows[d] \in [Epochs -> Row] /\ rows[d][index] \in Row
    BY <1>1, <1>2
  <2>2. reward[d] \in 0..MaxEpoch
    BY <1>1, <1>3, Bounds DEF NotAsked
  <2>3. Upsert(rows[d][index], reward[d]) = [amount |-> reward[d], claimed |-> rows[d][index].claimed]
    BY <2>1 DEF Upsert
  <2>4. [amount |-> reward[d], claimed |-> rows[d][index].claimed] \in Row
    BY <2>1, <2>2
  <2> HIDE DEF Row
  <2> QED
    BY <1>2, <2>1, <2>3, <2>4
<1>4. rows' = [d \in Pairs |-> IF reward[d] > 0 THEN New(d) ELSE rows[d]]
  BY DEF WriteRewards
<1> HIDE DEF New, Row
<1>5. rows' \in [Pairs -> [Epochs -> Row]]
  BY <1>1, <1>3, <1>4
<1>6. ASSUME NEW d \in Pairs, NEW e \in Epochs
      PROVE  rows'[d][e] = IF reward[d] > 0 /\ e = index
                           THEN [amount |-> reward[d], claimed |-> rows[d][e].claimed]
                           ELSE rows[d][e]
  BY <1>3, <1>4
<1> QED
  BY <1>2, <1>5, <1>6 DEF Row

-----------------------------------------------------------------------------

\* What stays sound while neither the table nor the claims change.
LEMMA TableKept ==
    ASSUME RewardsInv, epoch' \in Epochs, epoch <= epoch',
           UNCHANGED <<claims, rows, indexed, racing, late>>
    PROVE  Begun' /\ TableSound'
<1>1. Begun'
  BY Bounds DEF RewardsInv, Begun, TypeOK, Epochs
<1>2. TableSound'
  BY DEF RewardsInv, TableSound, AmountSound, ClaimedNotOffered, MarkedWasClaimed
<1> QED
  BY <1>1, <1>2

\* Without an amount in memory nothing is owed.
LEMMA Forgotten ==
    ASSUME Forget
    PROVE  /\ reward' \in [Pairs -> NotAsked..MaxEpoch]
           /\ \A d \in Pairs : reward'[d] = NotAsked
           /\ MemorySound'
  BY Bounds DEF Forget, MemorySound, NotAsked

\* Whatever the error, no epoch is passed over.
LEMMA FailureRepeats ==
    ASSUME NEW error \in {"NoAction", "RpcError", "Database"}, FailWith(error), mustExit \in BOOLEAN
    PROVE  /\ \/ task' = "poll" /\ index' = index
              \/ task' = "down" /\ index' = 0
           /\ mustExit' \in BOOLEAN
  BY DEF FailWith, Retryable, Retry, NextIndex, Gone

LEMMA RewardsInit == Init => RewardsInv
<1> SUFFICES ASSUME Init PROVE RewardsInv
  OBVIOUS
<1>1. TypeOK
  <2>1. /\ NoRow \in [amount : 0..MaxEpoch, claimed : BOOLEAN]
        /\ NotAsked \in NotAsked..MaxEpoch
        /\ 1 \in Epochs /\ 0 \in 0..MaxEpoch /\ 0 \in 0..(MaxEpoch + 1) /\ 0 \in 0..MaxRare
    BY Bounds DEF NoRow, NotAsked, Epochs
  <2>2. rows \in [Pairs -> [Epochs -> [amount : 0..MaxEpoch, claimed : BOOLEAN]]]
    BY <2>1 DEF Init
  <2> QED
    BY <2>1, <2>2 DEF Init, CrawlInit, TypeOK
<1>2. Position /\ Begun /\ MemorySound
  BY DEF Init, CrawlInit, Position, Begun, MemorySound, NotAsked
<1>3. TableSound
  BY DEF Init, TableSound, AmountSound, ClaimedNotOffered, MarkedWasClaimed, NoRow
<1>4. EpochsContiguous
  BY DEF Init, CrawlInit, EpochsContiguous
<1> QED
  BY <1>1, <1>2, <1>3, <1>4 DEF RewardsInv

LEMMA NewEpochStep ==
    ASSUME RewardsInv, NewEpoch
    PROVE  RewardsInv'
<1>1. /\ epoch' = epoch + 1 /\ epoch' \in Epochs
      /\ UNCHANGED <<task, index, mustExit, claims, conn, first, reward, rows, indexed, done,
                     racing, late, rare>>
  BY Bounds DEF NewEpoch, RewardsInv, TypeOK, Epochs, crawlVars, process, database, history
<1>2. epoch <= epoch'
  BY <1>1, Bounds DEF RewardsInv, TypeOK, Epochs
<1>3. TypeOK'
  BY <1>1 DEF RewardsInv, TypeOK
<1>4. Position'
  BY <1>1, Bounds DEF RewardsInv, TypeOK, Position, Epochs
<1>5. MemorySound' /\ EpochsContiguous'
  BY <1>1 DEF RewardsInv, MemorySound, EpochsContiguous
<1> QED
  BY <1>1, <1>2, <1>3, <1>4, <1>5, TableKept DEF RewardsInv

LEMMA ClaimStep ==
    ASSUME RewardsInv, NEW d \in Pairs, Claim(d)
    PROVE  RewardsInv'
<1>1. /\ claims' = [claims EXCEPT ![d] = @ \cup {epoch}]
      /\ UNCHANGED <<task, index, mustExit, epoch, conn, first, reward, rows, indexed, done,
                     racing, late, rare>>
  BY DEF Claim, crawlVars, process, database, history
<1>2. /\ claims' \in [Pairs -> SUBSET Epochs]
      /\ \A b \in Pairs : claims[b] \subseteq claims'[b]
  BY <1>1 DEF RewardsInv, TypeOK
<1>3. TypeOK'
  BY <1>1, <1>2 DEF RewardsInv, TypeOK
<1>4. Position' /\ Begun' /\ EpochsContiguous'
  BY <1>1, <1>2 DEF RewardsInv, Position, Begun, EpochsContiguous
<1>5. MemorySound'
  BY <1>1, <1>2 DEF RewardsInv, MemorySound
<1>6. TableSound'
  BY <1>1, <1>2 DEF RewardsInv, TableSound, AmountSound, ClaimedNotOffered, MarkedWasClaimed
<1> QED
  BY <1>3, <1>4, <1>5, <1>6 DEF RewardsInv

\* The chain indexer marks rows of a claim: an amount in memory is now a race, and
\* a row of a later epoch is known to be marked too early.
LEMMA IndexClaimStep ==
    ASSUME RewardsInv, NEW d \in Pairs, NEW c \in Epochs, IndexClaim(d, c)
    PROVE  RewardsInv'
<1>1. /\ c \in claims[d]
      /\ rows' = MarkClaimed(d, c)
      /\ indexed' = [indexed EXCEPT ![d] = @ \cup {c}]
      /\ late' = late \cup {<<d, e>> : e \in (c + 1)..epoch}
      /\ UNCHANGED <<task, index, mustExit, epoch, claims, conn, first, reward, done>>
  BY DEF IndexClaim, crawlVars, node, process
<1>2. /\ racing \subseteq racing' /\ racing' \subseteq Pairs \X Epochs
      /\ reward[d] > 0 => <<d, index>> \in racing'
  <2>1. task \in {"rewards", "commit"} => index \in Epochs
    BY Bounds DEF RewardsInv, Position, TypeOK, Epochs
  <2>2. reward[d] > 0 => task \in {"rewards", "commit"} /\ reward[d] # NotAsked
    BY DEF RewardsInv, Position, NotAsked
  <2> QED
    BY <2>1, <2>2 DEF IndexClaim, RewardsInv, TypeOK
<1>3. /\ rows' \in [Pairs -> [Epochs -> [amount : 0..MaxEpoch, claimed : BOOLEAN]]]
      /\ \A b \in Pairs, e \in Epochs :
            /\ rows'[b][e].amount = rows[b][e].amount
            /\ rows'[b][e] = NoRow <=> rows[b][e] = NoRow
            /\ b = d /\ rows[b][e] # NoRow => rows'[b][e].claimed
            /\ b # d \/ rows[b][e] = NoRow => rows'[b][e] = rows[b][e]
  BY <1>1, RowsMarked DEF RewardsInv
<1>4. /\ indexed' \in [Pairs -> SUBSET Epochs]
      /\ \A b \in Pairs : b # d => indexed'[b] = indexed[b]
      /\ indexed'[d] = indexed[d] \cup {c}
  BY <1>1 DEF RewardsInv, TypeOK
<1>5. TypeOK'
  <2>1. late' \subseteq Pairs \X Epochs
    BY <1>1, Bounds DEF RewardsInv, TypeOK, Epochs
  <2>2. rare' \in 0..MaxRare
    BY Bounds DEF IndexClaim, RewardsInv, TypeOK
  <2> QED
    BY <1>1, <1>2, <1>3, <1>4, <2>1, <2>2 DEF RewardsInv, TypeOK
<1>6. Position' /\ EpochsContiguous'
  BY <1>1 DEF RewardsInv, Position, EpochsContiguous
<1>7. Begun'
  BY <1>1, <1>3, <1>4 DEF RewardsInv, Begun
<1>8. MemorySound'
  BY <1>1, <1>2, <1>4 DEF RewardsInv, MemorySound
<1>9. AmountSound'
  BY <1>1, <1>3 DEF RewardsInv, TableSound, AmountSound
<1>10. ClaimedNotOffered'
  <2> SUFFICES ASSUME NEW b \in Pairs, NEW e \in Epochs,
                      rows'[b][e] # NoRow, ~rows'[b][e].claimed, <<b, e>> \notin racing'
               PROVE  \A k \in indexed'[b] : k < e
    BY DEF ClaimedNotOffered
  <2>1. b # d /\ rows[b][e] # NoRow /\ rows'[b][e] = rows[b][e]
    BY <1>3
  <2> QED
    BY <1>2, <1>4, <2>1 DEF RewardsInv, TableSound, ClaimedNotOffered
<1>11. MarkedWasClaimed'
  <2> SUFFICES ASSUME NEW b \in Pairs, NEW e \in Epochs, rows'[b][e].claimed, <<b, e>> \notin late'
               PROVE  \E k \in claims[b] : k >= e
    BY <1>1 DEF MarkedWasClaimed
  <2>1. CASE b # d \/ rows[b][e] = NoRow
    BY <1>1, <1>3, <2>1 DEF RewardsInv, TableSound, MarkedWasClaimed
  <2>2. CASE b = d /\ rows[b][e] # NoRow
    <3>1. e <= epoch
      BY <2>2 DEF RewardsInv, Begun
    <3>2. ~(e \in (c + 1)..epoch)
      BY <1>1, <2>2
    <3>3. c >= e
      BY <3>1, <3>2, Bounds DEF RewardsInv, TypeOK, Epochs
    <3> QED
      BY <1>1, <2>2, <3>3
  <2> QED
    BY <2>1, <2>2
<1> QED
  BY <1>5, <1>6, <1>7, <1>8, <1>9, <1>10, <1>11 DEF RewardsInv, TableSound

-----------------------------------------------------------------------------

LEMMA BeginStep ==
    ASSUME RewardsInv, NEW e \in Epochs, Begin(e), rare' \in 0..MaxRare
    PROVE  RewardsInv'
<1>1. /\ task = "down" /\ task' = "poll" /\ index' = e /\ mustExit' = FALSE
      /\ conn' = "up" /\ first' = e /\ done' = {}
      /\ UNCHANGED <<epoch, claims, reward, rows, indexed, racing, late>>
  BY DEF Begin, CrawlFrom, node, database
<1>2. TypeOK'
  <2>1. e \in 0..(MaxEpoch + 1) /\ e \in 0..MaxEpoch
    BY Bounds DEF Epochs
  <2> QED
    BY <1>1, <2>1 DEF RewardsInv, TypeOK
<1>3. Position'
  BY <1>1, Bounds DEF RewardsInv, Position, Epochs
<1>4. MemorySound'
  BY <1>3, <1>1 DEF Position, MemorySound, NotAsked
<1>5. EpochsContiguous'
  BY <1>1 DEF EpochsContiguous, Epochs
<1>6. epoch' \in Epochs /\ epoch <= epoch'
  BY <1>1, Bounds DEF RewardsInv, TypeOK, Epochs
<1> QED
  BY <1>1, <1>2, <1>3, <1>4, <1>5, <1>6, TableKept DEF RewardsInv

\* Steps within an attempt, and those that concern the process alone.
LEMMA ProceedStep ==
    ASSUME RewardsInv,
           task \in {"poll", "rewards"}, task' \in {"rewards", "commit"},
           task = "poll" => epoch >= index,
           UNCHANGED <<index, mustExit, node, process, database, history, rare>>
    PROVE  RewardsInv'
<1>1. UNCHANGED <<epoch, claims, conn, first, reward, rows, indexed, done, racing, late>>
  BY DEF node, process, database, history
<1>2. TypeOK'
  BY <1>1 DEF RewardsInv, TypeOK
<1>3. Position'
  BY <1>1, Bounds DEF RewardsInv, Position, TypeOK, Epochs
<1>4. MemorySound' /\ EpochsContiguous'
  BY <1>1 DEF RewardsInv, MemorySound, EpochsContiguous
<1>5. epoch' \in Epochs /\ epoch <= epoch'
  BY <1>1, Bounds DEF RewardsInv, TypeOK, Epochs
<1> QED
  BY <1>1, <1>2, <1>3, <1>4, <1>5, TableKept DEF RewardsInv

LEMMA ReadRewardStep ==
    ASSUME RewardsInv, NEW d \in Pairs, ReadReward(d)
    PROVE  RewardsInv'
<1>1. /\ task = "rewards" /\ index \in Epochs /\ index \in 1..epoch
      /\ UNCHANGED <<task, index, mustExit, epoch, claims, conn, first, rows, indexed, done,
                     racing, late>>
  BY Bounds DEF ReadReward, RewardsInv, Position, TypeOK, Epochs, crawlVars, node, database, history
<1>2. PICK amount \in {RewardOf(d), 0} : reward' = [reward EXCEPT ![d] = amount]
  BY DEF ReadReward
<1>3. claims[d] \in SUBSET Epochs /\ indexed[d] \subseteq claims[d]
  BY DEF RewardsInv, TypeOK, Begun
<1>4. /\ amount \in 0..MaxEpoch
      /\ amount > 0 => /\ \E c \in {0} \cup claims[d] : c < index /\ amount = index - c
                       /\ \A c \in claims[d] : c < index
  <2>1. CASE amount = 0
    BY <2>1, Bounds
  <2>2. CASE amount = Claimable(d, index)
    BY <1>1, <1>3, <2>2, ClaimableSound
  <2> QED
    BY <2>1, <2>2 DEF RewardOf
<1>5. /\ reward' \in [Pairs -> NotAsked..MaxEpoch]
      /\ reward'[d] = amount
      /\ \A b \in Pairs \ {d} : reward'[b] = reward[b]
  BY <1>2, <1>4, Bounds DEF RewardsInv, TypeOK, NotAsked
<1>6. TypeOK'
  <2>1. rare' \in 0..MaxRare
    BY Bounds DEF ReadReward, RewardsInv, TypeOK
  <2> QED
    BY <1>1, <1>5, <2>1 DEF RewardsInv, TypeOK
<1>7. Position' /\ EpochsContiguous'
  BY <1>1 DEF RewardsInv, Position, EpochsContiguous
<1>8. MemorySound'
  <2> SUFFICES ASSUME NEW b \in Pairs, reward'[b] > 0
               PROVE  /\ \E c \in {0} \cup claims[b] : c < index /\ reward'[b] = index - c
                      /\ <<b, index>> \notin racing => \A c \in indexed[b] : c < index
    BY <1>1 DEF MemorySound
  <2>1. CASE b = d
    BY <1>3, <1>4, <1>5, <2>1
  <2>2. CASE b # d
    BY <1>5, <2>2 DEF RewardsInv, MemorySound
  <2> QED
    BY <2>1, <2>2
<1>9. epoch' \in Epochs /\ epoch <= epoch'
  BY <1>1, Bounds DEF RewardsInv, TypeOK, Epochs
<1> QED
  BY <1>1, <1>6, <1>7, <1>8, <1>9, TableKept DEF RewardsInv

\* The amounts in memory become rows of the epoch.
LEMMA Written ==
    ASSUME RewardsInv, WriteRewards
    PROVE  /\ index \in Epochs /\ index <= epoch
           /\ rows' \in [Pairs -> [Epochs -> [amount : 0..MaxEpoch, claimed : BOOLEAN]]]
           /\ Begun' /\ TableSound'
<1>1. /\ index \in Epochs /\ index <= epoch
      /\ UNCHANGED <<epoch, claims, first, indexed, racing, late, rare>>
  BY RowsWritten DEF WriteRewards, RewardsInv, Position, node
<1>2. /\ rows' \in [Pairs -> [Epochs -> [amount : 0..MaxEpoch, claimed : BOOLEAN]]]
      /\ \A d \in Pairs, e \in Epochs :
            rows'[d][e] = IF reward[d] > 0 /\ e = index
                          THEN [amount |-> reward[d], claimed |-> rows[d][e].claimed]
                          ELSE rows[d][e]
  BY RowsWritten DEF RewardsInv
<1>3. ASSUME NEW d \in Pairs, NEW e \in Epochs
      PROVE  \/ rows'[d][e] = rows[d][e]
             \/ /\ reward[d] > 0 /\ e = index
                /\ rows'[d][e].amount = reward[d]
                /\ rows'[d][e].claimed = rows[d][e].claimed
  <2>1. CASE reward[d] > 0 /\ e = index
    <3>1. rows'[d][e] = [amount |-> reward[d], claimed |-> rows[d][e].claimed]
      BY <1>2, <2>1
    <3>2. rows'[d][e].amount = reward[d] /\ rows'[d][e].claimed = rows[d][e].claimed
      BY <3>1
    <3> QED
      BY <2>1, <3>2
  <2>2. CASE ~(reward[d] > 0 /\ e = index)
    BY <1>2, <2>2
  <2> QED
    BY <2>1, <2>2
<1>4. ASSUME NEW d \in Pairs, NEW e \in Epochs
      PROVE  rows'[d][e] # NoRow => e <= epoch
  BY <1>1, <1>3 DEF RewardsInv, Begun
<1>5. Begun'
  BY <1>1, <1>4 DEF RewardsInv, Begun
<1>6. AmountSound'
  <2> SUFFICES ASSUME NEW d \in Pairs, NEW e \in Epochs, rows'[d][e] # NoRow
               PROVE  \E c \in {0} \cup claims[d] : c < e /\ rows'[d][e].amount = e - c
    BY <1>1 DEF AmountSound
  <2>1. CASE rows'[d][e] = rows[d][e]
    BY <2>1 DEF RewardsInv, TableSound, AmountSound
  <2>2. CASE reward[d] > 0 /\ e = index /\ rows'[d][e].amount = reward[d]
    BY <2>2 DEF RewardsInv, MemorySound
  <2> QED
    BY <1>3, <2>1, <2>2
<1>7. ClaimedNotOffered'
  BY <1>1, <1>3 DEF RewardsInv, TableSound, MemorySound, ClaimedNotOffered
<1>8. MarkedWasClaimed'
  BY <1>1, <1>3 DEF RewardsInv, TableSound, MarkedWasClaimed
<1> QED
  BY <1>1, <1>2, <1>5, <1>6, <1>7, <1>8 DEF TableSound

LEMMA CommitStep ==
    ASSUME RewardsInv, Commit \/ CommitUnheard
    PROVE  RewardsInv'
<1>1. WriteRewards /\ conn' \in {"up", "lost"}
  BY DEF Commit, CommitUnheard, RewardsInv, TypeOK
<1>2. /\ index \in Epochs /\ index <= epoch
      /\ rows' \in [Pairs -> [Epochs -> [amount : 0..MaxEpoch, claimed : BOOLEAN]]]
      /\ Begun' /\ TableSound'
  BY <1>1, Written
<1>3. /\ task = "commit" /\ done' = done \cup {index}
      /\ Forget
      /\ UNCHANGED <<epoch, claims, first, indexed, racing, late, rare>>
  BY <1>1 DEF WriteRewards, node
<1>4. /\ \/ task' = "poll" /\ index' \in {index, index + 1}
         \/ task' = "down" /\ index' = 0
      /\ mustExit' \in BOOLEAN
  <2>1. CASE NextIndex
    BY <2>1 DEF NextIndex, Gone, RewardsInv, TypeOK
  <2>2. CASE FailWith("Database")
    BY <2>2, FailureRepeats DEF RewardsInv, TypeOK
  <2> QED
    BY <2>1, <2>2 DEF Commit, CommitUnheard
<1>5. /\ reward' \in [Pairs -> NotAsked..MaxEpoch]
      /\ \A d \in Pairs : reward'[d] = NotAsked
      /\ MemorySound'
  BY <1>3, Forgotten
<1>6. index' \in 0..(MaxEpoch + 1)
  BY <1>2, <1>4, Bounds DEF Epochs
<1>7. TypeOK'
  BY <1>1, <1>2, <1>3, <1>4, <1>5, <1>6 DEF RewardsInv, TypeOK
<1>8. Position'
  BY <1>2, <1>4, <1>5, Bounds DEF Position, Epochs
<1>9. EpochsContiguous'
  <2> SUFFICES ASSUME task' # "down", NEW last, last = index' - 1, NEW e \in first..last
               PROVE  e \in done'
    BY <1>3 DEF EpochsContiguous
  <2>1. last \in Int /\ last <= index /\ index \in Int /\ first \in Int
    BY <1>2, <1>4, Bounds DEF RewardsInv, TypeOK, Epochs
  <2>2. e \in Int /\ first <= e /\ e <= index
    BY <2>1
  <2>3. e \in first..(index - 1) \/ e = index
    BY <2>1, <2>2
  <2> QED
    BY <1>3, <2>3 DEF RewardsInv, EpochsContiguous
<1> QED
  BY <1>2, <1>5, <1>7, <1>8, <1>9 DEF RewardsInv

\* A failure, a signal, a lost connection and the end of the process.
LEMMA ProcessStep ==
    ASSUME RewardsInv, AttemptFails \/ ConnectionLost \/ Signal \/ Killed \/ UNCHANGED vars
    PROVE  RewardsInv'
<1>1. /\ UNCHANGED <<epoch, claims, first, rows, indexed, done, racing, late, rare>>
      /\ conn' \in {"up", "lost"} /\ mustExit' \in BOOLEAN
  <2>1. CASE AttemptFails
    BY <2>1, FailureRepeats DEF AttemptFails, node, database, history, RewardsInv, TypeOK
  <2>2. CASE ConnectionLost
    BY <2>2 DEF ConnectionLost, crawlVars, node, database, history, RewardsInv, TypeOK
  <2>3. CASE Signal
    BY <2>3 DEF Signal, CtrlC, node, process, database, history, RewardsInv, TypeOK
  <2>4. CASE Killed
    BY <2>4 DEF Killed, Crash, Gone, node, database, history, RewardsInv, TypeOK
  <2>5. CASE UNCHANGED vars
    BY <2>5 DEF vars, crawlVars, node, process, database, history, RewardsInv, TypeOK
  <2> QED
    BY <2>1, <2>2, <2>3, <2>4, <2>5
<1>2. \/ UNCHANGED <<task, index, reward>>
      \/ /\ Forget
         /\ \/ task # "down" /\ task' = "poll" /\ index' = index
            \/ task' = "down" /\ index' = 0
  <2>1. CASE AttemptFails
    BY <2>1, FailureRepeats DEF AttemptFails, RewardsInv, TypeOK
  <2>2. CASE ConnectionLost
    BY <2>2 DEF ConnectionLost, crawlVars
  <2>3. CASE Signal
    BY <2>3 DEF Signal, CtrlC, process
  <2>4. CASE Killed
    BY <2>4 DEF Killed, Crash, Gone
  <2>5. CASE UNCHANGED vars
    BY <2>5 DEF vars, crawlVars, process
  <2> QED
    BY <2>1, <2>2, <2>3, <2>4, <2>5
<1>3. /\ reward' \in [Pairs -> NotAsked..MaxEpoch]
      /\ MemorySound' /\ Position'
  <2>1. CASE UNCHANGED <<task, index, reward>>
    BY <1>1, <2>1 DEF RewardsInv, TypeOK, MemorySound, Position
  <2>2. CASE Forget /\ \/ task # "down" /\ task' = "poll" /\ index' = index
                       \/ task' = "down"
    BY <2>2, Forgotten DEF RewardsInv, Position
  <2> QED
    BY <1>2, <2>1, <2>2
<1>4. index' \in 0..(MaxEpoch + 1) /\ task' \in {"down", "poll", "rewards", "commit"}
  BY <1>2, Bounds DEF RewardsInv, TypeOK
<1>5. TypeOK'
  BY <1>1, <1>3, <1>4 DEF RewardsInv, TypeOK
<1>6. EpochsContiguous'
  BY <1>1, <1>2 DEF RewardsInv, EpochsContiguous
<1>7. epoch' \in Epochs /\ epoch <= epoch'
  BY <1>1, Bounds DEF RewardsInv, TypeOK, Epochs
<1> QED
  BY <1>1, <1>3, <1>5, <1>6, <1>7, TableKept DEF RewardsInv

LEMMA RewardsNext ==
    ASSUME RewardsInv, [Next]_vars
    PROVE  RewardsInv'
<1>1. CASE NewEpoch
  BY <1>1, NewEpochStep
<1>2. ASSUME NEW d \in Pairs, Claim(d)
      PROVE  RewardsInv'
  BY <1>2, ClaimStep
<1>3. ASSUME NEW d \in Pairs, NEW c \in Epochs, IndexClaim(d, c)
      PROVE  RewardsInv'
  BY <1>3, IndexClaimStep
<1>4. CASE Start
  <2>1. epoch \in Epochs /\ rare' \in 0..MaxRare
    BY <1>4 DEF Start, RewardsInv, TypeOK
  <2> QED
    BY <1>4, <2>1, BeginStep DEF Start
<1>5. ASSUME NEW e \in Epochs, StartBackfill(e)
      PROVE  RewardsInv'
  <2>1. rare' \in 0..MaxRare
    BY <1>5, Bounds DEF StartBackfill, RewardsInv, TypeOK
  <2> QED
    BY <1>5, <2>1, BeginStep DEF StartBackfill
<1>6. CASE ReadPairs
  BY <1>6, ProceedStep DEF ReadPairs, Proceed
<1>7. ASSUME NEW d \in Pairs, ReadReward(d)
      PROVE  RewardsInv'
  BY <1>7, ReadRewardStep
<1>8. CASE RewardsRead
  BY <1>8, ProceedStep DEF RewardsRead, Proceed
<1>9. CASE Commit \/ CommitUnheard
  BY <1>9, CommitStep
<1>10. CASE AttemptFails \/ ConnectionLost \/ Signal \/ Killed \/ UNCHANGED vars
  BY <1>10, ProcessStep
<1> QED
  BY <1>1, <1>2, <1>3, <1>4, <1>5, <1>6, <1>7, <1>8, <1>9, <1>10 DEF Next, ChainSteps, Work

LEMMA RewardsCorrect == Spec => []RewardsInv
  BY RewardsInit, RewardsNext, PTL DEF Spec

-----------------------------------------------------------------------------

\* Every variable of the rewards indexer keeps its type (rewards/src/main.rs).
THEOREM RewardsTypeCorrect == Spec => []TypeOK
<1>1. RewardsInv => TypeOK
  BY DEF RewardsInv
<1> QED
  BY <1>1, RewardsCorrect, PTL

\* The amount of a row is what the delegation could claim in its epoch, however
\* often the epoch is taken (rewards/src/repository/pos_rewards.rs).
THEOREM AmountsCorrect == Spec => []AmountSound
<1>1. RewardsInv => AmountSound
  BY DEF RewardsInv, TableSound
<1> QED
  BY <1>1, RewardsCorrect, PTL

\* What was claimed in its epoch or later is not offered, but for an amount that was
\* in memory when the claim was indexed (chain/src/repository/pos.rs).
THEOREM OffersCorrect == Spec => []ClaimedNotOffered
<1>1. RewardsInv => ClaimedNotOffered
  BY DEF RewardsInv, TableSound
<1> QED
  BY <1>1, RewardsCorrect, PTL

\* What is marked as claimed was claimed, unless a claim is indexed after the epoch
\* of the row began (chain/src/repository/pos.rs).
THEOREM MarksCorrect == Spec => []MarkedWasClaimed
<1>1. RewardsInv => MarkedWasClaimed
  BY DEF RewardsInv, TableSound
<1> QED
  BY <1>1, RewardsCorrect, PTL

\* A process passes over no epoch (rewards/src/main.rs, shared/src/crawler.rs).
THEOREM EpochsCorrect == Spec => []EpochsContiguous
<1>1. RewardsInv => EpochsContiguous
  BY DEF RewardsInv
<1> QED
  BY <1>1, RewardsCorrect, PTL
=============================================================================
