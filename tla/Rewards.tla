------------------------------ MODULE Rewards ------------------------------
(***************************************************************************)
(* The rewards indexer (rewards/src/main.rs) and what the chain indexer    *)
(* does to its table.  The rewards indexer crawls epochs: it asks the node *)
(* what each delegation could claim in the epoch, one query after the      *)
(* other, and upserts the amounts that are not zero.  It records no        *)
(* progress: a process begins with the current epoch, or where an operator *)
(* tells it to.  The chain indexer marks the rows of a delegation as       *)
(* claimed when it comes to the block of a claim.                          *)
(*                                                                         *)
(* An epoch earns a delegation one unit; a claim takes what accrued up to  *)
(* the epoch it is made in.                                                *)
(***************************************************************************)
EXTENDS Crawl, FiniteSets

CONSTANTS
    Pairs,          \* a delegator and a validator
    MaxEpoch,       \* bound: the epochs of the chain
    MaxClaims,      \* bound: the claims of a delegation
    MaxRare         \* bound: lost lookups, repeated claim blocks and backfills

Epochs == 1..MaxEpoch

ASSUME BoundsAssumption ==
    /\ MaxEpoch \in Nat \ {0}
    /\ {MaxClaims, MaxRare} \subseteq Nat
    /\ IsFiniteSet(Pairs)

VARIABLES
    epoch,          \* node: the current epoch
    claims,         \* node: the epochs in which a delegation was claimed
    conn,           \* process: the one database connection, "up" or "lost"
    first,          \* process: the epoch it began with
    reward,         \* process: the amount read of a delegation in this attempt
    rows,           \* database: pos_rewards by delegation and epoch
    indexed,        \* database: the claims that the chain indexer came to
    done,           \* history: the epochs that this process committed
    racing,         \* history: rows of which a claim was indexed during the attempt
    late,           \* history: rows of later epochs than a claim indexed too late
    rare            \* how many of the rare events happened

node == <<epoch, claims>>
process == <<conn, first, reward>>
database == <<rows, indexed>>
history == <<done, racing, late>>
vars == <<crawlVars, node, process, database, history, rare>>

NoRow == [amount |-> 0, claimed |-> FALSE]
NotAsked == -1

Latest(S) == IF S = {} THEN 0 ELSE CHOOSE e \in S : \A f \in S : f <= e

\* What a delegation can claim in an epoch, as the node knows it now.
Claimable(d, e) ==
    IF e > Latest(claims[d]) THEN e - Latest(claims[d]) ELSE 0

-----------------------------------------------------------------------------
(* The node and the chain indexer.                                         *)

NewEpoch ==
    /\ epoch < MaxEpoch
    /\ epoch' = epoch + 1
    /\ UNCHANGED <<crawlVars, claims, process, database, history, rare>>

Claim(d) ==
    /\ Cardinality(claims[d]) < MaxClaims
    /\ epoch \notin claims[d]
    /\ claims' = [claims EXCEPT ![d] = @ \cup {epoch}]
    /\ UNCHANGED <<crawlVars, epoch, process, database, history, rare>>

\* Faulty variants: the validator is not looked at; only the rows of the epoch of
\* the claim are marked.
MarkOwner(d, c) ==
    [b \in Pairs |-> [e \in Epochs |->
        [rows[b][e] EXCEPT !.claimed = @ \/ rows[b][e] # NoRow]]]
MarkEpoch(d, c) ==
    [rows EXCEPT ![d] = [e \in Epochs |->
        [rows[d][e] EXCEPT !.claimed = @ \/ (e = c /\ rows[d][e] # NoRow)]]]

\* delete_claimed_rewards: every row of the delegation, whatever its epoch.
MarkClaimed(d, c) ==
    [rows EXCEPT ![d] = [e \in Epochs |->
        [rows[d][e] EXCEPT !.claimed = @ \/ rows[d][e] # NoRow]]]

\* The chain indexer comes to the block of a claim, for the first time in order,
\* or once more (a trial, an unheard commit, a backfill).
IndexClaim(d, c) ==
    /\ c \in claims[d]
    /\ \A b \in claims[d] \ indexed[d] : c <= b
    /\ rare' = IF c \in indexed[d] THEN rare + 1 ELSE rare
    /\ rare' <= MaxRare
    /\ rows' = MarkClaimed(d, c)
    /\ indexed' = [indexed EXCEPT ![d] = @ \cup {c}]
    /\ racing' = IF task \in {"rewards", "commit"} /\ reward[d] # NotAsked
                 THEN racing \cup {<<d, index>>} ELSE racing
    /\ late' = late \cup {<<d, e>> : e \in (c + 1)..epoch}
    /\ UNCHANGED <<crawlVars, node, process, done>>

-----------------------------------------------------------------------------
(* The process.                                                            *)

Forget == reward' = [d \in Pairs |-> NotAsked]

Begin(e) ==
    /\ task = "down"
    /\ CrawlFrom(e)
    /\ conn' = "up" /\ first' = e /\ done' = {}
    /\ UNCHANGED <<node, reward, database, racing, late>>

\* main() waits for the second epoch.
Start == epoch >= 2 /\ Begin(epoch) /\ UNCHANGED rare

\* --backfill-from
StartBackfill(e) == rare < MaxRare /\ Begin(e) /\ rare' = rare + 1

\* can_process, and the delegations of the node.
ReadPairs ==
    /\ task = "poll"
    /\ epoch >= index
    /\ Proceed("rewards")
    /\ UNCHANGED <<node, process, database, history, rare>>

\* Faulty variant: the reward of the current epoch is asked for.
ClaimableNow(d) == Claimable(d, epoch)

\* The reward of the epoch that is crawled.
RewardOf(d) == Claimable(d, index)

\* process_batch drops a delegation whose query fails.
ReadReward(d) ==
    /\ task = "rewards" /\ reward[d] = NotAsked
    /\ \/ reward' = [reward EXCEPT ![d] = RewardOf(d)] /\ UNCHANGED rare
       \/ reward' = [reward EXCEPT ![d] = 0] /\ rare < MaxRare /\ rare' = rare + 1
    /\ UNCHANGED <<crawlVars, node, conn, first, database, history>>

RewardsRead ==
    /\ task = "rewards"
    /\ \A d \in Pairs : reward[d] # NotAsked
    /\ Proceed("commit")
    /\ UNCHANGED <<node, process, database, history, rare>>

\* upsert_rewards: the conflict clause sets the amount only.
Upsert(row, amount) == [row EXCEPT !.amount = amount]

WriteRewards ==
    /\ task = "commit" /\ conn = "up"
    /\ rows' = [d \in Pairs |->
                  IF reward[d] > 0
                  THEN [rows[d] EXCEPT ![index] = Upsert(@, reward[d])] ELSE rows[d]]
    /\ done' = done \cup {index}
    /\ Forget
    /\ UNCHANGED <<node, first, indexed, racing, late, rare>>

Commit == WriteRewards /\ NextIndex /\ UNCHANGED conn

CommitUnheard == WriteRewards /\ FailWith("Database") /\ conn' = "lost"

\* The epoch has not begun, the node fails, or the database does.
AttemptFails ==
    /\ task # "down"
    /\ \E error \in {"NoAction", "RpcError", "Database"} : FailWith(error)
    /\ Forget
    /\ UNCHANGED <<node, conn, first, database, history, rare>>

ConnectionLost ==
    /\ task # "down" /\ conn = "up"
    /\ conn' = "lost"
    /\ UNCHANGED <<crawlVars, node, first, reward, database, history, rare>>

Signal == CtrlC /\ UNCHANGED <<node, process, database, history, rare>>

Killed == Crash /\ Forget /\ UNCHANGED <<node, conn, first, database, history, rare>>

-----------------------------------------------------------------------------

Init ==
    /\ CrawlInit
    /\ epoch = 1
    /\ claims = [d \in Pairs |-> {}]
    /\ conn = "lost" /\ first = 0
    /\ reward = [d \in Pairs |-> NotAsked]
    /\ rows = [d \in Pairs |-> [e \in Epochs |-> NoRow]]
    /\ indexed = [d \in Pairs |-> {}]
    /\ done = {} /\ racing = {} /\ late = {}
    /\ rare = 0

ChainSteps ==
    \/ NewEpoch
    \/ \E d \in Pairs : Claim(d) \/ \E c \in Epochs : IndexClaim(d, c)

Work ==
    \/ ReadPairs
    \/ \E d \in Pairs : ReadReward(d)
    \/ RewardsRead
    \/ Commit
    \/ CommitUnheard
    \/ AttemptFails

Next ==
    \/ ChainSteps
    \/ Start
    \/ \E e \in Epochs : StartBackfill(e)
    \/ Work
    \/ ConnectionLost
    \/ Signal
    \/ Killed

Spec == Init /\ [][Next]_vars

-----------------------------------------------------------------------------
(* The properties.                                                         *)

TypeOK ==
    /\ task \in {"down", "poll", "rewards", "commit"}
    /\ index \in 0..(MaxEpoch + 1)
    /\ mustExit \in BOOLEAN
    /\ epoch \in Epochs
    /\ claims \in [Pairs -> SUBSET Epochs]
    /\ conn \in {"up", "lost"}
    /\ first \in 0..MaxEpoch
    /\ reward \in [Pairs -> NotAsked..MaxEpoch]
    /\ rows \in [Pairs -> [Epochs -> [amount : 0..MaxEpoch, claimed : BOOLEAN]]]
    /\ indexed \in [Pairs -> SUBSET Epochs]
    /\ done \subseteq Epochs
    /\ racing \subseteq Pairs \X Epochs
    /\ late \subseteq Pairs \X Epochs
    /\ rare \in 0..MaxRare

\* The amount in a row is what the delegation could claim in that epoch at some
\* time: it accrued since one of the claims before, and is not counted twice,
\* however often the epoch is taken.
AmountSound ==
    \A d \in Pairs, e \in Epochs :
        rows[d][e] # NoRow =>
            \E c \in {0} \cup claims[d] : c < e /\ rows[d][e].amount = e - c

\* A reward is not offered for claiming once the chain indexer came to a claim in
\* its epoch or later, unless that was while the rewards indexer held the amount
\* in memory.
ClaimedNotOffered ==
    \A d \in Pairs, e \in Epochs :
        (/\ rows[d][e] # NoRow /\ ~rows[d][e].claimed
         /\ <<d, e>> \notin racing)
        => \A c \in indexed[d] : c < e

\* A reward that is marked as claimed was claimed, unless the chain indexer came to
\* a claim in a later epoch than that of the claim.
MarkedWasClaimed ==
    \A d \in Pairs, e \in Epochs :
        (rows[d][e].claimed /\ <<d, e>> \notin late) => \E c \in claims[d] : c >= e

\* A process takes every epoch from the one it began with: retries, failures and
\* unheard commits skip none.
EpochsContiguous == task # "down" => first..(index - 1) \subseteq done
=============================================================================
