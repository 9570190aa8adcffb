----------------------------- MODULE Governance -----------------------------
(***************************************************************************)
(* The governance indexer (governance/src/main.rs) and what the chain      *)
(* indexer does to its table.  The chain indexer inserts the proposals of  *)
(* a block, and inserts them again whenever it takes that block again or   *)
(* writes a snapshot; the conflict clause puts the row back to `pending`.  *)
(* The governance indexer ticks: it reads the epoch, the rows that still   *)
(* run, their tallies, the rows to execute and the payments to list, with  *)
(* a query each, and writes everything in one transaction.                 *)
(*                                                                         *)
(* The loop is the one of Crawl; the tick does not look at its index, so   *)
(* neither the index nor the error of an attempt matters here.             *)
(***************************************************************************)
EXTENDS Integers, FiniteSets

CONSTANTS
    Proposals,
    Schedule,       \* the epochs of a proposal: submit, start, end, activation
    Recipients,
    Retro, Add, Remove,     \* the recipients of the PGF actions of a proposal
    Outcomes,       \* how the votes end: the assignments considered
    MaxEpoch,       \* bound: the epochs of the chain
    MaxRare         \* bound: repeated insertions and lost lookups, together

Epochs == 1..MaxEpoch

ASSUME BoundsAssumption ==
    MaxEpoch \in Nat \ {0} /\ MaxRare \in Nat /\ IsFiniteSet(Proposals)

\* Voting begins after the submission, and the proposal is executed after a grace
\* period.
ASSUME ScheduleAssumption ==
    /\ Schedule \in [Proposals -> [submit : Nat, start : Nat, end : Nat, activation : Nat]]
    /\ \A p \in Proposals :
          /\ Schedule[p].submit < Schedule[p].start
          /\ Schedule[p].start < Schedule[p].end
          /\ Schedule[p].end < Schedule[p].activation
    /\ {Retro, Add, Remove} \subseteq [Proposals -> SUBSET Recipients]

Verdicts == {"passed", "rejected"}

ASSUME OutcomesAssumption == Outcomes \subseteq [Proposals -> Verdicts]

\* GovernanceProposalResult, and "none" without a row.
Running == {"pending", "votingPeriod"}
Executed == {"executedPassed", "executedRejected"}
Results == Running \cup Verdicts \cup Executed

VARIABLES
    epoch,          \* node: the current epoch
    verdict,        \* node: how the vote on a proposal ends
    task,           \* process: the phase of the tick, "down" without a process
    conn,           \* process: the one database connection, "up" or "lost"
    tickEpoch,      \* process: the epoch read at the beginning of the tick
    running,        \* process: the rows to be tallied that were read,
    statuses,       \* process:    and the result and the votes read of each
    executed,       \* process: the rows to be executed that were read
    payments,       \* process: the proposals whose payments were read
    result,         \* database: governance_proposals.result, "none" without a row
    votes,          \* database: the votes of the row: "none", "partial", "final"
    funding,        \* database: public_good_funding, with the recurrence
    reset,          \* history: rows inserted again since this tick read them to be
                    \*    executed, with the phase of the tick
    raced,          \* history: executed by a tick after it was reset so, and not
                    \*    inserted again since
    unpaid,         \* history: executed by a tick that could not see its payments
    rare            \* how many of the rare events happened

node == <<epoch, verdict>>
history == <<reset, raced, unpaid>>
tick == <<tickEpoch, running, statuses, executed, payments>>
database == <<result, votes, funding>>
vars == <<node, task, conn, tick, database, history, rare>>

-----------------------------------------------------------------------------
(* The node and the chain indexer.                                         *)

NewEpoch ==
    /\ epoch < MaxEpoch
    /\ epoch' = epoch + 1
    /\ UNCHANGED <<verdict, task, conn, tick, database, history, rare>>

\* Faulty variant: the conflict clause does nothing to the result.
PendingKept(S) ==
    [p \in Proposals |-> IF p \in S /\ result[p] = "none" THEN "pending" ELSE result[p]]

\* ON CONFLICT DO UPDATE: the result and the votes take their default values.
Pending(S) == [p \in Proposals |-> IF p \in S THEN "pending" ELSE result[p]]

\* The rows the tick holds as rows to execute, between reading and writing them.
AboutToExecute == {p \in Proposals : \E v \in Verdicts : <<p, v>> \in executed}

\* A block with the proposals of S, for the first time or again, or a snapshot
\* (which inserts what it read the author of).
InsertProposals(S) ==
    LET again == {p \in S : result[p] # "none"} IN
    /\ S # {} /\ \A p \in S : Schedule[p].submit <= epoch
    /\ rare' = IF again = {} THEN rare ELSE rare + 1
    /\ rare' <= MaxRare
    /\ result' = Pending(S)
    /\ votes' = [p \in Proposals |-> IF p \in S THEN "none" ELSE votes[p]]
    /\ reset' = reset \cup {<<p, task>> : p \in S \cap AboutToExecute}
    /\ raced' = raced \ S
    /\ UNCHANGED <<node, task, conn, tick, funding, unpaid>>

-----------------------------------------------------------------------------
(* A tick: crawling_fn.                                                    *)

NotRead == [result |-> "none", votes |-> "none"]

NoTick ==
    /\ tickEpoch' = 0
    /\ running' = {} /\ executed' = {} /\ payments' = {} /\ reset' = {}
    /\ statuses' = [p \in Proposals |-> NotRead]

Start ==
    /\ task = "down"
    /\ task' = "poll" /\ conn' = "up"
    /\ UNCHANGED <<node, tick, database, history, rare>>

Query(phase, next) ==
    /\ task = phase
    /\ task' = next
    /\ UNCHANGED <<node, conn, database, history, rare>>

\* query_last_epoch, when sleep_for has passed since the last tick.
ReadEpoch ==
    /\ Query("poll", "running")
    /\ tickEpoch' = epoch
    /\ UNCHANGED <<running, statuses, executed, payments>>

\* Faulty variant: rejected proposals that were executed are tallied again.
StillRunningOrRejected == {p \in Proposals : result[p] \in Running \cup {"executedRejected"}}

\* get_all_running_proposals.
StillRunning == {p \in Proposals : result[p] \in Running}

ReadRunning ==
    /\ Query("running", "tally") /\ conn = "up"
    /\ running' = StillRunning
    /\ UNCHANGED <<tickEpoch, statuses, executed, payments>>

\* Faulty variant: the vote is taken to be over when it begins.
ResultFromStart(p) ==
    IF tickEpoch >= Schedule[p].start THEN verdict[p] ELSE "pending"

\* The result shown for the tally of the node, by the epoch of the tick.
ResultOf(p) ==
    CASE tickEpoch >= Schedule[p].end -> verdict[p]
      [] tickEpoch \in Schedule[p].start..(Schedule[p].end - 1) -> "votingPeriod"
      [] OTHER -> "pending"

VotesOf(p) == IF epoch >= Schedule[p].end THEN "final" ELSE "partial"

\* get_governance_proposals_updates drops the proposals whose query fails (the
\* queries of one tick are taken together here).
ReadTallies ==
    /\ task = "tally"
    /\ task' = "executed"
    /\ \E lost \in SUBSET running :
          /\ rare' = rare + Cardinality(lost)
          /\ rare' <= MaxRare
          /\ statuses' = [p \in Proposals |->
                IF p \in running \ lost THEN [result |-> ResultOf(p), votes |-> VotesOf(p)]
                ELSE NotRead]
    /\ UNCHANGED <<node, conn, tickEpoch, running, executed, payments, database, history>>

\* Faulty variant: earlier activation epochs are not looked at.
EndedNow(e) == {p \in Proposals : result[p] \in Verdicts /\ Schedule[p].activation = e}

\* get_all_executed_proposals.
ToExecute(e) == {p \in Proposals : result[p] \in Verdicts /\ Schedule[p].activation <= e}

ReadExecuted ==
    /\ Query("executed", "pgf") /\ conn = "up"
    /\ executed' = {<<p, result[p]>> : p \in ToExecute(tickEpoch)}
    /\ UNCHANGED <<tickEpoch, running, statuses, payments>>

\* Faulty variants: every proposal that passed is paid; only earlier ones are.
PassedBy(e) == {p \in Proposals : result[p] = "passed"}
ActivatedBefore(e) == {p \in Proposals : result[p] = "passed" /\ Schedule[p].activation < e}

\* get_all_pgf_executed_proposals_data: the activation epoch is this one.
ToPay(e) == {p \in Proposals : result[p] = "passed" /\ Schedule[p].activation = e}

ReadPayments ==
    /\ Query("pgf", "commit") /\ conn = "up"
    /\ payments' = ToPay(tickEpoch)
    /\ UNCHANGED <<tickEpoch, running, statuses, executed>>

Answered == {p \in running : statuses[p] # NotRead}

\* The statuses, then the results of the executed rows: an update finds the row
\* by its id, whatever became of it since it was read.
UpdateResults ==
    [p \in Proposals |->
        IF <<p, "passed">> \in executed THEN "executedPassed"
        ELSE IF <<p, "rejected">> \in executed THEN "executedRejected"
        ELSE IF p \in Answered THEN statuses[p].result ELSE result[p]]

UpdateVotes ==
    [p \in Proposals |-> IF p \in Answered THEN statuses[p].votes ELSE votes[p]]

\* The rows of the payments that were read, before the unique index.
Asked ==
    UNION {{<<p, r, "retro">> : r \in Retro[p]} \cup {<<p, r, "continuous">> : r \in Add[p]}
           : p \in payments}

SameKey(f, g) == f[1] = g[1] /\ f[2] = g[2]

\* ON CONFLICT DO NOTHING on (receipient, proposal_id): a row that is there stays,
\* and of two payments of a proposal to one recipient the one that is first in the
\* order of the SDK's PGFAction is inserted.
Inserted(first) ==
    {f \in Asked : /\ \A g \in funding : ~SameKey(f, g)
                   /\ \A g \in Asked : SameKey(f, g) /\ g[3] = first => f[3] = first}

\* update_pgf: then the continuous payments to the recipients that are removed are
\* deleted, those of other proposals too.
UpdateFunding(first) ==
    {f \in funding \cup Inserted(first) :
        ~(f[3] = "continuous" /\ \E b \in payments : f[2] \in Remove[b])}

\* The rows to execute whose payments this tick does not read: their activation
\* epoch is over, or they were inserted again between the two queries.
PaymentsUnseen ==
    {p \in Proposals : /\ <<p, "passed">> \in executed
                       /\ tickEpoch > Schedule[p].activation \/ <<p, "pgf">> \in reset}

Commit ==
    /\ task = "commit" /\ conn = "up"
    /\ result' = UpdateResults
    /\ votes' = UpdateVotes
    /\ \E first \in {"retro", "continuous"} : funding' = UpdateFunding(first)
    /\ raced' = raced \cup {q[1] : q \in reset}
    /\ unpaid' = (unpaid \ payments) \cup PaymentsUnseen
    /\ UNCHANGED <<node, rare>>

Ticks == Commit /\ NoTick /\ task' = "poll" /\ UNCHANGED conn

\* The transaction is committed, but the connection breaks before the client hears
\* of it; or a call of the node or of the database fails.  RetryIf ticks again.
CommitUnheard == Commit /\ NoTick /\ task' = "poll" /\ conn' = "lost"

TickFails ==
    /\ task \notin {"down", "poll"}
    /\ NoTick /\ task' = "poll"
    /\ UNCHANGED <<node, conn, database, raced, unpaid, rare>>

ConnectionLost ==
    /\ task # "down" /\ conn = "up"
    /\ conn' = "lost"
    /\ UNCHANGED <<node, task, tick, database, history, rare>>

\* Killed, or Ctrl-C, which ends the loop after the attempt.
Stopped ==
    /\ task # "down"
    /\ NoTick /\ task' = "down"
    /\ UNCHANGED <<node, conn, database, raced, unpaid, rare>>

-----------------------------------------------------------------------------

Init ==
    /\ epoch = 1
    /\ verdict \in Outcomes
    /\ task = "down" /\ conn = "lost"
    /\ tickEpoch = 0 /\ running = {} /\ executed = {} /\ payments = {}
    /\ statuses = [p \in Proposals |-> NotRead]
    /\ result = [p \in Proposals |-> "none"]
    /\ votes = [p \in Proposals |-> "none"]
    /\ funding = {}
    /\ reset = {} /\ raced = {} /\ unpaid = {}
    /\ rare = 0

Tick ==
    \/ ReadEpoch
    \/ ReadRunning
    \/ ReadTallies
    \/ ReadExecuted
    \/ ReadPayments
    \/ Ticks
    \/ CommitUnheard
    \/ TickFails

Next ==
    \/ NewEpoch
    \/ \E S \in SUBSET Proposals : InsertProposals(S)
    \/ Start
    \/ Tick
    \/ ConnectionLost
    \/ Stopped

Spec == Init /\ [][Next]_vars

(***************************************************************************)
(* Fairness.  Epochs follow one another, docker restarts the process, and  *)
(* a query that can succeed again and again succeeds at last.              *)
(***************************************************************************)
Fairness ==
    /\ WF_vars(NewEpoch)
    /\ WF_vars(Start)
    /\ SF_vars(ReadEpoch)
    /\ SF_vars(ReadRunning)
    /\ SF_vars(ReadTallies)
    /\ SF_vars(ReadExecuted)
    /\ SF_vars(ReadPayments)
    /\ SF_vars(Ticks)

FairSpec == Spec /\ Fairness

-----------------------------------------------------------------------------
(* The properties.                                                         *)

TypeOK ==
    /\ epoch \in Epochs
    /\ verdict \in [Proposals -> Verdicts]
    /\ task \in {"down", "poll", "running", "tally", "executed", "pgf", "commit"}
    /\ conn \in {"up", "lost"}
    /\ tickEpoch \in 0..MaxEpoch
    /\ running \subseteq Proposals
    /\ statuses \in [Proposals -> [result : Running \cup Verdicts, votes : {"partial", "final"}]
                                    \cup {NotRead}]
    /\ executed \subseteq Proposals \X Verdicts
    /\ payments \subseteq Proposals
    /\ result \in [Proposals -> Results \cup {"none"}]
    /\ votes \in [Proposals -> {"none", "partial", "final"}]
    /\ funding \subseteq Proposals \X Recipients \X {"retro", "continuous"}
    /\ reset \subseteq Proposals \X {"pgf", "commit"}
    /\ raced \subseteq Proposals
    /\ unpaid \subseteq Proposals
    /\ rare \in 0..MaxRare

\* A result is never ahead of the chain: the vote is over when a verdict is shown,
\* and it is the verdict of the chain; the activation epoch has come when the
\* proposal is shown as executed.  The epoch, the tally and the row are read at
\* different times, and the row may be inserted again in between.
ResultSound ==
    \A p \in Proposals :
        /\ result[p] \in {"passed", "executedPassed"}
              => verdict[p] = "passed" /\ epoch >= Schedule[p].end
        /\ result[p] \in {"rejected", "executedRejected"}
              => verdict[p] = "rejected" /\ epoch >= Schedule[p].end
        /\ result[p] \in Executed => epoch >= Schedule[p].activation

\* The votes shown with a verdict are the final ones, however often the chain
\* indexer inserts the proposal again, but for one case: the row was inserted again
\* after a tick had read it as one to execute and before that tick wrote it.  It is
\* then executed without votes, until it is inserted once more.
FinalVotes ==
    \A p \in Proposals \ raced :
        result[p] \in Verdicts \cup Executed => votes[p] = "final"

\* A payment is listed only for a proposal that passed and was activated, and that
\* has it among its actions.
FundingSound ==
    \A f \in funding :
        /\ verdict[f[1]] = "passed" /\ epoch >= Schedule[f[1]].activation
        /\ f[2] \in IF f[3] = "retro" THEN Retro[f[1]] ELSE Add[f[1]]

Rank(r) ==
    CASE r = "none" -> 0
      [] r = "pending" -> 1
      [] r = "votingPeriod" -> 2
      [] r \in Verdicts -> 3
      [] OTHER -> 4

\* A tick never takes a result back, whatever the chain indexer did to the row
\* since the tick read it.
ResultsAdvance ==
    [][ task = "commit" /\ task' = "poll"
          => \A p \in Proposals : Rank(result'[p]) >= Rank(result[p]) ]_vars

\* A later proposal that passed takes the recipient off the list.
RemovedBy(p, r) ==
    \E b \in Proposals : /\ r \in Remove[b] /\ verdict[b] = "passed"
                         /\ Schedule[b].activation \in Schedule[p].activation..epoch

\* Every proposal shown as passed and executed has its payments listed, whatever was
\* inserted again between the queries, but for the two ways a tick executes a
\* proposal whose payments it does not see: it comes after the activation epoch, or
\* the row was inserted again between the query of the rows to execute and that of
\* the payments.  Of two payments to one recipient one is listed, and a continuous
\* one may have been removed by a later proposal.
PaidWhenExecuted ==
    \A p \in Proposals \ unpaid : result[p] = "executedPassed" =>
        /\ \A r \in Retro[p] \ Add[p] : <<p, r, "retro">> \in funding
        /\ \A r \in Add[p] \ Retro[p] :
              <<p, r, "continuous">> \in funding \/ RemovedBy(p, r)
        /\ \A r \in Add[p] \cap Retro[p] :
              \/ {<<p, r, "retro">>, <<p, r, "continuous">>} \cap funding # {}
              \/ RemovedBy(p, r)

\* A proposal that is in the table, from which no row is deleted, is shown as
\* executed at last and for ever, in spite of repeated insertions, lost lookups,
\* failing ticks and restarts, if from some moment on the process has a connection
\* that holds.
EventuallyExecuted ==
    <>[](task # "down" => conn = "up")
        => \A p \in Proposals : []<>(result[p] # "none") => <>[](result[p] \in Executed)
=============================================================================
