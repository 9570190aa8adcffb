-------------------------- MODULE GovernanceProofs --------------------------
(***************************************************************************)
(* What the governance indexer shows is never ahead of the chain and never *)
(* taken back by a tick, for every set of proposals, schedule and outcome  *)
(* of the votes.  The chain indexer may insert a proposal again between    *)
(* any two of the queries of a tick.                                       *)
(***************************************************************************)
EXTENDS Governance, FiniteSetTheorems, TLAPS

Reading == {"running", "tally", "executed", "pgf", "commit"}
Tallied == {"tally", "executed", "pgf", "commit"}

\* A verdict of the vote on p is shown with reason.
Decided(p, v) == v = verdict[p] /\ epoch >= Schedule[p].end

\* The voting has begun where the row says so; a tick that read the epoch knows it.
VotingSound ==
    \A p \in Proposals : result[p] = "votingPeriod" =>
        /\ epoch >= Schedule[p].start
        /\ task \in Reading => tickEpoch >= Schedule[p].start

\* What the tick has read holds, and is not behind the rows: another writer only
\* puts a row back to pending.
StatusSound ==
    \A p \in Proposals : statuses[p] # NotRead =>
        /\ p \in running
        /\ statuses[p].result \in Verdicts => Decided(p, statuses[p].result)
        /\ statuses[p].result = "votingPeriod" => tickEpoch >= Schedule[p].start
        /\ statuses[p].result = "pending" => tickEpoch < Schedule[p].start

ReadSound ==
    /\ tickEpoch <= epoch
    /\ task \in Tallied => \A p \in running : result[p] \in Running
    /\ task \in {"down", "poll", "running", "tally"} =>
          \A p \in Proposals : statuses[p] = NotRead
    /\ \A p \in Proposals, v \in Verdicts : <<p, v>> \in executed =>
          v = verdict[p] /\ epoch >= Schedule[p].activation
    /\ \A p \in payments : verdict[p] = "passed" /\ epoch >= Schedule[p].activation
    /\ task \notin {"pgf", "commit"} => executed = {}
    /\ task # "commit" => payments = {}

GovInv == TypeOK /\ ResultSound /\ FundingSound /\ VotingSound /\ StatusSound /\ ReadSound

LEMMA Scheduled ==
    ASSUME NEW p \in Proposals
    PROVE  /\ {Schedule[p].submit, Schedule[p].start, Schedule[p].end, Schedule[p].activation}
                \subseteq Nat
           /\ Schedule[p].start < Schedule[p].end
           /\ Schedule[p].end < Schedule[p].activation
  BY ScheduleAssumption

\* MaxEpoch and MaxRare are numbers, and so are the sizes of sets of proposals.
LEMMA Numbers ==
    /\ MaxEpoch \in Nat \ {0} /\ MaxRare \in Nat
    /\ \A S \in SUBSET Proposals : Cardinality(S) \in Nat
  BY BoundsAssumption, FS_Subset, FS_CardinalityType

-----------------------------------------------------------------------------
(* Preservation.                                                           *)

LEMMA GovInit == Init => GovInv
<1> SUFFICES ASSUME Init PROVE GovInv
  OBVIOUS
<1>1. TypeOK
  BY Numbers, OutcomesAssumption
     DEF Init, TypeOK, Epochs, Results, Running, Executed, NotRead
<1>2. ResultSound /\ FundingSound
  BY DEF Init, ResultSound, FundingSound, Executed
<1>3. VotingSound /\ StatusSound /\ ReadSound
  BY DEF Init, VotingSound, StatusSound, ReadSound, Tallied
<1> QED
  BY <1>1, <1>2, <1>3 DEF GovInv

\* The end of a tick, whatever it came to, forgets what was read.
LEMMA TickForgotten ==
    ASSUME GovInv, NoTick, task' \in {"down", "poll"}, UNCHANGED <<node, rare>>,
           raced' \subseteq Proposals, unpaid' \subseteq Proposals,
           conn' \in {"up", "lost"},
           result' \in [Proposals -> Results \cup {"none"}],
           votes' \in [Proposals -> {"none", "partial", "final"}],
           funding' \subseteq Proposals \X Recipients \X {"retro", "continuous"},
           ResultSound', FundingSound',
           \A p \in Proposals : result'[p] = "votingPeriod" => epoch >= Schedule[p].start
    PROVE  GovInv'
<1>1. TypeOK'
  BY Numbers DEF GovInv, TypeOK, NoTick, node
<1>2. VotingSound'
  BY DEF VotingSound, Reading, node
<1>3. StatusSound' /\ ReadSound'
  BY Numbers DEF StatusSound, ReadSound, Tallied, NoTick, GovInv, TypeOK, Epochs, node, NotRead
<1> QED
  BY <1>1, <1>2, <1>3 DEF GovInv

LEMMA EpochStep == ASSUME GovInv, NewEpoch PROVE GovInv'
<1>1. epoch' = epoch + 1 /\ epoch \in Nat
  BY Numbers DEF NewEpoch, GovInv, TypeOK, Epochs
<1>2. UNCHANGED <<verdict, task, conn, tickEpoch, running, statuses, executed, payments,
                  result, votes, funding, reset, raced, unpaid, rare>>
  BY DEF NewEpoch, tick, database, history
<1>3. TypeOK'
  BY <1>1, <1>2, Numbers DEF NewEpoch, GovInv, TypeOK, Epochs
<1>4. ResultSound' /\ FundingSound'
  <2>1. \A p \in Proposals : /\ epoch >= Schedule[p].end => epoch' >= Schedule[p].end
                             /\ epoch >= Schedule[p].activation => epoch' >= Schedule[p].activation
    BY <1>1, Scheduled
  <2>2. \A f \in funding : f[1] \in Proposals
    BY DEF GovInv, TypeOK
  <2> QED
    BY <1>2, <2>1, <2>2 DEF GovInv, ResultSound, FundingSound
<1>5. VotingSound' /\ StatusSound' /\ ReadSound'
  BY <1>1, <1>2, Scheduled, Numbers
     DEF GovInv, TypeOK, VotingSound, StatusSound, ReadSound, Decided, Epochs
<1> QED
  BY <1>3, <1>4, <1>5 DEF GovInv

LEMMA InsertStep ==
    ASSUME GovInv, NEW S \in SUBSET Proposals, InsertProposals(S)
    PROVE  GovInv'
<1>1. /\ UNCHANGED <<epoch, verdict, task, conn, tickEpoch, running, statuses, executed,
                     payments, funding, unpaid>>
      /\ \A p \in Proposals : /\ p \in S => result'[p] = "pending" /\ votes'[p] = "none"
                              /\ p \notin S => result'[p] = result[p] /\ votes'[p] = votes[p]
      /\ result' = Pending(S)
  BY DEF InsertProposals, Pending, node, tick
<1>2. TypeOK'
  <2>1. result' \in [Proposals -> Results \cup {"none"}]
    BY <1>1 DEF Pending, GovInv, TypeOK, Results, Running
  <2>2. votes' \in [Proposals -> {"none", "partial", "final"}]
    BY DEF InsertProposals, GovInv, TypeOK
  <2>3. raced' \subseteq Proposals
    BY DEF InsertProposals, GovInv, TypeOK
  <2>5. reset' \subseteq Proposals \X {"pgf", "commit"}
    <3>1. \A p \in S \cap AboutToExecute : p \in Proposals /\ task \in {"pgf", "commit"}
      BY DEF AboutToExecute, GovInv, ReadSound
    <3>2. reset' = reset \cup {<<p, task>> : p \in S \cap AboutToExecute}
      BY DEF InsertProposals
    <3> QED
      BY <3>1, <3>2 DEF GovInv, TypeOK
  <2>4. rare' \in 0..MaxRare
    BY Numbers DEF InsertProposals, GovInv, TypeOK
  <2> QED
    BY <1>1, <2>1, <2>2, <2>3, <2>4, <2>5 DEF GovInv, TypeOK
<1>3. ResultSound' /\ FundingSound'
  BY <1>1 DEF GovInv, ResultSound, FundingSound, Executed
<1>4. VotingSound' /\ StatusSound'
  BY <1>1 DEF GovInv, VotingSound, StatusSound, Decided
<1>5. ReadSound'
  BY <1>1 DEF GovInv, TypeOK, ReadSound, Running
<1> QED
  BY <1>2, <1>3, <1>4, <1>5 DEF GovInv

LEMMA ReadEpochStep == ASSUME GovInv, ReadEpoch PROVE GovInv'
<1>1. /\ task = "poll" /\ task' = "running" /\ tickEpoch' = epoch
      /\ UNCHANGED <<epoch, verdict, conn, running, statuses, executed, payments,
                     result, votes, funding, reset, raced, unpaid, rare>>
  BY DEF ReadEpoch, Query, node, database, history
<1>2. TypeOK'
  BY <1>1, Numbers DEF GovInv, TypeOK, Epochs
<1>3. ResultSound' /\ FundingSound'
  BY <1>1 DEF GovInv, ResultSound, FundingSound
<1>4. VotingSound' /\ StatusSound'
  BY <1>1 DEF GovInv, VotingSound, StatusSound, ReadSound, Reading
<1>5. ReadSound'
  BY <1>1, Numbers DEF GovInv, ReadSound, Tallied, TypeOK, Epochs
<1> QED
  BY <1>2, <1>3, <1>4, <1>5 DEF GovInv

LEMMA ReadRunningStep == ASSUME GovInv, ReadRunning PROVE GovInv'
<1>1. /\ task = "running" /\ task' = "tally" /\ running' = StillRunning
      /\ UNCHANGED <<epoch, verdict, conn, tickEpoch, statuses, executed, payments,
                     result, votes, funding, reset, raced, unpaid, rare>>
  BY DEF ReadRunning, Query, node, database, history
<1>2. TypeOK'
  BY <1>1 DEF GovInv, TypeOK, StillRunning
<1>3. ResultSound' /\ FundingSound'
  BY <1>1 DEF GovInv, ResultSound, FundingSound
<1>4. VotingSound' /\ StatusSound'
  BY <1>1 DEF GovInv, VotingSound, StatusSound, ReadSound, Reading
<1>5. ReadSound'
  BY <1>1 DEF GovInv, ReadSound, StillRunning
<1> QED
  BY <1>2, <1>3, <1>4, <1>5 DEF GovInv

\* What ResultOf gives for the epoch of the tick.
LEMMA ResultIsSound ==
    ASSUME GovInv, NEW p \in Proposals
    PROVE  /\ ResultOf(p) \in Running \cup Verdicts
           /\ ResultOf(p) \in Verdicts => Decided(p, ResultOf(p))
           /\ ResultOf(p) = "votingPeriod" => tickEpoch >= Schedule[p].start
           /\ ResultOf(p) = "pending" => tickEpoch < Schedule[p].start
<1>1. tickEpoch \in Nat /\ epoch \in Nat /\ tickEpoch <= epoch /\ verdict[p] \in Verdicts
  BY Numbers DEF GovInv, TypeOK, Epochs, ReadSound
<1>2. CASE tickEpoch >= Schedule[p].end
  BY <1>1, <1>2, Scheduled DEF ResultOf, Verdicts, Running, Decided
<1>3. CASE tickEpoch \in Schedule[p].start..(Schedule[p].end - 1)
  BY <1>1, <1>3, Scheduled DEF ResultOf, Verdicts, Running, Decided
<1>4. CASE /\ ~(tickEpoch >= Schedule[p].end)
           /\ tickEpoch \notin Schedule[p].start..(Schedule[p].end - 1)
  BY <1>1, <1>4, Scheduled DEF ResultOf, Verdicts, Running, Decided
<1> QED
  BY <1>2, <1>3, <1>4

LEMMA ReadTalliesStep == ASSUME GovInv, ReadTallies PROVE GovInv'
<1>1. PICK lost \in SUBSET running :
          /\ rare' = rare + Cardinality(lost)
          /\ rare' <= MaxRare
          /\ statuses' = [p \in Proposals |->
                IF p \in running \ lost THEN [result |-> ResultOf(p), votes |-> VotesOf(p)]
                ELSE NotRead]
  BY DEF ReadTallies
<1>2. /\ task = "tally" /\ task' = "executed"
      /\ UNCHANGED <<epoch, verdict, conn, tickEpoch, running, executed, payments,
                     result, votes, funding, reset, raced, unpaid>>
  BY DEF ReadTallies, node, database, history
<1>3. TypeOK'
  <2>1. rare' \in 0..MaxRare
    BY <1>1, Numbers DEF GovInv, TypeOK
  <2>2. \A p \in Proposals : VotesOf(p) \in {"partial", "final"}
    BY DEF VotesOf
  <2>3. statuses' \in [Proposals -> [result : Running \cup Verdicts, votes : {"partial", "final"}]
                                     \cup {NotRead}]
    BY <1>1, <2>2, ResultIsSound
  <2> QED
    BY <1>2, <2>1, <2>3 DEF GovInv, TypeOK
<1>4. ResultSound' /\ FundingSound'
  BY <1>2 DEF GovInv, ResultSound, FundingSound
<1>5. VotingSound' /\ ReadSound'
  BY <1>2 DEF GovInv, VotingSound, ReadSound, Reading, Tallied
<1>6. StatusSound'
  <2>1. SUFFICES ASSUME NEW p \in Proposals, statuses'[p] # NotRead
                 PROVE  /\ p \in running'
                        /\ statuses'[p].result \in Verdicts =>
                              statuses'[p].result = verdict'[p] /\ epoch' >= Schedule[p].end
                        /\ statuses'[p].result = "votingPeriod" => tickEpoch' >= Schedule[p].start
                        /\ statuses'[p].result = "pending" => tickEpoch' < Schedule[p].start
    BY DEF StatusSound, Decided
  <2>2. p \in running /\ statuses'[p].result = ResultOf(p)
    BY <1>1, <2>1
  <2> QED
    BY <1>2, <2>2, ResultIsSound DEF Decided
<1> QED
  BY <1>3, <1>4, <1>5, <1>6 DEF GovInv

LEMMA ReadExecutedStep == ASSUME GovInv, ReadExecuted PROVE GovInv'
<1>1. /\ task = "executed" /\ task' = "pgf"
      /\ executed' = {<<p, result[p]>> : p \in ToExecute(tickEpoch)}
      /\ UNCHANGED <<epoch, verdict, conn, tickEpoch, running, statuses, payments,
                     result, votes, funding, reset, raced, unpaid, rare>>
  BY DEF ReadExecuted, Query, node, database, history
<1>2. TypeOK'
  BY <1>1 DEF GovInv, TypeOK, ToExecute
<1>3. ResultSound' /\ FundingSound'
  BY <1>1 DEF GovInv, ResultSound, FundingSound
<1>4. VotingSound' /\ StatusSound'
  BY <1>1 DEF GovInv, VotingSound, StatusSound, Reading, Decided
<1>5. ReadSound'
  <2>1. SUFFICES ASSUME NEW p \in Proposals, NEW v \in Verdicts, <<p, v>> \in executed'
                 PROVE  v = verdict[p] /\ epoch >= Schedule[p].activation
    BY <1>1 DEF GovInv, ReadSound, Tallied
  <2>2. v = result[p] /\ Schedule[p].activation <= tickEpoch
    BY <1>1, <2>1 DEF ToExecute
  <2>3. epoch \in Nat /\ tickEpoch \in Nat /\ tickEpoch <= epoch
    BY Numbers DEF GovInv, TypeOK, Epochs, ReadSound
  <2> QED
    BY <2>1, <2>2, <2>3, Scheduled DEF GovInv, ResultSound, Verdicts
<1> QED
  BY <1>2, <1>3, <1>4, <1>5 DEF GovInv

LEMMA ReadPaymentsStep == ASSUME GovInv, ReadPayments PROVE GovInv'
<1>1. /\ task = "pgf" /\ task' = "commit" /\ payments' = ToPay(tickEpoch)
      /\ UNCHANGED <<epoch, verdict, conn, tickEpoch, running, statuses, executed,
                     result, votes, funding, reset, raced, unpaid, rare>>
  BY DEF ReadPayments, Query, node, database, history
<1>2. TypeOK'
  BY <1>1 DEF GovInv, TypeOK, ToPay
<1>3. ResultSound' /\ FundingSound'
  BY <1>1 DEF GovInv, ResultSound, FundingSound
<1>4. VotingSound' /\ StatusSound'
  BY <1>1 DEF GovInv, VotingSound, StatusSound, Reading, Decided
<1>5. ReadSound'
  <2>1. \A p \in payments' : verdict[p] = "passed" /\ epoch >= Schedule[p].activation
    BY <1>1 DEF ToPay, GovInv, ReadSound, ResultSound
  <2> QED
    BY <1>1, <2>1 DEF GovInv, ReadSound, Tallied
<1> QED
  BY <1>2, <1>3, <1>4, <1>5 DEF GovInv

-----------------------------------------------------------------------------
(* The transaction of a tick.                                              *)

\* Where the new result of a row comes from.
LEMMA NewResults ==
    ASSUME GovInv, task = "commit", NEW p \in Proposals
    PROVE  LET r == UpdateResults[p] IN
           \/ r = "executedPassed" /\ <<p, "passed">> \in executed
           \/ r = "executedRejected" /\ <<p, "rejected">> \in executed
           \/ r = statuses[p].result /\ statuses[p] # NotRead /\ p \in running
           \/ r = result[p]
  BY DEF UpdateResults, Answered

LEMMA CommitSound ==
    ASSUME GovInv, Commit
    PROVE  /\ result' \in [Proposals -> Results \cup {"none"}]
           /\ votes' \in [Proposals -> {"none", "partial", "final"}]
           /\ ResultSound'
           /\ \A p \in Proposals : result'[p] = "votingPeriod" => epoch >= Schedule[p].start
<1>1. /\ task = "commit" /\ result' = UpdateResults /\ votes' = UpdateVotes
      /\ UNCHANGED <<epoch, verdict>>
  BY DEF Commit, node
<1>2. \A p \in Proposals : statuses[p] # NotRead =>
          statuses[p].result \in Running \cup Verdicts /\ statuses[p].votes \in {"partial", "final"}
  BY DEF GovInv, TypeOK
<1>3. result' \in [Proposals -> Results \cup {"none"}]
  BY <1>1, <1>2 DEF UpdateResults, Answered, Results, Executed, GovInv, TypeOK
<1>4. votes' \in [Proposals -> {"none", "partial", "final"}]
  BY <1>1, <1>2 DEF UpdateVotes, Answered, GovInv, TypeOK
<1>5. ResultSound'
  <2>1. SUFFICES ASSUME NEW p \in Proposals
        PROVE  /\ result'[p] \in {"passed", "executedPassed"}
                    => verdict[p] = "passed" /\ epoch >= Schedule[p].end
               /\ result'[p] \in {"rejected", "executedRejected"}
                    => verdict[p] = "rejected" /\ epoch >= Schedule[p].end
               /\ result'[p] \in Executed => epoch >= Schedule[p].activation
    BY <1>1 DEF ResultSound
  <2>2. epoch \in Nat /\ (epoch >= Schedule[p].activation => epoch >= Schedule[p].end)
    BY Scheduled, Numbers DEF GovInv, TypeOK, Epochs
  <2>3. CASE result'[p] = "executedPassed" /\ <<p, "passed">> \in executed
    BY <2>2, <2>3 DEF GovInv, ReadSound, Verdicts
  <2>4. CASE result'[p] = "executedRejected" /\ <<p, "rejected">> \in executed
    BY <2>2, <2>4 DEF GovInv, ReadSound, Verdicts
  <2>5. CASE result'[p] = statuses[p].result /\ statuses[p] # NotRead
    BY <1>2, <2>5 DEF GovInv, StatusSound, Decided, Verdicts, Running, Executed
  <2>6. CASE result'[p] = result[p]
    BY <2>6 DEF GovInv, ResultSound
  <2> QED
    BY <1>1, <2>3, <2>4, <2>5, <2>6, NewResults
<1>6. ASSUME NEW p \in Proposals, result'[p] = "votingPeriod"
      PROVE  epoch >= Schedule[p].start
  <2>1. tickEpoch \in Nat /\ epoch \in Nat /\ tickEpoch <= epoch
    BY Numbers DEF GovInv, TypeOK, Epochs, ReadSound
  <2>2. CASE result[p] = "votingPeriod"
    BY <2>2 DEF GovInv, VotingSound
  <2>3. CASE statuses[p] # NotRead /\ statuses[p].result = "votingPeriod"
    BY <2>1, <2>3, Scheduled DEF GovInv, StatusSound
  <2> QED
    BY <1>1, <1>6, <2>2, <2>3, NewResults
<1> QED
  BY <1>3, <1>4, <1>5, <1>6

LEMMA FundingStep ==
    ASSUME GovInv, Commit
    PROVE  /\ funding' \subseteq Proposals \X Recipients \X {"retro", "continuous"}
           /\ FundingSound'
<1>1. UNCHANGED <<epoch, verdict>>
  BY DEF Commit, node
<1>2. ASSUME NEW f \in funding'
      PROVE  \/ f \in funding
             \/ \E p \in payments :
                   \/ \E r \in Retro[p] : f = <<p, r, "retro">>
                   \/ \E r \in Add[p] : f = <<p, r, "continuous">>
  BY DEF Commit, UpdateFunding, Inserted, Asked
<1>3. \A p \in payments : /\ p \in Proposals /\ Retro[p] \subseteq Recipients
                          /\ Add[p] \subseteq Recipients
                          /\ verdict[p] = "passed" /\ epoch >= Schedule[p].activation
  BY ScheduleAssumption DEF GovInv, TypeOK, ReadSound
<1>4. funding' \subseteq Proposals \X Recipients \X {"retro", "continuous"}
  BY <1>2, <1>3 DEF GovInv, TypeOK
<1>5. FundingSound'
  BY <1>1, <1>2, <1>3 DEF GovInv, FundingSound
<1> QED
  BY <1>4, <1>5

LEMMA CommitStep == ASSUME GovInv, Ticks \/ CommitUnheard PROVE GovInv'
<1>1. Commit /\ NoTick /\ task' = "poll" /\ conn' \in {"up", "lost"}
  BY DEF Ticks, CommitUnheard, GovInv, TypeOK
<1>2. /\ UNCHANGED <<node, rare>>
      /\ raced' \subseteq Proposals /\ unpaid' \subseteq Proposals
  BY <1>1 DEF Commit, PaymentsUnseen, GovInv, TypeOK
<1> QED
  BY <1>1, <1>2, CommitSound, FundingStep, TickForgotten

\* A tick that fails, or whose process ends, writes nothing.
LEMMA FailStep == ASSUME GovInv, TickFails \/ Stopped PROVE GovInv'
<1>1. NoTick /\ task' \in {"down", "poll"} /\ UNCHANGED <<node, conn, database, raced, unpaid, rare>>
  BY DEF TickFails, Stopped
<1>2. ResultSound' /\ FundingSound'
  BY <1>1 DEF GovInv, ResultSound, FundingSound, node, database
<1>3. \A p \in Proposals : result'[p] = "votingPeriod" => epoch >= Schedule[p].start
  BY <1>1 DEF GovInv, VotingSound, database
<1>4. /\ result' \in [Proposals -> Results \cup {"none"}]
      /\ votes' \in [Proposals -> {"none", "partial", "final"}]
      /\ funding' \subseteq Proposals \X Recipients \X {"retro", "continuous"}
      /\ conn' \in {"up", "lost"}
      /\ raced' \subseteq Proposals /\ unpaid' \subseteq Proposals
  BY <1>1 DEF GovInv, TypeOK, database
<1> QED
  BY <1>1, <1>2, <1>3, <1>4, TickForgotten

LEMMA OtherStep == ASSUME GovInv, Start \/ ConnectionLost \/ UNCHANGED vars PROVE GovInv'
<1>1. /\ task' = task \/ (task = "down" /\ task' = "poll")
      /\ conn' \in {"up", "lost"}
      /\ UNCHANGED <<epoch, verdict, tickEpoch, running, statuses, executed, payments,
                     result, votes, funding, reset, raced, unpaid, rare>>
  BY DEF Start, ConnectionLost, vars, node, tick, database, history, GovInv, TypeOK
<1>2. TypeOK'
  BY <1>1 DEF GovInv, TypeOK
<1>3. ResultSound' /\ FundingSound'
  BY <1>1 DEF GovInv, ResultSound, FundingSound
<1>4. VotingSound' /\ StatusSound'
  BY <1>1 DEF GovInv, VotingSound, StatusSound, Reading, Decided
<1>5. ReadSound'
  BY <1>1 DEF GovInv, ReadSound, Tallied
<1> QED
  BY <1>2, <1>3, <1>4, <1>5 DEF GovInv

LEMMA GovNext == ASSUME GovInv, [Next]_vars PROVE GovInv'
<1>1. CASE NewEpoch
  BY <1>1, EpochStep
<1>2. ASSUME NEW S \in SUBSET Proposals, InsertProposals(S) PROVE GovInv'
  BY <1>2, InsertStep
<1>3. CASE Tick
  BY <1>3, ReadEpochStep, ReadRunningStep, ReadTalliesStep, ReadExecutedStep,
     ReadPaymentsStep, CommitStep, FailStep DEF Tick
<1>4. CASE Start \/ ConnectionLost \/ UNCHANGED vars
  BY <1>4, OtherStep
<1>5. CASE Stopped
  BY <1>5, FailStep
<1> QED
  BY <1>1, <1>2, <1>3, <1>4, <1>5 DEF Next

LEMMA Ranks ==
    ASSUME NEW r \in Results \cup {"none"}
    PROVE  /\ Rank(r) \in 0..4
           /\ r = "pending" => Rank(r) = 1
           /\ r = "votingPeriod" => Rank(r) = 2
           /\ r \in Verdicts => Rank(r) = 3
           /\ r \in Executed => Rank(r) = 4
<1>1. CASE r = "none"
  BY <1>1 DEF Rank, Verdicts, Executed
<1>2. CASE r = "pending"
  BY <1>2 DEF Rank, Verdicts, Executed
<1>3. CASE r = "votingPeriod"
  BY <1>3 DEF Rank, Verdicts, Executed
<1>4. CASE r \in Verdicts
  BY <1>4 DEF Rank, Verdicts, Executed
<1>5. CASE r \in Executed
  BY <1>5 DEF Rank, Verdicts, Executed
<1> QED
  BY <1>1, <1>2, <1>3, <1>4, <1>5 DEF Results, Running

\* The tick that commits moves no row back: what it read of a running row is not
\* behind the row, and a row to be executed ends in the highest rank.
LEMMA TickAdvances ==
    ASSUME GovInv, [Next]_vars, task = "commit", task' = "poll"
    PROVE  \A p \in Proposals : Rank(result'[p]) >= Rank(result[p])
<1>1. CASE Commit
  <2>1. SUFFICES ASSUME NEW p \in Proposals
                 PROVE  Rank(result'[p]) >= Rank(result[p])
    OBVIOUS
  <2>2. result' = UpdateResults /\ task \in Tallied /\ task \in Reading
    BY <1>1 DEF Commit, Tallied, Reading
  <2>3. result[p] \in Results \cup {"none"}
    BY DEF GovInv, TypeOK
  <2>4. Rank(result[p]) \in 0..4
    BY <2>3, Ranks
  <2>5. CASE result'[p] \in Executed
    BY <2>4, <2>5, Ranks DEF Results
  <2>6. CASE result'[p] = statuses[p].result /\ statuses[p] # NotRead /\ p \in running
    <3>1. result[p] \in Running
      BY <2>2, <2>6 DEF GovInv, ReadSound
    <3>2. statuses[p].result \in Running \cup Verdicts
      BY <2>6 DEF GovInv, TypeOK
    <3>3. tickEpoch \in Nat
      BY Numbers DEF GovInv, TypeOK
    <3>4. ~(result[p] = "votingPeriod" /\ statuses[p].result = "pending")
      BY <2>2, <2>6, <3>3, Scheduled DEF GovInv, VotingSound, StatusSound
    <3> QED
      BY <2>3, <2>6, <3>1, <3>2, <3>4, Ranks DEF Running, Verdicts, Results
  <2>7. CASE result'[p] = result[p]
    BY <2>4, <2>7
  <2> QED
    BY <2>2, <2>5, <2>6, <2>7, NewResults DEF Executed, Commit
<1>2. CASE ~Commit
  <2>1. TickFails
    BY <1>2 DEF Next, Tick, NewEpoch, InsertProposals, Start, ConnectionLost, Stopped, vars,
                Query, ReadEpoch, ReadRunning, ReadTallies, ReadExecuted, ReadPayments,
                Ticks, CommitUnheard
  <2>2. result' = result
    BY <2>1 DEF TickFails, database
  <2>3. \A p \in Proposals : Rank(result[p]) \in 0..4
    BY Ranks DEF GovInv, TypeOK
  <2> QED
    BY <2>2, <2>3
<1> QED
  BY <1>1, <1>2

-----------------------------------------------------------------------------
(* The votes shown with a verdict.                                         *)

\* The tally of a vote that is over is the final one, and a row to be executed has
\* it, unless the row was inserted again since the tick read it so.
IsReset(p) == \E phase \in {"pgf", "commit"} : <<p, phase>> \in reset

FinalRead ==
    /\ \A p \in Proposals : statuses[p].result \in Verdicts => statuses[p].votes = "final"
    /\ \A p \in Proposals, v \in Verdicts : <<p, v>> \in executed =>
          /\ p \notin running /\ result[p] # "none"
          /\ p \notin raced /\ ~IsReset(p) => votes[p] = "final"

FinalInv == FinalVotes /\ FinalRead

LEMMA FinalInit == Init => FinalInv
  BY DEF Init, FinalInv, FinalVotes, FinalRead, NotRead, Verdicts, Executed

LEMMA FinalInsert ==
    ASSUME GovInv, FinalInv, NEW S \in SUBSET Proposals, InsertProposals(S)
    PROVE  FinalInv'
<1>1. /\ UNCHANGED <<task, running, statuses, executed>>
      /\ \A p \in Proposals : /\ p \in S => result'[p] = "pending"
                              /\ p \notin S => result'[p] = result[p] /\ votes'[p] = votes[p]
      /\ raced' = raced \ S /\ reset \subseteq reset'
  BY DEF InsertProposals, Pending, tick
<1>2. FinalVotes'
  BY <1>1 DEF FinalInv, FinalVotes, Running, Verdicts, Executed
<1>3. ASSUME NEW p \in Proposals, NEW v \in Verdicts, <<p, v>> \in executed
      PROVE  /\ p \notin running /\ result'[p] # "none"
             /\ p \notin raced' /\ ~IsReset(p)' => votes'[p] = "final"
  <2>1. /\ p \notin running /\ result[p] # "none"
        /\ p \notin raced /\ ~IsReset(p) => votes[p] = "final"
    BY <1>3 DEF FinalInv, FinalRead
  <2>2. CASE p \notin S
    BY <1>1, <2>1, <2>2 DEF IsReset
  <2>3. CASE p \in S
    <3>1. task \in {"pgf", "commit"}
      BY <1>3 DEF GovInv, ReadSound
    <3>2. <<p, task>> \in reset'
      BY <1>3, <2>3 DEF InsertProposals, AboutToExecute
    <3>3. IsReset(p)'
      BY <3>1, <3>2 DEF IsReset
    <3> QED
      BY <1>1, <2>1, <2>3, <3>3
  <2> QED
    BY <2>2, <2>3
<1>4. FinalRead'
  BY <1>1, <1>3 DEF FinalInv, FinalRead
<1> QED
  BY <1>2, <1>4 DEF FinalInv

LEMMA FinalReads ==
    ASSUME GovInv, FinalInv, ReadEpoch \/ ReadRunning \/ ReadExecuted \/ ReadPayments
    PROVE  FinalInv'
<1>1. UNCHANGED <<result, votes, reset, raced, statuses>>
  BY DEF ReadEpoch, ReadRunning, ReadExecuted, ReadPayments, Query, database, history
<1>2. FinalVotes'
  BY <1>1 DEF FinalInv, FinalVotes
<1>3. CASE ReadExecuted
  <2>1. /\ task = "executed" /\ task' = "pgf" /\ running' = running
        /\ executed' = {<<p, result[p]>> : p \in ToExecute(tickEpoch)}
    BY <1>3 DEF ReadExecuted, Query
  <2>2. \A p \in running : result[p] \in Running
    BY <2>1 DEF GovInv, ReadSound, Tallied
  <2>3. \A p \in ToExecute(tickEpoch) :
            /\ p \notin running /\ result[p] # "none"
            /\ p \notin raced => votes[p] = "final"
    BY <2>2 DEF ToExecute, FinalInv, FinalVotes, Verdicts, Running
  <2> QED
    BY <1>1, <1>2, <2>1, <2>3 DEF FinalInv, FinalRead, IsReset
<1>4. CASE ReadEpoch \/ ReadRunning \/ ReadPayments
  <2>1. executed' = executed /\ (executed = {} \/ (running' = running /\ task' = "commit"))
    BY <1>4 DEF ReadEpoch, ReadRunning, ReadPayments, Query, GovInv, ReadSound
  <2> QED
    BY <1>1, <1>2, <1>4, <2>1
       DEF FinalInv, FinalRead, IsReset, ReadEpoch, ReadRunning, ReadPayments, Query
<1> QED
  BY <1>3, <1>4

LEMMA FinalTallies ==
    ASSUME GovInv, FinalInv, ReadTallies
    PROVE  FinalInv'
<1>1. /\ task = "tally" /\ task' = "executed"
      /\ UNCHANGED <<result, votes, raced, running, executed>>
  BY DEF ReadTallies, database, history
<1>2. executed = {}
  BY <1>1 DEF GovInv, ReadSound
<1>3. ASSUME NEW p \in Proposals, statuses'[p].result \in Verdicts
      PROVE  statuses'[p].votes = "final"
  <2>1. PICK lost \in SUBSET running : statuses' = [q \in Proposals |->
                IF q \in running \ lost THEN [result |-> ResultOf(q), votes |-> VotesOf(q)]
                ELSE NotRead]
    BY DEF ReadTallies
  <2>2. statuses'[p] = [result |-> ResultOf(p), votes |-> VotesOf(p)]
    BY <1>3, <2>1 DEF NotRead, Verdicts
  <2>3. epoch >= Schedule[p].end
    BY <1>3, <2>2, ResultIsSound DEF Decided
  <2> QED
    BY <2>2, <2>3 DEF VotesOf
<1> QED
  BY <1>1, <1>2, <1>3 DEF FinalInv, FinalVotes, FinalRead

LEMMA FinalCommit ==
    ASSUME GovInv, FinalInv, Ticks \/ CommitUnheard
    PROVE  FinalInv'
<1>1. /\ result' = UpdateResults /\ votes' = UpdateVotes
      /\ raced' = raced \cup {q[1] : q \in reset}
      /\ task = "commit" /\ NoTick
  BY DEF Ticks, CommitUnheard, Commit
<1>2. ASSUME NEW p \in Proposals \ raced', result'[p] \in Verdicts \cup Executed
      PROVE  votes'[p] = "final"
  <2>4. p \notin raced /\ ~IsReset(p)
    BY <1>1, <1>2 DEF IsReset
  <2>1. CASE \E v \in Verdicts : <<p, v>> \in executed
    BY <1>1, <2>1, <2>4 DEF FinalInv, FinalRead, UpdateVotes, Answered
  <2>2. CASE p \in Answered /\ ~\E v \in Verdicts : <<p, v>> \in executed
    <3>1. result'[p] = statuses[p].result /\ votes'[p] = statuses[p].votes
      BY <1>1, <2>2 DEF UpdateResults, UpdateVotes, Verdicts
    <3>2. statuses[p].result \in Running \cup Verdicts
      BY <2>2 DEF Answered, GovInv, TypeOK
    <3> QED
      BY <1>2, <3>1, <3>2 DEF FinalInv, FinalRead, Running, Verdicts, Executed
  <2>3. CASE p \notin Answered /\ ~\E v \in Verdicts : <<p, v>> \in executed
    <3>1. result'[p] = result[p] /\ votes'[p] = votes[p]
      BY <1>1, <2>3 DEF UpdateResults, UpdateVotes, Verdicts
    <3> QED
      BY <1>2, <2>4, <3>1 DEF FinalInv, FinalVotes
  <2> QED
    BY <2>1, <2>2, <2>3
<1>3. FinalVotes'
  BY <1>1, <1>2 DEF FinalVotes
<1>4. FinalRead'
  BY <1>1 DEF FinalRead, NoTick, NotRead, Verdicts
<1> QED
  BY <1>3, <1>4 DEF FinalInv

LEMMA FinalOther ==
    ASSUME GovInv, FinalInv,
           NewEpoch \/ Start \/ TickFails \/ ConnectionLost \/ Stopped \/ UNCHANGED vars
    PROVE  FinalInv'
<1>1. UNCHANGED <<result, votes, raced>>
  BY DEF NewEpoch, Start, TickFails, ConnectionLost, Stopped, vars, database, history
<1>2. FinalVotes'
  BY <1>1 DEF FinalInv, FinalVotes
<1>3. CASE TickFails \/ Stopped
  BY <1>2, <1>3 DEF TickFails, Stopped, NoTick, FinalInv, FinalRead, NotRead, Verdicts
<1>4. CASE NewEpoch \/ Start \/ ConnectionLost \/ UNCHANGED vars
  <2>1. UNCHANGED <<running, statuses, executed, reset>>
    BY <1>4 DEF NewEpoch, Start, ConnectionLost, vars, tick, history
  <2> QED
    BY <1>1, <1>2, <2>1 DEF FinalInv, FinalRead, IsReset
<1> QED
  BY <1>3, <1>4

LEMMA FinalNext == ASSUME GovInv, FinalInv, [Next]_vars PROVE FinalInv'
<1>1. ASSUME NEW S \in SUBSET Proposals, InsertProposals(S) PROVE FinalInv'
  BY <1>1, FinalInsert
<1>2. CASE Tick
  BY <1>2, FinalReads, FinalTallies, FinalCommit, FinalOther DEF Tick
<1>3. CASE NewEpoch \/ Start \/ ConnectionLost \/ Stopped \/ UNCHANGED vars
  BY <1>3, FinalOther
<1> QED
  BY <1>1, <1>2, <1>3 DEF Next

-----------------------------------------------------------------------------

LEMMA GovCorrect == Spec => []GovInv
  BY GovInit, GovNext, PTL DEF Spec

\* Every variable of the governance indexer keeps its type.
THEOREM GovTypeCorrect == Spec => []TypeOK
<1>1. GovInv => TypeOK
  BY DEF GovInv
<1> QED
  BY <1>1, GovCorrect, PTL

\* A result is never ahead of the chain, and the verdict is the chain's.
THEOREM ResultsCorrect == Spec => []ResultSound
<1>1. GovInv => ResultSound
  BY DEF GovInv
<1> QED
  BY <1>1, GovCorrect, PTL

\* Every payment listed is one of a proposal that passed and was activated.
THEOREM FundingCorrect == Spec => []FundingSound
<1>1. GovInv => FundingSound
  BY DEF GovInv
<1> QED
  BY <1>1, GovCorrect, PTL

\* A tick never takes a result back.
THEOREM TicksAdvance == Spec => ResultsAdvance
<1>1. ASSUME GovInv, [Next]_vars
      PROVE  [ task = "commit" /\ task' = "poll"
                 => \A p \in Proposals : Rank(result'[p]) >= Rank(result[p]) ]_vars
  BY <1>1, TickAdvances
<1> QED
  BY <1>1, GovCorrect, PTL DEF Spec, ResultsAdvance

\* The votes shown with a verdict are the final ones, for every row but those that
\* were inserted again after a tick read them to be executed, and that this tick then
\* executed.
THEOREM VotesCorrect == Spec => []FinalVotes
<1>1. GovInv /\ FinalInv /\ [Next]_vars => FinalInv'
  BY FinalNext
<1>2. FinalInv => FinalVotes
  BY DEF FinalInv
<1> QED
  BY <1>1, <1>2, FinalInit, GovCorrect, PTL DEF Spec

-----------------------------------------------------------------------------
(* The payments of a proposal that is executed.                            *)

\* What a tick knows of payments: those listed are of proposals activated before its
\* epoch is over, and it sees the payments of what it executes in the epoch of the
\* activation, for a row can only go back to pending meanwhile, and is then reset.
PayRead ==
    /\ task \in Reading => \A f \in funding : Schedule[f[1]].activation <= tickEpoch
    /\ \A p \in payments : Schedule[p].activation = tickEpoch
    /\ \A p \in Proposals : <<p, "passed">> \in executed =>
          /\ Schedule[p].activation <= tickEpoch
          /\ task = "pgf" /\ <<p, "pgf">> \notin reset => result[p] = "passed"
          /\ /\ task = "commit" /\ <<p, "pgf">> \notin reset
             /\ Schedule[p].activation = tickEpoch
             => p \in payments

\* The payments of p are listed, or were removed since.
Listed(p) ==
    /\ \A r \in Retro[p] \ Add[p] : <<p, r, "retro">> \in funding
    /\ \A r \in Add[p] \ Retro[p] :
          <<p, r, "continuous">> \in funding \/ RemovedBy(p, r)
    /\ \A r \in Add[p] \cap Retro[p] :
          \/ {<<p, r, "retro">>, <<p, r, "continuous">>} \cap funding # {}
          \/ RemovedBy(p, r)

PaidInv == PayRead /\ PaidWhenExecuted

LEMMA PaidInit == Init => PaidInv
  BY DEF Init, PaidInv, PayRead, PaidWhenExecuted, Reading

\* Time takes nothing off the list.
LEMMA ListedLater ==
    ASSUME GovInv, NEW p \in Proposals, Listed(p), UNCHANGED <<verdict, funding>>,
           epoch' \in Nat, epoch' >= epoch
    PROVE  Listed(p)'
<1>1. ASSUME NEW r, RemovedBy(p, r)
      PROVE  RemovedBy(p, r)'
  <2>1. PICK b \in Proposals : /\ r \in Remove[b] /\ verdict[b] = "passed"
                              /\ Schedule[b].activation \in Schedule[p].activation..epoch
    BY <1>1 DEF RemovedBy
  <2>2. Schedule[b].activation \in Schedule[p].activation..epoch'
    BY <2>1, Scheduled, Numbers DEF GovInv, TypeOK, Epochs
  <2> QED
    BY <2>1, <2>2 DEF RemovedBy
<1> QED
  BY <1>1 DEF Listed

\* The steps that write neither results nor payments.
LEMMA PaidSteady ==
    ASSUME GovInv, PaidInv, UNCHANGED <<verdict, funding, unpaid>>,
           epoch' \in Nat, epoch' >= epoch,
           \A p \in Proposals : result'[p] = "executedPassed" => result[p] = "executedPassed"
    PROVE  PaidWhenExecuted'
<1>1. SUFFICES ASSUME NEW p \in Proposals, p \notin unpaid', result'[p] = "executedPassed"
               PROVE  Listed(p)'
  BY DEF PaidWhenExecuted, Listed
<1>2. Listed(p)
  BY <1>1 DEF PaidInv, PaidWhenExecuted, Listed
<1> QED
  BY <1>2, ListedLater

LEMMA PaidInsert ==
    ASSUME GovInv, PaidInv, NEW S \in SUBSET Proposals, InsertProposals(S)
    PROVE  PaidInv'
<1>1. /\ UNCHANGED <<epoch, verdict, task, tickEpoch, executed, payments, funding, unpaid>>
      /\ \A p \in Proposals : /\ p \in S => result'[p] = "pending"
                              /\ p \notin S => result'[p] = result[p]
      /\ reset \subseteq reset'
      /\ \A p \in S : <<p, "passed">> \in executed => <<p, task>> \in reset'
  BY DEF InsertProposals, Pending, AboutToExecute, Verdicts, node, tick
<1>2. epoch \in Nat
  BY Numbers DEF GovInv, TypeOK, Epochs
<1>3. PaidWhenExecuted'
  BY <1>1, <1>2, PaidSteady
<1>4. PayRead'
  BY <1>1 DEF PaidInv, PayRead
<1> QED
  BY <1>3, <1>4 DEF PaidInv

LEMMA PaidReads ==
    ASSUME GovInv, PaidInv,
           ReadEpoch \/ ReadRunning \/ ReadTallies \/ ReadExecuted \/ ReadPayments
    PROVE  PaidInv'
<1>1. UNCHANGED <<epoch, verdict, result, funding, reset, unpaid>>
  BY DEF ReadEpoch, ReadRunning, ReadTallies, ReadExecuted, ReadPayments, Query, node,
         database, history
<1>2. epoch \in Nat
  BY Numbers DEF GovInv, TypeOK, Epochs
<1>3. PaidWhenExecuted'
  BY <1>1, <1>2, PaidSteady
<1>4. CASE ReadEpoch
  <2>1. task = "poll" /\ tickEpoch' = epoch /\ task' = "running" /\ UNCHANGED <<executed, payments>>
    BY <1>4 DEF ReadEpoch, Query
  <2>2. executed = {}
    BY <2>1 DEF GovInv, ReadSound
  <2>3. \A f \in funding : Schedule[f[1]].activation <= epoch
    <3>1. \A f \in funding : f[1] \in Proposals
      BY DEF GovInv, TypeOK
    <3> QED
      BY <1>2, <3>1, Scheduled DEF GovInv, FundingSound
  <2>4. payments = {}
    BY <2>1 DEF GovInv, ReadSound
  <2> QED
    BY <1>1, <1>3, <2>1, <2>2, <2>3, <2>4 DEF PaidInv, PayRead
<1>5. CASE ReadRunning \/ ReadTallies
  <2>1. /\ UNCHANGED <<tickEpoch, executed, payments>>
        /\ task \in Reading /\ task' \notin {"pgf", "commit"}
    BY <1>5 DEF ReadRunning, ReadTallies, Query, Reading
  <2> QED
    BY <1>1, <1>3, <2>1 DEF PaidInv, PayRead
<1>6. CASE ReadExecuted
  <2>1. /\ task = "executed" /\ task' = "pgf" /\ UNCHANGED <<tickEpoch, payments>>
        /\ executed' = {<<p, result[p]>> : p \in ToExecute(tickEpoch)}
    BY <1>6 DEF ReadExecuted, Query
  <2>2. \A p \in Proposals : <<p, "passed">> \in executed' =>
            result[p] = "passed" /\ Schedule[p].activation <= tickEpoch
    BY <2>1 DEF ToExecute
  <2> QED
    BY <1>1, <1>3, <2>1, <2>2 DEF PaidInv, PayRead, Reading
<1>7. CASE ReadPayments
  <2>1. /\ task = "pgf" /\ task' = "commit" /\ UNCHANGED <<tickEpoch, executed>>
        /\ payments' = ToPay(tickEpoch)
    BY <1>7 DEF ReadPayments, Query
  <2> QED
    BY <1>1, <1>3, <2>1 DEF PaidInv, PayRead, Reading, ToPay
<1> QED
  BY <1>4, <1>5, <1>6, <1>7

-----------------------------------------------------------------------------

\* A row of the list stays, or its recipient is removed by a proposal paid now.
LEMMA RowsKept ==
    ASSUME GovInv, PaidInv, Commit, NEW p \in Proposals, NEW r,
           NEW k \in {"retro", "continuous"}, <<p, r, k>> \in funding
    PROVE  \/ <<p, r, k>> \in funding'
           \/ k = "continuous" /\ RemovedBy(p, r)'
<1>1. SUFFICES ASSUME <<p, r, k>> \notin funding'
               PROVE  k = "continuous" /\ RemovedBy(p, r)'
  OBVIOUS
<1>2. k = "continuous" /\ \E b \in payments : r \in Remove[b]
  BY <1>1 DEF Commit, UpdateFunding
<1>3. PICK b \in payments : r \in Remove[b]
  BY <1>2
<1>4. b \in Proposals /\ verdict[b] = "passed" /\ epoch >= Schedule[b].activation
  BY DEF GovInv, TypeOK, ReadSound
<1>5. task \in Reading /\ epoch \in Nat /\ tickEpoch \in Nat /\ UNCHANGED <<epoch, verdict>>
  BY Numbers DEF Commit, Reading, GovInv, TypeOK, Epochs, node
<1>6. Schedule[p].activation <= tickEpoch /\ Schedule[b].activation = tickEpoch
  BY <1>5 DEF PaidInv, PayRead
<1>7. Schedule[b].activation \in Schedule[p].activation..epoch
  BY <1>4, <1>5, <1>6, Scheduled
<1> QED
  BY <1>2, <1>3, <1>4, <1>5, <1>7 DEF RemovedBy

\* A payment that is read is listed before the deletions, or its key is taken by a
\* row of the other recurrence.
LEMMA Candidates ==
    ASSUME GovInv, NEW p \in payments, NEW r, NEW k \in {"retro", "continuous"},
           r \in IF k = "retro" THEN Retro[p] ELSE Add[p],
           NEW first \in {"retro", "continuous"}
    PROVE  \E g \in funding \cup Inserted(first) :
              /\ g = <<p, r, "retro">> \/ g = <<p, r, "continuous">>
              /\ g[3] = "retro" => r \in Retro[p]
              /\ g[3] = "continuous" => r \in Add[p]
<1>1. CASE \E g \in funding : SameKey(<<p, r, k>>, g)
  <2>1. PICK g \in funding : SameKey(<<p, r, k>>, g)
    BY <1>1
  <2>2. g = <<p, r, "retro">> \/ g = <<p, r, "continuous">>
    BY <2>1 DEF GovInv, TypeOK, SameKey
  <2> QED
    BY <2>1, <2>2 DEF GovInv, FundingSound
<1>2. CASE ~\E g \in funding : SameKey(<<p, r, k>>, g)
  <2>1. <<p, r, k>> \in Asked
    BY DEF Asked
  <2>2. CASE \E g \in Asked : SameKey(<<p, r, k>>, g) /\ g[3] = first
    <3>1. PICK g \in Asked : SameKey(<<p, r, k>>, g) /\ g[3] = first
      BY <2>2
    <3>2. g = <<p, r, first>> /\ r \in IF first = "retro" THEN Retro[p] ELSE Add[p]
      BY <3>1 DEF Asked, SameKey
    <3>3. g \in Inserted(first)
      BY <1>2, <3>1, <3>2 DEF Inserted, SameKey
    <3> QED
      BY <3>2, <3>3
  <2>3. CASE ~\E g \in Asked : SameKey(<<p, r, k>>, g) /\ g[3] = first
    <3>1. <<p, r, k>> \in Inserted(first)
      BY <1>2, <2>1, <2>3 DEF Inserted
    <3> QED
      BY <3>1
  <2> QED
    BY <2>2, <2>3
<1> QED
  BY <1>1, <1>2

\* What the transaction does with a proposal it pays.
LEMMA PaidNow ==
    ASSUME GovInv, PaidInv, Commit, NEW p \in payments
    PROVE  Listed(p)'
<1>1. PICK first \in {"retro", "continuous"} : funding' = UpdateFunding(first)
  BY DEF Commit
<1>2. /\ p \in Proposals /\ UNCHANGED <<epoch, verdict>> /\ epoch \in Nat
      /\ Schedule[p].activation = tickEpoch
  BY Numbers DEF Commit, node, GovInv, TypeOK, Epochs, PaidInv, PayRead
<1>3. ASSUME NEW r, <<p, r, "continuous">> \in funding \cup Inserted(first)
      PROVE  <<p, r, "continuous">> \in funding' \/ RemovedBy(p, r)'
  <2>1. CASE \E b \in payments : r \in Remove[b]
    <3>1. PICK b \in payments : r \in Remove[b]
      BY <2>1
    <3>2. /\ b \in Proposals /\ verdict[b] = "passed" /\ epoch >= Schedule[b].activation
          /\ Schedule[b].activation = tickEpoch
      BY DEF GovInv, TypeOK, ReadSound, PaidInv, PayRead
    <3>3. Schedule[b].activation \in Schedule[p].activation..epoch
      BY <1>2, <3>2, Scheduled
    <3> QED
      BY <1>2, <3>1, <3>2, <3>3 DEF RemovedBy
  <2>2. CASE ~\E b \in payments : r \in Remove[b]
    BY <1>1, <1>3, <2>2 DEF UpdateFunding
  <2> QED
    BY <2>1, <2>2
<1>4. ASSUME NEW r, <<p, r, "retro">> \in funding \cup Inserted(first)
      PROVE  <<p, r, "retro">> \in funding'
  BY <1>1, <1>4 DEF UpdateFunding
<1>5. ASSUME NEW r \in Retro[p] \ Add[p]
      PROVE  <<p, r, "retro">> \in funding'
  <2>1. <<p, r, "retro">> \in funding \cup Inserted(first)
    BY <1>5, Candidates
  <2> QED
    BY <1>4, <2>1
<1>6. ASSUME NEW r \in Add[p] \ Retro[p]
      PROVE  <<p, r, "continuous">> \in funding' \/ RemovedBy(p, r)'
  <2>1. <<p, r, "continuous">> \in funding \cup Inserted(first)
    BY <1>6, Candidates
  <2> QED
    BY <1>3, <2>1
<1>7. ASSUME NEW r \in Add[p] \cap Retro[p]
      PROVE  \/ {<<p, r, "retro">>, <<p, r, "continuous">>} \cap funding' # {}
             \/ RemovedBy(p, r)'
  <2>1. \/ <<p, r, "retro">> \in funding \cup Inserted(first)
        \/ <<p, r, "continuous">> \in funding \cup Inserted(first)
    BY <1>7, Candidates
  <2> QED
    BY <1>3, <1>4, <2>1
<1> QED
  BY <1>5, <1>6, <1>7 DEF Listed

\* What it leaves of a proposal that was paid before.
LEMMA PaidBefore ==
    ASSUME GovInv, PaidInv, Commit, NEW p \in Proposals, Listed(p)
    PROVE  Listed(p)'
<1>1. \A r : RemovedBy(p, r) => RemovedBy(p, r)'
  BY DEF Commit, node, RemovedBy
<1>2. ASSUME NEW r \in Retro[p] \ Add[p]
      PROVE  <<p, r, "retro">> \in funding'
  BY <1>2, RowsKept DEF Listed
<1>3. ASSUME NEW r \in Add[p] \ Retro[p]
      PROVE  <<p, r, "continuous">> \in funding' \/ RemovedBy(p, r)'
  BY <1>1, <1>3, RowsKept DEF Listed
<1>4. ASSUME NEW r \in Add[p] \cap Retro[p]
      PROVE  \/ {<<p, r, "retro">>, <<p, r, "continuous">>} \cap funding' # {}
             \/ RemovedBy(p, r)'
  <2>1. RemovedBy(p, r) \/ <<p, r, "retro">> \in funding \/ <<p, r, "continuous">> \in funding
    BY <1>4 DEF Listed
  <2> QED
    BY <1>1, <2>1, RowsKept
<1> QED
  BY <1>2, <1>3, <1>4 DEF Listed

LEMMA PaidCommit ==
    ASSUME GovInv, PaidInv, Ticks \/ CommitUnheard
    PROVE  PaidInv'
<1>1. /\ Commit /\ NoTick /\ task' = "poll" /\ task = "commit"
      /\ result' = UpdateResults
      /\ unpaid' = (unpaid \ payments) \cup PaymentsUnseen
  BY DEF Ticks, CommitUnheard, Commit
<1>2. ASSUME NEW p \in Proposals, p \notin unpaid', result'[p] = "executedPassed"
      PROVE  Listed(p)'
  <2>1. CASE p \in payments
    BY <1>1, <2>1, PaidNow
  <2>2. CASE p \notin payments
    <3>1. <<p, "passed">> \notin executed
      <4>1. SUFFICES ASSUME <<p, "passed">> \in executed
                     PROVE  FALSE
        OBVIOUS
      <4>2. /\ ~(tickEpoch > Schedule[p].activation) /\ <<p, "pgf">> \notin reset
        BY <1>1, <1>2, <4>1 DEF PaymentsUnseen
      <4>3. Schedule[p].activation = tickEpoch
        <5>1. Schedule[p].activation <= tickEpoch
          BY <4>1 DEF PaidInv, PayRead
        <5>2. tickEpoch \in Nat /\ Schedule[p].activation \in Nat
          BY Numbers, Scheduled DEF GovInv, TypeOK
        <5> QED
          BY <4>2, <5>1, <5>2
      <4> QED
        BY <1>1, <2>2, <4>1, <4>2, <4>3 DEF PaidInv, PayRead
    <3>2. statuses[p] # NotRead => statuses[p].result \in Running \cup Verdicts
      BY DEF GovInv, TypeOK
    <3>3. result[p] = "executedPassed"
      BY <1>1, <1>2, <3>1, <3>2, NewResults DEF Running, Verdicts
    <3>4. Listed(p)
      BY <1>1, <1>2, <2>2, <3>3 DEF PaidInv, PaidWhenExecuted, Listed
    <3> QED
      BY <1>1, <3>4, PaidBefore
  <2> QED
    BY <2>1, <2>2
<1>3. PaidWhenExecuted'
  BY <1>2 DEF PaidWhenExecuted, Listed
<1>4. PayRead'
  BY <1>1 DEF PayRead, NoTick, Reading
<1> QED
  BY <1>3, <1>4 DEF PaidInv

LEMMA PaidOther ==
    ASSUME GovInv, PaidInv,
           NewEpoch \/ Start \/ TickFails \/ ConnectionLost \/ Stopped \/ UNCHANGED vars
    PROVE  PaidInv'
<1>1. /\ UNCHANGED <<verdict, result, funding, unpaid>>
      /\ epoch' \in Nat /\ epoch' >= epoch
  BY Numbers DEF NewEpoch, Start, TickFails, ConnectionLost, Stopped, vars, node, database,
                 history, GovInv, TypeOK, Epochs
<1>2. PaidWhenExecuted'
  BY <1>1, PaidSteady
<1>3. CASE TickFails \/ Stopped
  <2>1. executed' = {} /\ payments' = {} /\ task' \notin Reading
    BY <1>3 DEF TickFails, Stopped, NoTick, Reading
  <2> QED
    BY <1>2, <2>1 DEF PaidInv, PayRead
<1>4. CASE NewEpoch \/ Start \/ ConnectionLost \/ UNCHANGED vars
  <2>1. /\ UNCHANGED <<tickEpoch, executed, payments, reset>>
        /\ task' = task \/ task' = "poll"
    BY <1>4 DEF NewEpoch, Start, ConnectionLost, vars, tick, history
  <2> QED
    BY <1>1, <1>2, <2>1 DEF PaidInv, PayRead, Reading
<1> QED
  BY <1>3, <1>4

LEMMA PaidNext == ASSUME GovInv, PaidInv, [Next]_vars PROVE PaidInv'
<1>1. ASSUME NEW S \in SUBSET Proposals, InsertProposals(S) PROVE PaidInv'
  BY <1>1, PaidInsert
<1>2. CASE Tick
  BY <1>2, PaidReads, PaidCommit, PaidOther DEF Tick
<1>3. CASE NewEpoch \/ Start \/ ConnectionLost \/ Stopped \/ UNCHANGED vars
  BY <1>3, PaidOther
<1> QED
  BY <1>1, <1>2, <1>3 DEF Next

\* Every proposal shown as passed and executed has its payments listed, unless the
\* tick that executed it came after the activation epoch, or the row was inserted
\* again between the query of the rows to execute and that of the payments.
THEOREM ExecutedArePaid == Spec => []PaidWhenExecuted
<1>1. GovInv /\ PaidInv /\ [Next]_vars => PaidInv'
  BY PaidNext
<1>2. PaidInv => PaidWhenExecuted
  BY DEF PaidInv
<1> QED
  BY <1>1, <1>2, PaidInit, GovCorrect, PTL DEF Spec
=============================================================================
