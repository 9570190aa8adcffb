------------------------------- MODULE Crawl -------------------------------
(***************************************************************************)
(* The retry loop every crawler of the indexer runs                        *)
(* (shared/src/crawler.rs).  A process that runs `crawl` walks the block   *)
(* heights (or, for the interval crawlers, the tick numbers) upwards; one  *)
(* index is attempted until the attempt succeeds, or fails with an error   *)
(* that is not retried, or fails after Ctrl-C was received.                *)
(*                                                                         *)
(* The module holds the part of the process that lives in memory; a        *)
(* crawler that EXTENDS it adds its own phases of an attempt and the       *)
(* database.  Two phases are known here: "down", no process, and "poll",   *)
(* the beginning of an attempt.                                            *)
(***************************************************************************)
EXTENDS Integers

VARIABLES
    task,      \* the phase of the attempt in progress, "down" without a process
    index,     \* the value the stream of indexes yielded last, 0 without a process
    mustExit   \* the flag the Ctrl-C handler sets

crawlVars == <<task, index, mustExit>>

\* shared/src/error.rs: what an attempt can fail with.
MainErrors == {"NoAction", "RpcError", "Database", "TaskJoinError"}

\* Faulty variant: a failing database is not waited for.
RetryableWithoutDatabase == {"NoAction", "RpcError"}

\* The errors RetryIf retries; TaskJoinError is not one of them.
Retryable == {"NoAction", "RpcError", "Database"}

-----------------------------------------------------------------------------

CrawlInit == task = "down" /\ index = 0 /\ mustExit = FALSE

\* The process is gone and its memory with it.
Gone == task' = "down" /\ index' = 0 /\ mustExit' = FALSE

\* `crawl` is entered with the first index.
CrawlFrom(first) ==
    /\ task' = "poll"
    /\ index' = first
    /\ mustExit' = FALSE

\* The attempt goes on to its next phase.
Proceed(phase) == task' = phase /\ UNCHANGED <<index, mustExit>>

\* The result of RetryIf::spawn is dropped, whatever it was: the loop takes
\* the next index of the stream, unless Ctrl-C was seen.
NextIndex ==
    \/ mustExit /\ Gone
    \/ ~mustExit /\ task' = "poll" /\ index' = index + 1 /\ UNCHANGED mustExit

\* RetryIf calls the closure again with the same index ...
Retry == task' = "poll" /\ UNCHANGED <<index, mustExit>>

\* Faulty variant: no retry, the loop goes on after any error.
FailWithSkips(error) == NextIndex

\* ... if the error is retryable and Ctrl-C was not received meanwhile.
FailWith(error) ==
    IF error \in Retryable /\ ~mustExit THEN Retry ELSE NextIndex

\* The signal handler of must_exit_handle.
CtrlC ==
    /\ task # "down"
    /\ ~mustExit
    /\ mustExit' = TRUE
    /\ UNCHANGED <<task, index>>

\* The process is killed, or panics.
Crash == task # "down" /\ Gone
=============================================================================
