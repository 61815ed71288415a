-------------------------- MODULE AsyncThreadwrap --------------------------
(***************************************************************************)
(* AsyncThreadwrapAdapter (adapters/async_threadwrap.py) below the guards  *)
(* of AsyncMemory: the calls to a synchronous adapter (mem0, supermemory,  *)
(* letta) that a ThreadPoolExecutor runs, their cancellation and close().  *)
(*                                                                         *)
(* The event loop runs one task at a time, from await to await; the worker *)
(* threads run beside it.  A task makes one call.  What the synchronous    *)
(* adapter does is left out: a call begins in a worker, and returns or     *)
(* raises there.                                                           *)
(*                                                                         *)
(* concurrent.futures and asyncio.wrap_future are external: a FIFO of work *)
(* items, a future that can be cancelled only before its worker takes it,  *)
(* and an awaiter that learns the outcome in a later turn of the loop.     *)
(***************************************************************************)
EXTENDS Naturals, Sequences, FiniteSets, SequencesExt

CONSTANTS Tasks,       \* asyncio tasks, one call each
          MaxWorkers   \* executor_max_workers

ASSUME ThreadwrapAssumption == MaxWorkers \in Nat \ {0}

VARIABLES
    has_close,    \* whether the synchronous adapter has a close(): supermemory
                  \* has one, letta and mem0 have none
    closed,       \* AsyncMemory._closed, and the adapter's _closed below it
    executor,     \* "none", "up", or "down" after shutdown()
    queue,        \* the executor's work items, in order of submission
    fut,          \* the future of each task's work item
    sync_closed,  \* how often the synchronous adapter's close() was called
    op,           \* the call each task makes
    pc            \* where each task is suspended, or how its call ended

vars == <<has_close, closed, executor, queue, fut, sync_closed, op, pc>>

Operations == {"verb", "close"}
Ended      == {"done", "error", "cancelled", "runtime_error"}

TypeOK ==
    /\ has_close \in BOOLEAN
    /\ closed \in BOOLEAN
    /\ executor \in {"none", "up", "down"}
    /\ queue \in Seq(Tasks)
    /\ fut \in [Tasks -> {"none", "pending", "running", "returned", "raised", "cancelled"}]
    /\ sync_closed \in 0..1
    /\ op \in [Tasks -> Operations \cup {"none"}]
    /\ pc \in [Tasks -> {"idle", "waiting"} \cup Ended]

Init ==
    /\ has_close \in BOOLEAN
    /\ closed = FALSE
    /\ executor = "none"
    /\ queue = <<>>
    /\ fut = [t \in Tasks |-> "none"]
    /\ sync_closed = 0
    /\ op = [t \in Tasks |-> "none"]
    /\ pc = [t \in Tasks |-> "idle"]

Goto(t, where) == pc' = [pc EXCEPT ![t] = where]

-----------------------------------------------------------------------------
(* The executor *)

\* _ensure_executor: once made, the executor is never replaced.
ExecutorEnsured == IF executor = "none" THEN "up" ELSE executor

\* executor.submit: the item goes to the end of the queue.
SubmitFirst(t) == <<t>> \o queue
Submitted(t) == Append(queue, t)

Submit(t) ==
    /\ fut' = [fut EXCEPT ![t] = "pending"]
    /\ queue' = Submitted(t)
    /\ Goto(t, "waiting")

Busy == {t \in Tasks : fut[t] = "running"}

RunsAnything(t) == TRUE    \* defect: the worker does not ask the future
Runs(t) == fut[t] # "cancelled"

\* A worker takes the first item and marks its future as running; an item whose
\* future is cancelled it lets go.
Take(t) ==
    /\ queue # <<>> /\ Head(queue) = t
    /\ Cardinality(Busy) < MaxWorkers
    /\ queue' = Tail(queue)
    /\ \/ /\ Runs(t)
          /\ fut' = [fut EXCEPT ![t] = "running"]
          /\ sync_closed' = IF op[t] = "close" THEN sync_closed + 1 ELSE sync_closed
       \/ ~ Runs(t) /\ UNCHANGED <<fut, sync_closed>>
    /\ UNCHANGED <<has_close, closed, executor, op, pc>>

\* The done-callback of a verb then writes a line, whatever became of the awaiter.
SyncCallEnds(t, outcome) ==
    /\ fut[t] = "running"
    /\ fut' = [fut EXCEPT ![t] = outcome]
    /\ UNCHANGED <<has_close, closed, executor, queue, sync_closed, op, pc>>

\* executor.shutdown(wait=False, cancel_futures=True): the items still queued
\* are cancelled, the running ones go on.
ShutdownKeepsQueue == UNCHANGED <<queue, fut>>
DropQueue ==
    /\ queue' = <<>>
    /\ fut' = [t \in Tasks |-> IF Contains(queue, t) THEN "cancelled" ELSE fut[t]]

-----------------------------------------------------------------------------
(* The calls *)

CheckOpen == ~closed

Rejected(t) ==
    /\ Goto(t, "runtime_error")
    /\ UNCHANGED <<has_close, closed, executor, queue, fut, sync_closed>>

\* Every verb is one _run(): submit, add the callback, await the future.
CallVerb(t) ==
    /\ pc[t] = "idle"
    /\ op' = [op EXCEPT ![t] = "verb"]
    /\ \/ /\ CheckOpen
          /\ executor # "down"
          /\ executor' = ExecutorEnsured
          /\ Submit(t)
          /\ UNCHANGED <<has_close, closed, sync_closed>>
       \* the facade's guard, or submit() on an executor that is shut down
       \/ /\ ~CheckOpen \/ executor = "down"
          /\ Rejected(t)

\* The event loop gives the awaiter the outcome of its future; a future that
\* shutdown() cancelled raises CancelledError in it.
WakesOnResult == [returned |-> "done", raised |-> "error"]
Wakes == [returned |-> "done", raised |-> "error", cancelled |-> "cancelled"]

AnswerVerb(t) ==
    /\ pc[t] = "waiting" /\ op[t] = "verb"
    /\ fut[t] \in DOMAIN Wakes
    /\ Goto(t, Wakes[fut[t]])
    /\ UNCHANGED <<has_close, closed, executor, queue, fut, sync_closed, op>>

AlwaysOpen == FALSE
AlreadyClosed == closed

\* close() up to its first await.  Without an executor the synchronous close()
\* runs in the event loop; without a synchronous close() there is no await.
Close(t) ==
    /\ pc[t] = "idle"
    /\ op' = [op EXCEPT ![t] = "close"]
    /\ closed' = TRUE
    /\ \/ /\ AlreadyClosed
          /\ Goto(t, "done")
          /\ UNCHANGED <<executor, queue, fut, sync_closed>>
       \/ /\ ~AlreadyClosed /\ executor = "none"
          /\ sync_closed' = IF has_close THEN sync_closed + 1 ELSE sync_closed
          /\ Goto(t, "done")
          /\ UNCHANGED <<executor, queue, fut>>
       \/ /\ ~AlreadyClosed /\ executor # "none" /\ has_close
          /\ Submit(t)
          /\ UNCHANGED <<executor, sync_closed>>
       \/ /\ ~AlreadyClosed /\ executor # "none" /\ ~has_close
          /\ executor' = "down"
          /\ DropQueue
          /\ Goto(t, "done")
          /\ UNCHANGED sync_closed
    /\ UNCHANGED has_close

\* The synchronous close() has returned, or raised, which close() ignores.
CloseResumes(t) ==
    /\ pc[t] = "waiting" /\ op[t] = "close"
    /\ fut[t] \in {"returned", "raised"}
    /\ executor' = "down"
    /\ DropQueue
    /\ Goto(t, "done")
    /\ UNCHANGED <<has_close, closed, sync_closed, op>>

\* The awaiter is cancelled: its future too, unless a worker has taken it; the
\* work item stays in the queue.  A cancelled close() does not get to shutdown().
Cancel(t) ==
    /\ pc[t] = "waiting"
    /\ Goto(t, "cancelled")
    /\ fut' = [fut EXCEPT ![t] = IF @ = "pending" THEN "cancelled" ELSE @]
    /\ UNCHANGED <<has_close, closed, executor, queue, sync_closed, op>>

-----------------------------------------------------------------------------

Work(t) == Take(t) \/ SyncCallEnds(t, "returned") \/ SyncCallEnds(t, "raised")

Resume(t) == AnswerVerb(t) \/ CloseResumes(t)

Next == \E t \in Tasks : CallVerb(t) \/ Close(t) \/ Cancel(t) \/ Work(t) \/ Resume(t)

Spec == Init /\ [][Next]_vars

-----------------------------------------------------------------------------
(* Properties *)

\* When the synchronous adapter has a close(), shutdown()'s cancel_futures
\* finds nothing to cancel: close() queues behind every earlier call, so the
\* future of a call is cancelled only with its own awaiter.
ShutdownDropsNothing ==
    has_close => \A t \in Tasks : fut[t] = "cancelled" => pc[t] = "cancelled"

\* No work item starts on a synchronous adapter that was closed before it.
NothingStartsOnClosedAdapter ==
    [][\A t \in Tasks :
         fut[t] = "pending" /\ fut'[t] = "running" => sync_closed = 0]_vars

\* FR-003: once the adapter is closed and no close() is still waiting, or was
\* cancelled while it waited, the executor takes no more work and has none
\* queued, and the synchronous adapter was closed if it can be.
CloseReleases ==
    closed /\ (\A t \in Tasks : op[t] = "close" => pc[t] = "done") =>
        /\ executor # "up"
        /\ queue = <<>>
        /\ has_close => sync_closed = 1

\* The provider's and the caller's side of a call, as CallPromise sees them.
RunOf    == [none |-> "none", pending |-> "asked", running |-> "running", returned |-> "ended",
             raised |-> "ended", cancelled |-> "withdrawn"]
CallerOf == [waiting |-> "waiting", done |-> "answered", error |-> "answered",
             cancelled |-> "gone", runtime_error |-> "refused"]

RunSide(t)    == IF op[t] = "verb" THEN RunOf[fut[t]] ELSE "none"
CallerSide(t) == IF op[t] # "verb" THEN "none"
                 ELSE IF fut[t] = "cancelled" THEN "gone" ELSE CallerOf[pc[t]]

runs    == [t \in Tasks |-> RunSide(t)]
callers == [t \in Tasks |-> CallerSide(t)]

Promise == INSTANCE CallPromise WITH Calls <- Tasks, run <- runs, caller <- callers

\* C-CAN-4: what the executor and the event loop do with a call implements
\* CallPromise.
CallPromiseKept == Promise!PromiseSpec

\* The event loop resumes its tasks, the workers take queued work, and the
\* synchronous adapter's HTTP calls return or time out.
Fairness == \A t \in Tasks : WF_vars(Work(t)) /\ WF_vars(Resume(t))

FairSpec == Spec /\ Fairness

\* Every call ends for its caller, close() included, however many of the
\* workers orphaned calls occupy.
EveryCallEnds == \A t \in Tasks : pc[t] = "waiting" ~> pc[t] \in Ended

=============================================================================
