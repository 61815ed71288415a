----------------------------- MODULE AsyncPool -----------------------------
(***************************************************************************)
(* The life of AsyncMemory on the postgres provider: the facade's guards   *)
(* (async_memory.py), the lazily opened asyncpg pool and its init lock,    *)
(* the schema statements, the connections the verbs borrow, close(), task  *)
(* cancellation, and the server's /healthz probe, which enters the adapter *)
(* below the facade.                                                       *)
(*                                                                         *)
(* A task makes one call.  asyncio switches tasks only where a coroutine   *)
(* suspends, so each action runs from one await to the next.  A pool is    *)
(* named by the task whose create_pool made it.                            *)
(*                                                                         *)
(* External parts are modelled from the way the source uses them:          *)
(* asyncio.Lock (FIFO), asyncpg.Pool (at most PoolMax connections lent,    *)
(* close() waits for those in use) and the database (a statement returns,  *)
(* fails, or is abandoned when its task is cancelled).                     *)
(***************************************************************************)
EXTENDS Naturals, Sequences, FiniteSets, SequencesExt

CONSTANTS Tasks,     \* asyncio tasks, one call each
          Loops,     \* event loops
          PoolMax,   \* pool_max_size
          NumDDL,    \* statements of _ensure_schema (five in the source)
          NoTask,    \* None, for a pool or a lock holder
          NoLoop     \* None, for the bound loop

ASSUME ConstantsAssumption ==
    /\ PoolMax \in Nat \ {0}
    /\ NumDDL \in Nat \ {0}
    /\ NoTask \notin Tasks
    /\ NoLoop \notin Loops

VARIABLES
    closed,        \* AsyncMemory._closed
    loop_id,       \* AsyncMemory._loop_id
    pool,          \* AsyncPostgresAdapter._pool
    schema_ready,  \* AsyncPostgresAdapter._schema_ready
    holder,        \* the task inside `async with self._init_lock`
    waiters,       \* the tasks suspended on the lock, in order of arrival
    pstate,        \* what has become of each task's pool
    inuse,         \* the tasks holding a connection of each pool
    applied,       \* schema statements the database has executed
    op,            \* the call each task makes
    on,            \* the event loop it makes it on
    pc,            \* where each task is suspended, or how its call ended
    use,           \* the pool each task holds in a local variable
    stmt           \* schema statements a task has seen executed

facade  == <<closed, loop_id>>
adapter == <<pool, schema_ready>>
lock    == <<holder, waiters>>
server  == <<pstate, inuse, applied>>
task    == <<op, on, pc, use, stmt>>
vars    == <<facade, adapter, lock, server, task>>

Verbs      == {"verb", "search"}
Operations == Verbs \cup {"probe", "close", "enter"}
Suspended  == {"lock", "create", "ddl_acquire", "ddl", "acquire", "query",
               "acquire2", "query2", "closing"}
Outcomes   == {"done", "provider_error", "runtime_error", "assertion_error",
               "cancelled"}

InFlight(t) == pc[t] \in Suspended
Ended(t)    == pc[t] \in Outcomes

TypeOK ==
    /\ closed \in BOOLEAN
    /\ loop_id \in Loops \cup {NoLoop}
    /\ pool \in Tasks \cup {NoTask}
    /\ schema_ready \in BOOLEAN
    /\ holder \in Tasks \cup {NoTask}
    /\ waiters \in Seq(Tasks)
    /\ pstate \in [Tasks -> {"none", "opening", "open", "closing", "closed"}]
    /\ inuse \in [Tasks -> SUBSET Tasks]
    /\ applied \in 0..NumDDL
    /\ op \in [Tasks -> Operations \cup {"none"}]
    /\ on \in [Tasks -> Loops \cup {NoLoop}]
    /\ pc \in [Tasks -> {"idle"} \cup Suspended \cup Outcomes]
    /\ use \in [Tasks -> Tasks \cup {NoTask}]
    /\ stmt \in [Tasks -> 0..NumDDL]

Init ==
    /\ closed = FALSE
    /\ loop_id = NoLoop
    /\ pool = NoTask
    /\ schema_ready = FALSE
    /\ holder = NoTask
    /\ waiters = <<>>
    /\ pstate = [t \in Tasks |-> "none"]
    /\ inuse = [t \in Tasks |-> {}]
    /\ applied = 0
    /\ op = [t \in Tasks |-> "none"]
    /\ on = [t \in Tasks |-> NoLoop]
    /\ pc = [t \in Tasks |-> "idle"]
    /\ use = [t \in Tasks |-> NoTask]
    /\ stmt = [t \in Tasks |-> 0]

-----------------------------------------------------------------------------
(* Helpers *)

\* _check_open
CheckOpen == ~closed

\* _check_loop: the first call binds the loop, later calls must be on it.
CheckLoopMissing(l) == TRUE
CheckLoop(l) == loop_id \in {NoLoop, l}

\* The test before the lock: both parts are needed, the pool is assigned
\* before its schema has been declared.
FastPathOnPoolAlone == pool # NoTask
FastPath == pool # NoTask /\ schema_ready

\* asyncio.Lock.acquire returns at once only when nobody holds the lock and
\* nobody is queued for it.
LockNeverBlocks == TRUE
LockFree == holder = NoTask /\ waiters = <<>>

\* What `async with self._init_lock` leaves behind when t stops holding it
\* or stops waiting for it.
HolderKeptAfter(t) == holder
HolderAfter(t) == IF holder = t THEN NoTask ELSE holder

WaitersAfter(t) ==
    IF Contains(waiters, t)
      THEN RemoveAt(waiters, CHOOSE i \in 1..Len(waiters) : waiters[i] = t)
      ELSE waiters

\* The connections left in use when t leaves `async with pool.acquire()`.
SlotsKeptAfter(t) == inuse
SlotsAfter(t) == [p \in Tasks |-> inuse[p] \ {t}]

HasSlot(p) == Cardinality(inuse[p]) < PoolMax

Goto(t, where) == pc' = [pc EXCEPT ![t] = where]

\* t goes on without the lock and without a connection.
Leave(t, where) ==
    /\ Goto(t, where)
    /\ holder' = HolderAfter(t)
    /\ inuse' = SlotsAfter(t)

-----------------------------------------------------------------------------
(* _ensure_pool *)

\* `return self._pool`: the caller goes on to pool.acquire().
ReturnPool(t) ==
    /\ use' = [use EXCEPT ![t] = pool]
    /\ Goto(t, "acquire")
    /\ UNCHANGED <<adapter, stmt, pstate>>

\* The body of the lock, up to its first await.
CreateOrDeclare(t) ==
    \/ /\ pool = NoTask
       /\ pstate' = [pstate EXCEPT ![t] = "opening"]
       /\ Goto(t, "create")
       /\ holder' = t
       /\ UNCHANGED <<adapter, use, stmt>>
    \/ /\ pool # NoTask
       /\ ~schema_ready
       /\ use' = [use EXCEPT ![t] = pool]
       /\ Goto(t, "ddl_acquire")
       /\ holder' = t
       /\ UNCHANGED <<adapter, stmt, pstate>>
    \/ /\ FastPath
       /\ ReturnPool(t)
       /\ UNCHANGED holder

EnsurePool(t) ==
    \/ /\ FastPath
       /\ ReturnPool(t)
       /\ UNCHANGED lock
    \/ /\ ~FastPath
       /\ LockFree
       /\ CreateOrDeclare(t)
       /\ UNCHANGED waiters
    \/ /\ ~FastPath
       /\ ~LockFree
       /\ waiters' = Append(waiters, t)
       /\ Goto(t, "lock")
       /\ UNCHANGED <<adapter, holder, use, stmt, pstate>>

\* The lock is released and the first task queued for it resumes.
LockGranted(t) ==
    /\ pc[t] = "lock"
    /\ holder = NoTask
    /\ waiters # <<>> /\ Head(waiters) = t
    /\ waiters' = Tail(waiters)
    /\ CreateOrDeclare(t)
    /\ UNCHANGED <<facade, inuse, applied, op, on>>

\* create_pool returns; `self._pool` is assigned without a look at whether
\* close() ran in the meantime.
PoolCreated(t) ==
    /\ pc[t] = "create"
    /\ pstate' = [pstate EXCEPT ![t] = "open"]
    /\ pool' = t
    /\ use' = [use EXCEPT ![t] = t]
    /\ IF schema_ready
         THEN Goto(t, "acquire") /\ holder' = HolderAfter(t)
         ELSE Goto(t, "ddl_acquire") /\ UNCHANGED holder
    /\ UNCHANGED <<facade, schema_ready, waiters, inuse, applied, op, on, stmt>>

PoolCreationFails(t) ==
    /\ pc[t] = "create"
    /\ pstate' = [pstate EXCEPT ![t] = "closed"]
    /\ Leave(t, "provider_error")
    /\ UNCHANGED <<facade, adapter, waiters, applied, op, on, use, stmt>>

-----------------------------------------------------------------------------
(* _ensure_schema *)

SchemaConnection(t) ==
    /\ pc[t] = "ddl_acquire"
    /\ pstate[use[t]] \in {"open", "closing"}
    /\ HasSlot(use[t])
    /\ inuse' = [inuse EXCEPT ![use[t]] = @ \cup {t}]
    /\ Goto(t, "ddl")
    /\ UNCHANGED <<facade, adapter, lock, pstate, applied, op, on, use, stmt>>

DDLLeftOffByOne(t) == stmt[t] <= NumDDL
DDLLeft(t) == stmt[t] < NumDDL

\* One `await conn.execute(...)`; each statement commits by itself and does
\* nothing when its object already exists.
SchemaStatement(t) ==
    /\ pc[t] = "ddl"
    /\ pstate[use[t]] # "closed"
    /\ DDLLeft(t)
    /\ stmt' = [stmt EXCEPT ![t] = @ + 1]
    /\ applied' = IF stmt[t] + 1 > applied THEN stmt[t] + 1 ELSE applied
    /\ UNCHANGED <<facade, adapter, lock, pstate, inuse, op, on, pc, use>>

\* The connection goes back, the schema is marked ready, the lock is released
\* and the assertion on `self._pool` is evaluated: a close() since the pool
\* was created makes it fail.
SchemaDone(t) ==
    /\ pc[t] = "ddl"
    /\ ~DDLLeft(t)
    /\ schema_ready' = TRUE
    /\ IF pool = NoTask
         THEN Leave(t, "assertion_error") /\ UNCHANGED use
         ELSE Leave(t, "acquire") /\ use' = [use EXCEPT ![t] = pool]
    /\ UNCHANGED <<facade, pool, waiters, pstate, applied, op, on, stmt>>

SchemaFails(t) ==
    /\ pc[t] \in {"ddl_acquire", "ddl"}
    /\ Leave(t, "provider_error")
    /\ UNCHANGED <<facade, adapter, waiters, pstate, applied, op, on, use, stmt>>

-----------------------------------------------------------------------------
(* The facade's calls *)

\* Two loops never run at once: a program that uses two calls asyncio.run
\* twice.
MakeCall(t, o, l) ==
    /\ pc[t] = "idle"
    /\ \A u \in Tasks : InFlight(u) => on[u] = l
    /\ op' = [op EXCEPT ![t] = o]
    /\ on' = [on EXCEPT ![t] = l]

\* A call that a guard rejects, or that has nothing to do.
Answer(t, outcome) ==
    /\ Goto(t, outcome)
    /\ UNCHANGED <<facade, adapter, lock, server, use, stmt>>

\* A call that binds the loop and needs no pool.
BindLoop(t, l) ==
    /\ loop_id' = l
    /\ Goto(t, "done")
    /\ UNCHANGED <<closed, adapter, lock, server, use, stmt>>

\* capabilities, audit and wait_for_ingest, and a call whose arguments are
\* rejected, never get to the pool.
CallVerb(t, o, l) ==
    /\ MakeCall(t, o, l)
    /\ \/ /\ CheckOpen /\ CheckLoop(l)
          /\ loop_id' = l
          /\ EnsurePool(t)
          /\ UNCHANGED <<closed, inuse, applied>>
       \/ /\ CheckOpen /\ CheckLoop(l)
          /\ BindLoop(t, l)
       \/ /\ ~(CheckOpen /\ CheckLoop(l))
          /\ Answer(t, "runtime_error")

\* __aenter__ binds the loop and looks at nothing else.
Enter(t, l) ==
    /\ MakeCall(t, "enter", l)
    /\ \/ CheckLoop(l) /\ BindLoop(t, l)
       \/ /\ ~CheckLoop(l)
          /\ Answer(t, "runtime_error")

\* GET /healthz on the postgres provider: the adapter's _ensure_pool, then
\* an empty `async with pool.acquire()`.  The server has entered the facade
\* on this loop, and closes it only after its last request.
Probe(t, l) ==
    /\ MakeCall(t, "probe", l)
    /\ ~closed
    /\ loop_id = l
    /\ EnsurePool(t)
    /\ UNCHANGED <<facade, inuse, applied>>

\* `self._pool = None` in the adapter's close().
PoolAfterClose == NoTask

\* `_closed = True` and the adapter's close() run to pool.close() without an
\* await between them.
Close(t, l) ==
    /\ MakeCall(t, "close", l)
    /\ \A u \in Tasks : op[u] = "probe" => Ended(u)
    /\ \/ /\ closed
          /\ Answer(t, "done")
       \/ /\ ~closed
          /\ closed' = TRUE
          /\ IF pool = NoTask
               THEN /\ Goto(t, "done")
                    /\ UNCHANGED <<pool, pstate, use>>
               ELSE /\ Goto(t, "closing")
                    /\ use' = [use EXCEPT ![t] = pool]
                    /\ pstate' = [pstate EXCEPT ![pool] = "closing"]
                    /\ pool' = PoolAfterClose
          /\ UNCHANGED <<loop_id, schema_ready, lock, inuse, applied, stmt>>

PoolClosed(t) ==
    /\ pc[t] = "closing"
    /\ pstate' = [pstate EXCEPT ![use[t]] = "closed"]
    /\ Goto(t, "done")
    /\ UNCHANGED <<facade, adapter, lock, inuse, applied, op, on, use, stmt>>

\* pool.close() returns when every connection is back.
CloseEnds(t) == PoolClosed(t) /\ inuse[use[t]] = {}

\* pool.close() raises, the pool is terminated, and close() swallows the
\* exception.
CloseRaises(t) == PoolClosed(t)

-----------------------------------------------------------------------------
(* Connections and statements of the verbs *)

\* pool.acquire() has no timeout: a task waits for as long as every
\* connection is lent.  A pool that is closing still serves the tasks queued
\* on it.
Acquire(t) ==
    /\ pc[t] \in {"acquire", "acquire2"}
    /\ pstate[use[t]] \in {"open", "closing"}
    /\ HasSlot(use[t])
    /\ inuse' = [inuse EXCEPT ![use[t]] = @ \cup {t}]
    /\ Goto(t, IF pc[t] = "acquire" THEN "query" ELSE "query2")
    /\ UNCHANGED <<facade, adapter, lock, pstate, applied, op, on, use, stmt>>

\* Every exception of pool.acquire() or of the statement becomes a
\* ProviderError, except in search's second query, where it counts as "no
\* rows of another model".
StatementFails(t) ==
    /\ \/ pc[t] \in {"acquire", "acquire2"} /\ pstate[use[t]] # "open"
       \/ pc[t] \in {"query", "query2"}
    /\ Leave(t, IF pc[t] \in {"acquire2", "query2"} THEN "done" ELSE "provider_error")
    /\ UNCHANGED <<facade, adapter, waiters, pstate, applied, op, on, use, stmt>>

StatementReturns(t) ==
    /\ pc[t] \in {"query", "query2"}
    /\ pstate[use[t]] # "closed"
    /\ Leave(t, "done")
    /\ UNCHANGED <<facade, adapter, waiters, pstate, applied, op, on, use, stmt>>

\* search found no row: it gives its connection back and asks for one again.
SearchAgain(t) ==
    /\ pc[t] = "query"
    /\ op[t] = "search"
    /\ pstate[use[t]] # "closed"
    /\ Leave(t, "acquire2")
    /\ UNCHANGED <<facade, adapter, waiters, pstate, applied, op, on, use, stmt>>

-----------------------------------------------------------------------------
(* Cancellation, at whichever await the task is suspended: asyncio.Task.cancel
   by the caller, a disconnected HTTP client, or the probe's one-second
   timeout.  None of the `except Exception` clauses catches it. *)

Cancel(t) ==
    /\ InFlight(t)
    /\ Leave(t, "cancelled")
    /\ waiters' = WaitersAfter(t)
    /\ pstate' = [p \in Tasks |->
                    IF \/ pc[t] = "create" /\ p = t
                       \/ pc[t] = "closing" /\ p = use[t]
                      THEN "closed" ELSE pstate[p]]
    /\ UNCHANGED <<facade, adapter, applied, op, on, use, stmt>>

-----------------------------------------------------------------------------

Start(t, l) ==
    Enter(t, l) \/ Probe(t, l) \/ Close(t, l) \/ \E o \in Verbs : CallVerb(t, o, l)

\* What the event loop and the external parts do for a suspended task.
Ensure(t) ==
    \/ LockGranted(t) \/ PoolCreated(t) \/ PoolCreationFails(t)
    \/ SchemaConnection(t) \/ SchemaStatement(t) \/ SchemaDone(t) \/ SchemaFails(t)

Run(t) ==
    \/ Acquire(t) \/ StatementFails(t) \/ StatementReturns(t) \/ SearchAgain(t)
    \/ CloseEnds(t)

Next ==
    \E t \in Tasks :
        \/ \E l \in Loops : Start(t, l)
        \/ Ensure(t) \/ Run(t) \/ CloseRaises(t) \/ Cancel(t)

Spec == Init /\ [][Next]_vars

-----------------------------------------------------------------------------
(* The inductive invariant *)

Initialising == {"create", "ddl_acquire", "ddl"}

\* The tasks between the lock and the assertion are exactly its holder.
LockInv ==
    \A t \in Tasks : pc[t] \in Initialising <=> holder = t

\* The queue of the lock holds the tasks suspended on it, each once.
QueueInv ==
    /\ \A i \in 1..Len(waiters) : pc[waiters[i]] = "lock"
    /\ \A i, j \in 1..Len(waiters) : waiters[i] = waiters[j] => i = j

\* A pool is open exactly while `_pool` designates it; it is being opened
\* only by its own task, while `_pool` is None, and no task has opened one before
\* it gets past the lock.
PoolInv ==
    /\ \A p \in Tasks : pstate[p] = "open" <=> pool = p
    /\ \A p \in Tasks : pstate[p] = "opening" <=> pc[p] = "create"
    /\ \A t \in Tasks : pc[t] = "create" => pool = NoTask
    /\ \A t \in Tasks : pc[t] \in {"idle", "lock"} => pstate[t] = "none"

\* A pool is being closed exactly by the close() that took it.
ClosingInv ==
    /\ \A t \in Tasks :
         pc[t] = "closing" => use[t] \in Tasks /\ pstate[use[t]] \in {"closing", "closed"}
    /\ \A p \in Tasks :
         pstate[p] = "closing" => \E t \in Tasks : pc[t] = "closing" /\ use[t] = p

\* A task past _ensure_pool's lock works on a pool that was opened.
UseInv ==
    \A t \in Tasks :
        pc[t] \in {"ddl_acquire", "ddl", "acquire", "query", "acquire2", "query2"} =>
            use[t] \in Tasks /\ pstate[use[t]] \in {"open", "closing", "closed"}

\* What each task knows about the schema is true of the database.
SchemaInv ==
    /\ schema_ready => applied = NumDDL
    /\ \A t \in Tasks : stmt[t] <= applied
    /\ \A t \in Tasks :
         pc[t] \in {"acquire", "query", "acquire2", "query2"} => applied = NumDDL

\* A connection is lent only to a task inside `async with pool.acquire()`.
SlotInv ==
    \A p, t \in Tasks :
        t \in inuse[p] => pc[t] \in {"ddl", "query", "query2"} /\ use[t] = p

\* What the facade's guards have let through.
FacadeInv ==
    /\ \A t \in Tasks : op[t] = "close" => closed
    /\ \A t \in Tasks :
         op[t] \in Verbs /\ pc[t] # "runtime_error" => loop_id = on[t] /\ on[t] \in Loops

IInv ==
    /\ TypeOK /\ LockInv /\ QueueInv /\ PoolInv /\ ClosingInv /\ UseInv
    /\ SchemaInv /\ SlotInv /\ FacadeInv

-----------------------------------------------------------------------------
(* Properties *)

\* Concurrent first calls never open two pools (_ensure_pool's docstring): at
\* any time at most one pool is being created or is open, whatever is being
\* closed or cancelled meanwhile.
OnePoolAtATime ==
    \A p, q \in Tasks :
        pstate[p] \in {"opening", "open"} /\ pstate[q] \in {"opening", "open"} => p = q

\* `_pool` never designates a pool that close() has started to close, so the
\* test before the lock cannot hand one out.
CurrentPoolUsable == pool # NoTask => pstate[pool] = "open"

\* No verb and no probe has a statement in progress before every schema
\* statement has been executed, although `_schema_ready` survives close() and
\* an initialiser can fail or be cancelled between two statements.
SchemaBeforeQuery ==
    \A t \in Tasks : pc[t] \in {"query", "query2"} => applied = NumDDL

\* C-CAN-5: when no call is in progress, whatever was cancelled or failed on
\* the way, the init lock is free, nobody is queued for it, every connection
\* is back and no pool is half opened or half closed.
IdleMeansReleased ==
    (\A t \in Tasks : ~InFlight(t)) =>
        /\ holder = NoTask
        /\ waiters = <<>>
        /\ \A p \in Tasks : inuse[p] = {} /\ pstate[p] \notin {"opening", "closing"}

\* FR-010: every verb that passed the facade's guards ran on one event loop,
\* the one the lock and the pool belong to.
LoopConfined ==
    \A t, u \in Tasks :
        /\ op[t] \in Verbs /\ pc[t] # "runtime_error"
        /\ op[u] \in Verbs /\ pc[u] # "runtime_error"
        => on[t] = on[u]

\* AM-INV-5: once a close() has begun, even if it is still waiting for the
\* pool or was cancelled, no later call gets as far as the adapter.
NoAdmissionAfterClose ==
    [][(\E c \in Tasks : op[c] = "close") =>
         \A t \in Tasks : pc[t] = "idle" => pc'[t] \in {"idle"} \cup Outcomes]_vars

\* What the rest of the client sees of the pools, of the schema and of the
\* statements in progress.
poolPhase ==
    [p \in Tasks |->
        IF pstate[p] \in {"closing", "closed"} THEN "retired" ELSE pstate[p]]
tablesExist == applied = NumDDL
querying == {t \in Tasks : pc[t] \in {"query", "query2"}}

Promise == INSTANCE PoolPromise WITH
    Ids <- Tasks, phase <- poolPhase, tables <- tablesExist, busy <- querying

\* The pool's life implements PoolPromise: a pool is opened only when none is
\* being opened or open, and statements run only on declared tables.
PoolPromiseKept == Promise!PromiseSpec

\* The event loop resumes what can be resumed, create_pool and the database
\* answer or fail, and connections come back; nobody has to call or cancel.
Fairness == \A t \in Tasks : WF_vars(Ensure(t)) /\ WF_vars(Run(t))

FairSpec == Spec /\ Fairness

\* Every call that was made returns, raises or is cancelled: no failed or
\* cancelled initialiser strands the calls queued behind it.
EveryCallReturns == \A t \in Tasks : InFlight(t) ~> Ended(t)

\* FR-003 (specs/005-async-fastapi/spec.md): close() releases every
\* connection of the adapter.  Once close() has returned and no call is in
\* progress, no pool is left open.
CloseReleasesPool ==
    /\ \E c \in Tasks : op[c] = "close" /\ pc[c] = "done"
    /\ \A t \in Tasks : ~InFlight(t)
    => \A p \in Tasks : pstate[p] # "open"

=============================================================================
