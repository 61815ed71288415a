# Verification of the Open Memory Protocol SDK and server

TLA+ models of the Python implementation under `src/sdk-python/openmem` (the
`openmem` SDK, its provider adapters and `omp-server`), the TLC runs that check
them on small instances, and TLAPS proofs of what holds for every instance.
Every definition is read off the source; the lines are in `PROJECT.json`
("map"). Contracts are quoted from `src/specs/*`.

## 1. Inventory

The SDK offers one interface (add, get, update, delete, list, search, context,
audit, capabilities, wait_for_ingest) over interchangeable providers. Calls go

    HTTP client -> omp-server routes -> AsyncMemory -> async adapter
                                                       |- AsyncPostgres -> asyncpg pool -> database
                                                       |- AsyncPassthrough -> httpx -> another OMP server
                                                       `- AsyncThreadwrap -> worker threads
                                                            -> mem0 / supermemory / letta adapter -> service
    program -> Memory -> the synchronous adapters

| Component | State | Operations | Hard behaviour | What makes it correct |
|---|---|---|---|---|
| `async_memory.py` AsyncMemory | `_closed`, `_loop_id`, `_capabilities` | ten verbs, `__aenter__`, `close` | close against calls in flight; use from a second event loop | nothing enters after close; one loop; a verb meets a usable adapter |
| `adapters/async_postgres.py` | `_pool`, `_schema_ready`, `_init_lock`; the pool's connections | `_ensure_pool`, `_ensure_schema`, verbs, `close` | first-call fan-out, cancellation at every await, close during initialisation, failing DDL, exhausted pool | one pool, schema before statements, nothing stranded, every call ends |
| `adapters/async_threadwrap.py` | `_executor`, `_closed`; work queue, futures | `_run` for each verb, `close` | orphaned calls, shutdown against queued calls, cancelled close | a call runs at most once; nothing dropped that should run; close releases |
| `adapters/letta.py` | `_agent_cache`, `_passages_by_id`, `_delete_kwarg` | add, delete, list, search, context | threads racing on the dictionaries, agents deleted elsewhere, partial deletes, restart | users stay apart; a delete removes what it should; a lost agent is recovered from by a list() |
| `adapters/mem0.py` | `_original_by_event`, `_user_by_event`, `_resolved_event` | add, get, update, delete, list, search, wait_for_ingest | asynchronous ingestion, event ids guessed from content, cached guesses | an id leads to related memories, of its own user or of one the program named for it; a wait resolves what it was asked |
| `adapters/supermemory.py` | httpx client | add, get, wait_for_ingest, delete, list, search | documents in a queue, polling through 404/409 | calls end in time; done means ingested; a delete is real |
| `adapters/_ingest.py` | deadline, attempt | `poll_until` | answer racing the deadline | never late, never early, ends |
| `adapters/postgres.py`, SQL of the async one | rows, transactions | verbs | late commits, lost answers, snapshots of two queries, paging while rows come and go | paging returns what was there once; no update is lost; an empty search means what it says |
| `adapters/passthrough.py`, `async_passthrough.py`, `_http.py` | client, cached capabilities | verbs, probe, close | client re-created after close, redirects, lost answers | close releases; an error tells whether the call had its effect |
| `adapters/_cursor.py` | none | encode, decode | bounds | decode inverts encode; nothing out of range accepted |
| `server/` app, middleware, routes, errors | `app.state.memory` | routes, `/healthz`, lifespan | one-second probe, bodies in pieces of undeclared length, shutdown | the body that arrives is the one that was sent; documented error codes |
| `server/` config, cli | none after start | parse | - | - |
| `memory.py` | adapter, capabilities cache | verbs, resolution | which adapter a configuration selects | - |
| `eval/` | results, the records at the providers | consent, run, report, clean up | a provider failing in the middle, records ingested late, deleting while paging | no call without consent; failures confined to a provider; clean-up complete; it ends |
| `types.py`, `errors.py`, `embedder.py`, `base.py` | none | declarations | - | - |

Shared state: the adapter instance is shared by all tasks of a loop (async
adapters, interleaved at awaits) or by all worker threads (wrapped adapters,
interleaved anywhere). Nothing in the SDK is persisted; after a restart only
the provider's data is left. The complete list of hazards, each at its line, is
in `PROJECT.json` ("hazards").

## 2. Modules

| Module | Models | |
|---|---|---|
| `AsyncPool` | AsyncMemory + AsyncPostgresAdapter's pool, lock, schema, connections + the server's lifespan and `/healthz` | checked, proved |
| `PoolPromise` | abstract: what a lazily opened pool promises | refined by `AsyncPool` |
| `AsyncPoolProofs` | inductive invariant, safety theorems; `AsyncPool` implements `PoolPromise` | |
| `AsyncThreadwrap` | AsyncMemory + AsyncThreadwrapAdapter + executor | checked, proved |
| `CallPromise` | abstract: what the best-effort tier promises about a call | refined by `AsyncThreadwrap` |
| `AsyncThreadwrapProofs` | inductive invariant, safety theorems; `AsyncThreadwrap` implements `CallPromise` | |
| `Letta`, `LettaProofs` | LettaAdapter under worker threads | checked, proved |
| `Mem0`, `Mem0Proofs` | Mem0Adapter under worker threads, with the service's asynchronous ingestion | checked, proved |
| `Ingest` | `poll_until`: when a poll loop gives up and how long it sleeps | used by `Supermemory` |
| `Supermemory`, `SupermemoryProofs` | SupermemoryAdapter, documents and the clock | checked, proved |
| `PgStore`, `PgStoreProofs` | the SQL of PostgresAdapter and AsyncPostgresAdapter on the rows of a user | checked, proved |
| `EvalRun`, `EvalProofs` | `openmem-eval`: main(), the provider runs, cleanup() | checked, proved |
| `Server` | one request through `omp-server`: size guard, routes, adapter, error envelopes | used by `Remote` |
| `Remote`, `RemoteProofs` | PassthroughAdapter and AsyncPassthroughAdapter, composed with `Server` over a lossy network | checked, proved |
| `MC*` | instances, with one `.cfg` per run | |

`Remote` EXTENDS `Server`: a call of the client is a request of the server, in
the same slot. `Supermemory` EXTENDS `Ingest`. `AsyncPool` and `AsyncThreadwrap`
each contain the part of AsyncMemory their adapter meets, because what close()
means depends on the adapter.

What would come next: an abstract memory store that `PgStore` and the provider
adapters implement, as far as the best-effort tier can.

## 3. How the models correspond to the code

### AsyncPool

asyncio switches tasks only at an `await` that suspends, so an action is the
code from one await to the next. `pc` names the await a task is suspended at:

| `pc` | await |
|---|---|
| `lock` | `async with self._init_lock` (async_postgres.py:131) |
| `create` | `asyncpg.create_pool` (134) |
| `ddl_acquire`, `ddl` | `_ensure_schema`'s acquire and its execute calls (154-159) |
| `acquire`, `query` | a verb's acquire and statement |
| `acquire2`, `query2` | the second connection of `search` (453) |
| `closing` | `pool.close()` (171) |

The locals that survive an await are `use` (the pool a coroutine holds) and
`stmt` (how far through the schema statements it is). A pool is named by the
task that created it. `Probe` is the `/healthz` handler: it goes to the adapter
below the facade and its one-second limit is the action `Cancel`. `Close` waits
for probes because uvicorn ends the lifespan after the last request. The
constructor argument `pool_timeout` reaches create_pool only, so `Acquire` has
no timeout.

External, modelled from the way it is used: asyncio.Lock (FIFO, and a newcomer
queues when anybody waits), asyncpg.Pool (at most `PoolMax` lent; `close()` ends
when none is lent; a cancelled `close()` terminates the connections), the
database (a statement returns, fails, or is abandoned).

### AsyncThreadwrap

Two kinds of steps: those of the event loop (`CallVerb`, `Close`, `AnswerVerb`,
`CloseResumes`, `Cancel`) and those of workers (`Take`, `SyncCallEnds`).
`fut[t]` is the `concurrent.futures.Future` of a call, `queue` the executor's
work queue. Cancelling a queued call marks its future and leaves the item in the
queue; the worker that comes to it lets go of it (`Runs`). `has_close` is chosen
once: supermemory has a `close()`, letta and mem0 do not, and `close()` takes
another path then. `executor.submit` after
shutdown raises RuntimeError as the facade's guard does.

### Letta

A call runs in a worker thread; its steps are the upstream requests and the
accesses to `_agent_cache` and `_passages_by_id`. `_agent_for` is three steps:
the test (`LookupNext`), `agents.create` with the write, and the second read of
the dictionary (`ReadCache`), since another thread's `_invalidate_agent` may run
between them. Creating an agent and caching it is one step: until the write no
other thread knows the agent. `passages.create` and the write of
`_passages_by_id` are two, because the passages can be listed in between. A
failing request may have taken effect. The KeyError of a `ReadCache` that finds
the entry gone ends the call (`key_error`). An empty answer of passages.create is
one of its failures. `get`, `update` and `audit` are refused before anything
happens and are left out; `context` is a `search`.

### Mem0

The adapter never learns from the service which record an event became: it
looks for one of the user's memories that shares a word with the text
(`Matches`) and keeps what it found (`resolved`). A text is therefore the set of
its words of four letters or more, a record is named by the event it came from,
and ingestion (`Ingest`) may store any words, since the service rewrites texts.
`_original_by_event` and `_user_by_event` always have the same keys (`known`).

| Code | Actions |
|---|---|
| `add` | `Add`; with `block_on_add` it goes on like a `get` |
| `get` | `Get`, `Resolve` (the polls of `_resolve_event_id`), `Store` (364), `Fetch`, `FetchTimesOut`, `FetchFails` |
| `update` | `Update`, then the `get` steps when the id is not resolved yet, `UpdateText`, `UpdateRest`, `UpdateFails` |
| `delete` | `Delete`, `DeleteRequest`, `DeleteNotFound`, `DeleteFails` |
| `wait_for_ingest` | `Wait`, `ReadPage`, `StoreFound` (one id at a time), `PollEnds`, `WaitFails` |

`wait_for_ingest` looks through the memories of the `user_id` it is given
(`whose`), and nothing compares that with the user of the event (533-583): `Wait`
takes any user and any event ids, and `askers` is the history of the users an
event was waited for. A call for another user than the event's may store a
record of that other user as what became of the event; the polls of `get`
(`Resolve`) go by `_user_by_event`.

There is no clock: a poll that finds nothing may be the last before the
deadline, whichever it is. `get_all` returns one page of 50 or 100 records; a
record beyond it is like a request that failed. `list`, `search` and `context`
use none of this state.

### Ingest and Supermemory

`Ingest` has the two decisions of `poll_until`, as operators of the time that is
left and the number of the attempt; `Supermemory` puts them into the loops of
get, blocking add and wait_for_ingest, and delete() beside them with its own
loop. Time is counted down: `left` to the deadline, `nap` to the end of the
sleep, `flight` up to `Latency`. A request is sent, served and received in three
steps (`Send`, `ServeGet` or `ServeDelete`, `Receive...`), so an answer can be
out of date when it is looked at. `Tick` waits for nobody who has to move: a
thread does not oversleep, and a request takes no longer than the HTTP client's
timeout. Redirects are followed inside a request. The upstream statuses are
three: those wait_for_ingest() knows as an ingestion that goes on
("in_progress"), tombstones, and all others ("record"), "chunking" among them.
A call keeps asking about a document whatever stage it finds it at, until the
answer ends the loop.

### PgStore

A statement is an action, atomic and on what was committed before it. A client
has a driver: psycopg holds the lock of the row it has written until the commit,
a step of its own; asyncpg commits each statement. A commit, or an asyncpg
statement, may report an error after it has taken effect (a lost answer); a
statement may fail with none.

| Code | Actions |
|---|---|
| `add` | `BeginAdd` (new_id() and created_at are taken here), `Insert`, `Commit` |
| `get` | `BeginGet`, `Get`, `NoSuchRow` |
| `update` | `BeginUpdate`, `UpdateRow`, `Commit`, `NoSuchRow`; without fields the asynchronous version only reads (`OnlyReads`) |
| `delete` | `BeginDelete`, `DeleteRow`, `Commit`, `NoSuchRow` |
| `list` | `BeginRead`, `ListPage`; the caller goes on with `NextPage`, also after a page that failed |
| `search`, `context` | `BeginRead`, `SearchModel`, and when that is empty `SearchAny`, the second statement on a second snapshot |

A row is its place in the order of (created_at, id), so `Below` is the keyset
condition of the SQL. The place is fixed before the insert is visible: that is
how a row can appear behind a cursor. `supersedes` is the set of clients that have
appended to the row. `steady` and `indexed` are histories: the rows that were
there throughout a listing or a search.

### EvalRun

`pc` names the phase of main(): arguments, dataset, consent (or the preview of a
dry run), then `init`, `add` and `search` for each provider, the report, and
`clean`, `list`, `delete` of cleanup(). The process ends with a value of main()
(`exited`) or with an exception that nothing catches (`raised`; the status is then
1): a dataset that cannot be read, or a report that cannot be written, since
write_report() (cli.py:219) is outside of any try. Every call of a provider may fail, and
mem.add() may fail after the provider has taken the fact. A provider pages by
key (postgres) or by page number (mem0, supermemory: `adapters/_cursor.py`); the
latter also accept a fact first (`late`) and ingest it whenever they like
(`Ingest`), also during the cleanup. Letta's cursor is the id of a passage that
has been deleted by the time it is used; what the service makes of it is not
known, so a provider of that kind is left out. `touched`, `spoilt` and `kept` are
histories for the properties.

### Server and Remote

`intake` follows a body from the wire through the size guard (`kept`) to the
route (`read`); a body that is `cut` ends in an http.disconnect. A body within
the limit is one whose messages have running totals up to `MaxBytes` (`Totals`,
`Fits`): a sum without recursion. `stage` is where the server is with the
request. The slot of a
request is one call of the passthrough adapter or a request of some other HTTP
client. The error codes fall into classes, by what the client makes of them:
those with an exception class of their own that say that nothing was done
("refused", "invalid_request", "unsupported_capability"), "provider_error", and
those decode_omp_error() does not know ("other"). The adapter behind the server is
known by its answers (`CallAdapter`): it may or may not have done what it is asked
when it fails, and has changed nothing when it refuses. The latter is what the
postgres adapters do (`PgStore`), and all adapters in a verb that is one request;
`Partial` names the writes that the provider carries out in several, as update() of
mem0 does (mem0.py:473-486), which may be refused after a part has had its effect
(`LateRefusals`). The capabilities route asks the adapter like the others and may
fail like them (`Served`).

`kind` is chosen once: the synchronous adapter makes its client in the
constructor and keeps it after close(); the asynchronous one makes it when it
is needed (`EnsureClient`), is guarded by AsyncMemory, and drops it at close().
`own` is the client a call holds in a local variable. A call probes the
capabilities unless they are known; then `_check_verb`, the request, at most one
redirect (`Bare`: the method alone goes to the new place), and the answer or an
exception of httpx. A proxy may redirect any request. `RequestRaises` loses the
request, the answer or the patience.

## 4. Runs

| Run | Shows |
|---|---|
| `async_pool` | OnePoolAtATime, SchemaBeforeQuery, IdleMeansReleased, LoopConfined, refinement of PoolPromise, and that every call returns |
| `async_pool_close` | **finding**: close() during create_pool leaks a pool (FR-003) |
| `threadwrap` | close() drops no call that should run, no call starts on a closed adapter, CallPromise (at most once, no answer before the end, given-up calls never begin), close() releases, every call ends |
| `letta` | users never share an agent; what is remembered of a memory covers it; a clean delete removes what it set out to; a list() that is the only one of its user outlives the loss of an agent |
| `mem0` | calls touch memories that are related to their text, and of their own user unless the program waited for the event under another, whatever the threads wrote into the cache; wait_for_ingest() returns with every id resolved; a successful delete() of a resolved id is real |
| `mem0_wait` | **finding**: a get() that gave up makes wait_for_ingest() pass over the id |
| `supermemory` | no call overruns its deadline by more than its last request (and delete()'s last sleep); get() misses no document that was there in time; what wait_for_ingest() and delete() mean |
| `pgstore` | a listing in pages returns what was there all the time, once; no update is lost, no deletion undone; what an empty or refused search means |
| `evalrun` | no provider is called without consent; every provider has its result whatever another did; main() returns 1 only when nothing was written; cleanup() is complete at a provider that pages by key; the process ends |
| `eval_cleanup` | **finding**: without any failure cleanup() leaves records at a provider that pages by number |
| `remote` | what the outcome of a call says of its effect, over redirects, losses and close(); what the size guard lets through; whose client stays open |
| `remote_verbs` | **finding**: the server refuses get(), delete() and search() of the passthrough adapters as invalid |

The violation runs each check one sentence of the documentation that the code
contradicts; the trace is the explanation, and `PROJECT.json` ("findings")
quotes the sentence. `CloseReleasesPool`, `WaitMeansReadable`, `CleanupComplete`
and `AdvertisedVerbForwarded` are those sentences. `CurrentPoolUsable` and
`NoAdmissionAfterClose` of `AsyncPool` are in no run: they are proved.

### Bounds

- `async_pool`: three tasks, each one call. Every hazard listed involves at most
  an initialiser, a second caller and a closer. `PoolMax = 1` makes two verbs
  exhaust the pool; `NumDDL = 2` lets an initialiser stop between statements (the
  source has five); two loops are needed for cross-loop use.
- `threadwrap`: four calls on two workers, so that an orphan and a live call can
  fill the workers with another call and a close() queued behind them.
- `letta`: three calls, two users, up to two passages per memory (one is the
  case without chunking, two the smallest with a partial delete). `MaxTroubles =
  2` bounds failed requests, deleted agents and restarts together: two are
  needed to see list() lose its second agent, and a failed request followed by a
  retry needs one. Calls and users are symmetric, and no liveness is checked
  there.
- `mem0`: two workers, two events and two users. One word is enough: all that
  matters of the words is whether an event and a record share one. A user each
  and both events of one user are both initial states. `MaxCalls = 4` bounds calls
  and restarts of the process together: two adds, a wait that names the other
  user and a get that finds what it cached are four, and so are two adds and two
  calls racing on one event, or an add, a get, a restart and a get. `mem0_wait`
  needs three.
- `supermemory`: two calls on two documents. Sleeps of 1 and 2 units up to a
  deadline of 3 (the source has 1, 2, 4, 5, 5, ... seconds and 60): three polls
  when the requests take no time, and a clipped last sleep when one of them does.
  `Latency = 1` tells a request that takes time from one that does not.
  `MaxOverdue` is above what NoMissedAnswer compares it with. The properties hold
  with deadlines of 4 and 5 as well (2.5 and 3.9 million states).
- `pgstore`: one psycopg and one asyncpg client, with different models, making
  any number of calls one after the other. Three rows in pages of one: a
  listing of three pages, with a row that can come, go or change before, at and
  behind its cursor. The psycopg client writes; the asyncpg client reads, updates
  and deletes. Two clients are enough: every hazard is a reader against a writer
  or two writers on a row.
- `evalrun`: one provider that pages by key and one that pages by number, three
  facts in pages of one (the source has 200): the smallest with a page that is
  passed over and another behind it. Two queries, so that a failed one and a hit
  can go together. Every combination of the flags, the terminal and the answer
  without `--cleanup`, and a plain live run with it; cleanup() looks at none of the
  other flags.
- `remote`: two slots, so that a call races with another or with somebody
  else's request; two clients can be made (a second one only after close(), by a
  call that was probing). Bodies of two messages and of 2 or 3 bytes, of which 2
  are let in: on the limit, and above it with the last message. A writing verb that
  the server's adapter carries out in one piece (add), one that it makes several
  requests for (update), and a verb it does not support; the requests of others
  are of undeclared length, incomplete, malformed, or without a route. `remote_verbs` takes
  the four verbs left.
- Deadlock is checked in `pgstore`, `evalrun` and `eval_cleanup`. It is not in the
  others because each task, thread or slot makes one call there, or (`mem0`)
  their number is bounded, and the system then stops.

### Fairness

- `AsyncPool!FairSpec`: weak fairness of the steps of suspended tasks: the event
  loop runs what is ready, the database answers or fails, and asyncio.Lock is
  FIFO (the queue is in the model). Starting a call, cancelling and close()'s
  failure are never fair.
- `AsyncThreadwrap!FairSpec`: the workers take queued work and the synchronous
  call ends (its HTTP client has timeouts); the event loop resumes awaiters.
- `EvalRun!FairSpec`: weak fairness of the process's own steps: every call of a
  provider returns or raises. Which of the two is open, and ingestion owes
  nothing.

The other runs state no fairness: their properties are safety properties.

## 5. Proofs

The theorems hold for every value of the constants that the named assumption of
the module allows (`ConstantsAssumption` of `AsyncPool`, `LettaAssumption`,
`PgStoreAssumption`, ...). Each of the eight proof modules has an inductive
invariant `IInv`, one step lemma per part of it with one case per action,

    Spec => []IInv      (Invariance)

and the properties of the runs as consequences. None of the properties is
inductive alone (TypeOK included, where a sequence or a bound on the clock is
part of it).

**`AsyncPoolProofs`**: TypeOK, OnePoolAtATime, CurrentPoolUsable,
SchemaBeforeQuery, IdleMeansReleased, LoopConfined, NoAdmissionAfterClose.

- `LockInv`: the tasks between the lock and the assertion are exactly the lock's
  holder. Without it two initialisers cannot be excluded.
- `QueueInv`: the queue holds the tasks suspended on the lock, once each; a
  granted task is therefore in state `lock`, and a cancelled one leaves the queue
  altogether (`RemoveWaiter`, on top of `RemoveAtPosition`).
- `PoolInv`: a pool is open exactly while `_pool` names it, is being opened only
  by the task at `create`, and only while `_pool` is None. OnePoolAtATime and
  CurrentPoolUsable follow with LockInv.
- `ClosingInv`, `UseInv`: a coroutine past the lock holds a pool that was opened;
  a pool is closing exactly while some close() waits for it.
- `SchemaInv`: what each task and the flag claim about the schema is true of the
  database; statements only add to it.
- `SlotInv`: a connection is lent only to a task inside `async with
  pool.acquire()`; with LockInv and QueueInv it gives IdleMeansReleased.
- `FacadeInv`: what the guards let through.

The same module proves `Spec => PoolPromiseKept` from this invariant: each
action is a PoolPromise step or leaves the mapped state unchanged.

**`AsyncThreadwrapProofs`**: TypeOK, ShutdownDropsNothing, CloseReleases,
NothingStartsOnClosedAdapter. The argument is the order of the work queue.

- `QueueInv`: the queue holds all pending calls, and maybe cancelled ones, once
  each.
- `CallInv`: how a caller and its future go together.
- `CloserInv`: at most one close() has a work item, and it is the last of the
  queue, because the facade is closed before it is submitted. So when a worker
  has taken it nothing is queued any more, and `shutdown(cancel_futures=True)` finds
  nothing to drop.
- `ClosedInv`: what the facade's flag, the executor and the synchronous adapter
  say of each other.

The same module proves `Spec => CallPromiseKept`, cancellation and shutdown
included.

**`LettaProofs`**: TypeOK, OwnAgentOnly, KnownIsComplete, DeleteComplete,
ListSurvivesAlone.

- `AgentInv`: the cache and the calls name agents of the right user.
- `PassageInv`: a memory is stored once, by its own call, and remembered as it was
  stored.
- `DeleteInv`: what a delete() found and has not deleted is still in `todo`, as
  long as no request of it failed.
- `ListInv`: a list() asks again only with another agent than the one it found
  deleted, so that its second failure names a second deleted agent.
- `RaceInv`: only the list() of a user that has found its agent deleted takes the
  entry of the cache away (`EntryTaken`), so a call that finds it gone has a
  deleted agent and such a rival. Both stay (`RacedStays`): agents do not come
  back, and a list() that has got as far as an agent keeps it to its end.

**`SupermemoryProofs`**: TypeOK, TimelyEnd, WaitMeansVisible, DeleteIsReal and the
action property NoMissedAnswer, for any timeout, delays and latency.

- `AskInv`: what a call asks about, and in which order.
- `TimeInv`: a sleep of poll_until never reaches past the deadline, and a cycle
  that began before it takes at most one latency for each document asked so far
  (`Before`). The back-off is a power of two; that it is positive is had from the
  cardinality of a power set (`PowerOfTwo`).
- `AnswerInv`: documents only move on, so an answer that is out of date is still a
  lower bound on the stage.
- `OverdueInv`: a poll that has been waiting for a settled document has its
  request on the way since before it settled.

**`PgStoreProofs`**: TypeOK, WalkReturnsSteady, SearchHonest and the action
property WritesStand, for any mix of drivers, any number of rows and any page
length.

- `CallInv`: a call has its row from beginning to end; a client is in a
  transaction exactly while it waits to commit.
- `TxnInv`: what a transaction is about to commit keeps everything in `supersedes`
  that the committed row has. It is preserved because of
- `ApartInv`: ids are drawn once and a row is locked by one transaction.
- `WalkInv`: above the cursor every steady row has been returned once, and below
  it nothing has. A row that appears behind the cursor is not steady.
- `SnapshotInv`: the histories name rows that are there; `indexed` is empty from
  the first statement of search() on if that found nothing.

**`Mem0Proofs`**: TypeOK, TouchesOwnMemories and the action properties
WaitResolvesAll and DeleteIsReal, for any number of workers, events, users and
words, and however often the process restarts. The argument is that of a cache of
guesses: a guess is right when it is made, wherever it is written after that, and
cannot become wrong.

- `Landed`, `Related`, `Leads`: a guessed record is or was stored, is one of the
  same user or of one who was waited for, and once had a word of the event's text,
  if the text has any. The words a record ever had (`written`) only grow, its user and text stay, and a
  record that was stored is afterwards stored or deleted for good; so `Leads` is
  stable.
- `ServiceInv`: a record shows words it had at some time.
- `CacheInv`, `CallInv`: `Leads` holds of what is in the cache and of the ids the
  calls carry in local variables across requests. Neither is inductive without
  the other: calls write to the cache what they carry, and read it from there.
- `WaitInv`: what wait_for_ingest() was asked for and does not look for is
  resolved, and a page that shows everything has the rest.
- `DeleteInv`: delete() goes on to the id it was given only when the record that
  the cache held is gone.

**`RemoteProofs`**: TypeOK, OutcomeTellsEffect, ClientReleased, and of the server
in it BodyWholeAndBounded, for any slots, bodies, limits and supported verbs.

- `IntakeInv`: what is on the wire, kept and read is together the body that was
  sent; while it is taken in, the size guard has counted exactly what it keeps.
  `TotalsGrow` carries the limit from one message to the next.
- `BufferSuffices` follows as well: the route asks for no message after the last
  one kept, unless the sender went away.
- `CallInv`: the server has done what was asked only when it answered so, or got
  into trouble, or refused the rest of a write in several requests; any other
  refusal is final, whatever is redirected or lost after it.
- `ClientInv`: the five ways in which the adapter, its two clients and close() can
  stand to each other.

**`EvalProofs`**: TypeOK, NoCallWithoutConsent, EveryProviderReported and
KeysetCleanupComplete, for any number of providers, facts and queries and any
size of a page.

- `ConsentInv`: the phases that call providers are reached through the consent or
  without a need for it, and the phases before say which options led there.
- `ResultInv`: the providers behind the one that is running have a complete
  result, those ahead of it none and no record (`Ahead`, `Behind`).
- `CleanInv`: at a provider cleanup() has done with (`Swept`), nothing is left
  that was due (`Due`); at the one it is at, everything due is below the cursor
  or in the batch. It rests on what a page is: the largest `size` records
  below the cursor (`TopOfSet`), so that a page which is not full has all of
  them. That a full page has `size` of them is a pigeonhole argument: different
  records have different ranks, so that the ranks of `n` records are 0 .. n-1. An
  induction over sets is out of reach.

All the invariants and action properties that the passing runs check, and both
refinements, are proved. Only model-checked is liveness (`EveryCallReturns`,
`EveryCallEnds`, `RunEnds`), which is outside what the provers do. That poll loops
end is stated as a bound on the clock (`TimelyEnd`), a safety property, and not
as liveness.

## 6. Known divergences

What the code does and a document or comment of the repository says otherwise.
The first four are runs.

| Where | What |
|---|---|
| `async_postgres.py:134` | close() during create_pool leaves an open pool (`async_pool_close`) |
| `mem0.py:364` | get() caches an id it could not resolve, and wait_for_ingest() passes over it (`mem0_wait`) |
| `eval/cleanup.py:24` | deleting moves the records of the next page up, and cleanup() passes over them (`eval_cleanup`) |
| `passthrough.py:201` | no `X-User-Id` header, and search by POST (`remote_verbs`) |

The others were seen while modelling and are behaviours of the models:

- `async_postgres.py:392` and the other verbs wait for a connection without limit,
  while `specs/005-async-fastapi/spec.md:79` wants a 503 from an exhausted pool.
- `async_passthrough.py:90`: a call that was waiting for its probe while close() ran makes
  a new client, which nobody closes; ClientReleased states the exception.
- `letta.py:422` says the entry is dropped only when all passages are gone; 423 drops
  it in any case, so that a second delete() no longer knows of the others.
- `letta.py:360`: add() and search() (502-514) keep an agent in the cache that is not
  found any more (FR-117, `specs/003-m2-1-live/spec.md:144`: "the cache entry MUST be
  invalidated"); only list() invalidates it.
- `letta.py:223`: `_agent_for` tests the cache and reads it again (208, 209, 223). When
  the agent of a user has been deleted and two threads list, the
  `_invalidate_agent` of one (226) comes between, and the other fails with a
  KeyError instead of being retried (docstring in 207). ListSurvivesAlone therefore
  promises a list() its answer only when no other one of its user is on the way.
- `letta.py:384`: "`delete` removes them all" (`specs/003-m2-1-live/plan.md:122`). Until
  add() has remembered the passages of a memory, and after a restart, a delete()
  removes the one its id names and reports success; DeleteComplete speaks of the
  passages delete() knew of.
- `mem0.py:533`: wait_for_ingest() does not compare its user_id with the user of the
  event, and caches what it finds among the memories of the former; no document
  says what such a call should do, and TouchesOwnMemories names the exception.
- `mem0.py:485`: update() may be refused when its text has already been changed.
- `_ingest.py:5` has get() poll until the record is "done"; supermemory's get() returns a
  document that is still ingested and calls it done (`supermemory.py:327`).
- `supermemory.py:336` waits for a terminal state; "chunking" is not among the states that
  go on (360).
- `_http.py:101`: a redirected request has lost its body and its parameters; the same in
  `async_passthrough.py:131`. The synchronous version does not translate a timeout there.
- `server/errors.py`: payload_too_large and internal_error are codes that
  decode_omp_error() does not know; they become a ProviderError.
- `server/app.py:55`: the size guard is added after the access log and so lies outside of
  it: a 413 is not logged.
- `server/routes.py:69`: a body that does not validate raises pydantic's ValidationError,
  which has no handler, and not the 400 of the comment.
- `eval/cli.py:219`: write_report() is outside of any try. A report that cannot be
  written (`report.py:29` and `89`) ends a run whose queries were answered with a
  traceback and status 1, which `cli.py:235` and
  `specs/004-eval-kit/contracts/cli.md:43` keep for runs without results.
  EveryProviderReported speaks of the value main() returns.
- `eval/cli.py:223`: cleanup comes last. When run() raises (215) or the report cannot
  be written, nothing is deleted, although `contracts/cli.md:27` has it done "before
  exiting". KeysetCleanupComplete speaks of a main() that came to its verdict.

## 7. Not modelled

The access log and CORS; configuration and command line of the server; the
Memory facade and provider resolution, which have no state but the adapter they
made; the filters, scores, min_score and dimension check of the postgres
adapters; the encoding of cursors; scores, latencies, trace and contents of the
eval report; the payloads of requests and answers, and the wire types. These are
pure functions without state that the repository's own tests cover. list, search
and context of mem0 and supermemory are one request each and change nothing.
Embedding, vector ranking and LLM rewriting are the providers'.
