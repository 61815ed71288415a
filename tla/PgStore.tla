------------------------------ MODULE PgStore ------------------------------
(***************************************************************************)
(* The verbs of PostgresAdapter (adapters/postgres.py) and of              *)
(* AsyncPostgresAdapter (adapters/async_postgres.py) on the table of one   *)
(* user.  A client is a thread or a task with its driver and its embedder. *)
(* psycopg executes a statement and commits it afterwards; asyncpg commits *)
(* every statement.  A statement is atomic and sees what was committed     *)
(* before it (READ COMMITTED); one on a row that another transaction has   *)
(* written waits for that transaction.                                     *)
(*                                                                         *)
(* A row is known by its place in the order of (created_at, id).  Filters, *)
(* scores and the dimension check are left out; the pool is the subject of *)
(* AsyncPool, and its exhaustion a failed statement here.                  *)
(***************************************************************************)
EXTENDS Integers, FiniteSets

CONSTANTS Clients,
          Driver,     \* of each client: "psycopg" or "asyncpg"
          Model,      \* of each client: the model of its embedder
          Uses,       \* of each client: the verbs it calls
          Updates,    \* of each client: the sets of fields it updates
          NumRows,    \* bound: the rows that are ever inserted
          PageLimit,  \* the limit given to list()
          NoRow,      \* not inserted yet
          Gone,       \* deleted
          NoTxn       \* no transaction

Fields == {"content", "supersedes"}
Verbs  == {"add", "get", "update", "delete", "list", "search", "context"}
Models == {Model[c] : c \in Clients}

\* supersedes is known by the clients that have appended to it.
Row == [model : Models, supersedes : SUBSET Clients]

ASSUME PgStoreAssumption ==
    /\ Driver \in [Clients -> {"psycopg", "asyncpg"}]
    /\ Uses \in [Clients -> SUBSET Verbs]
    /\ Updates \in [Clients -> SUBSET SUBSET Fields]
    /\ NumRows \in Nat /\ PageLimit \in Nat \ {0}
    /\ NoRow \notin Row /\ Gone \notin Row /\ NoRow # Gone
    /\ NoTxn \notin [key : 1..NumRows, row : Row \cup {Gone}]

VARIABLES
    rows,      \* the table, as committed
    txn,       \* what each client has written and not committed
    call,      \* the call of each client: verb, place, id and fields given
    cursor,    \* the cursor of its listing
    returned,  \* history: how often its listing has returned each row
    steady,    \* history: the rows visible ever since its list() or search()
               \* began
    indexed    \* history: those indexed with its model ever since its search()
               \* began

vars  == <<rows, txn, call, cursor, returned, steady, indexed>>
walks == <<cursor, returned>>

Keys   == 1..NumRows
Top    == NumRows + 1         \* no cursor: every row is below
Reads  == {"list", "search", "context"}

\* How a call ends.  For list(): there is more from the cursor on (or the page
\* failed and can be asked for again), or this was the last page.  For search():
\* no result for sure, no result for want of knowing better, or refused.
Ended == {"ok", "error", "not_found", "more", "last", "none", "unsure", "invalid"}

TypeOK ==
    /\ rows \in [Keys -> Row \cup {NoRow, Gone}]
    /\ txn \in [Clients -> {NoTxn} \cup [key : Keys, row : Row \cup {Gone}]]
    /\ call \in [Clients -> [verb : Verbs \cup {"idle"}, at : Ended \cup {"execute", "commit", "check"},
                             key : Keys \cup {Top}, what : SUBSET Fields]]
    /\ cursor \in [Clients -> Keys \cup {Top}]
    /\ returned \in [Clients -> [Keys -> 0..2]]
    /\ steady \in [Clients -> SUBSET Keys] /\ indexed \in [Clients -> SUBSET Keys]

\* _ensure_schema() creates the table or finds one with rows.
Init ==
    /\ rows \in [Keys -> {NoRow} \cup [model : Models, supersedes : {{}}]]
    /\ txn = [c \in Clients |-> NoTxn]
    /\ call = [c \in Clients |-> [verb |-> "idle", at |-> "ok", key |-> Top, what |-> {}]]
    /\ cursor = [c \in Clients |-> Top]
    /\ returned = [c \in Clients |-> [k \in Keys |-> 0]]
    /\ steady = [c \in Clients |-> {}] /\ indexed = [c \in Clients |-> {}]

-----------------------------------------------------------------------------
(* Rows, locks and pages *)

Visible    == {k \in Keys : rows[k] \in Row}
Indexed(c) == {k \in Visible : rows[k].model = Model[c]}

\* An id that no call has drawn (new_id()).
Fresh(k) == /\ rows[k] = NoRow
            /\ \A c \in Clients : call[c].verb = "add" => call[c].key # k

LockedByNobody(c, k) == FALSE    \* defect: the row is read before it is written

\* Another transaction holds the lock of the row.
Locked(c, k) == \E d \in Clients \ {c} : txn[d] # NoTxn /\ txn[d].key = k

BelowByInstant(k, last) == (k + 1) \div 2 < (last + 1) \div 2    \* defect

\* (created_at, id) < (ts, last_id)
Below(k, last) == k < last

\* SELECT ... ORDER BY created_at DESC, id DESC LIMIT n: the first n of the
\* candidates, or all of them.
IsPage(p, candidates) ==
    /\ p \subseteq candidates /\ Cardinality(p) <= PageLimit
    /\ \A k \in p, j \in candidates \ p : j < k
    /\ Cardinality(p) = PageLimit \/ p = candidates

At(c, verbs, where) == call[c].verb \in verbs /\ call[c].at = where
Goto(c, where)      == call' = [call EXCEPT ![c].at = where]
End(c, outcome)     ==
    call' = [call EXCEPT ![c] = [verb |-> "idle", at |-> outcome, key |-> Top, what |-> {}]]

\* The row becomes r for everybody.
Publish(k, r) ==
    /\ rows' = [rows EXCEPT ![k] = r]
    /\ steady' = [c \in Clients |-> IF r = Gone THEN steady[c] \ {k} ELSE steady[c]]
    /\ indexed' = [c \in Clients |->
                     IF r # Gone /\ r.model = Model[c] THEN indexed[c] ELSE indexed[c] \ {k}]

-----------------------------------------------------------------------------
(* Calls *)

Begin(c, verb, k, what) ==
    /\ verb \in Uses[c] /\ call[c].at \in Ended
    /\ call' = [call EXCEPT ![c] = [verb |-> verb, at |-> "execute", key |-> k, what |-> what]]
    /\ cursor' = [cursor EXCEPT ![c] = Top]
    /\ returned' = [returned EXCEPT ![c] = [j \in Keys |-> 0]]
    /\ steady' = [steady EXCEPT ![c] = IF verb \in {"list", "search"} THEN Visible ELSE {}]
    /\ indexed' = [indexed EXCEPT ![c] = IF verb = "search" THEN Indexed(c) ELSE {}]
    /\ UNCHANGED <<rows, txn>>

BeginAdd(c) == \E k \in Keys : Fresh(k) /\ Begin(c, "add", k, {})

\* A caller has its ids from earlier answers.
BeginGet(c)    == \E k \in Keys : rows[k] # NoRow /\ Begin(c, "get", k, {})
BeginDelete(c) == \E k \in Keys : rows[k] # NoRow /\ Begin(c, "delete", k, {})
BeginUpdate(c) ==
    \E k \in Keys, what \in Updates[c] : rows[k] # NoRow /\ Begin(c, "update", k, what)

BeginRead(c) == \E verb \in Reads : Begin(c, verb, Top, {})

\* The statement fails: no connection, a server that is gone, a broken
\* connection; what is not committed is rolled back.
Fails(c) ==
    /\ call[c].at \in {"execute", "commit"}
    /\ txn' = [txn EXCEPT ![c] = NoTxn]
    /\ End(c, IF call[c].verb = "list" THEN "more" ELSE "error")
    /\ UNCHANGED <<rows, walks, steady, indexed>>

\* A statement that changes a row: held back until the commit, or committed
\* with an answer that may be lost.
Write(c, k, r) ==
    \/ /\ Driver[c] = "psycopg"
       /\ txn' = [txn EXCEPT ![c] = [key |-> k, row |-> r]]
       /\ Goto(c, "commit")
       /\ UNCHANGED <<rows, walks, steady, indexed>>
    \/ /\ Driver[c] = "asyncpg"
       /\ Publish(k, r)
       /\ \E outcome \in {"ok", "error"} : End(c, outcome)
       /\ UNCHANGED <<txn, walks>>

Insert(c) ==
    /\ At(c, {"add"}, "execute")
    /\ Write(c, call[c].key, [model |-> Model[c], supersedes |-> {}])

UpdatedForgetsModel(c, r) == [r EXCEPT !.model = "null"]    \* defect

\* What the SET clause makes of a row.
Updated(c, r) ==
    [model |-> IF "content" \in call[c].what THEN Model[c] ELSE r.model,
     supersedes |-> IF "supersedes" \in call[c].what THEN r.supersedes \cup {c} ELSE r.supersedes]

\* The asynchronous update() reads the row when no field is given; the
\* synchronous one sets updated_at.
OnlyReads(c) ==
    \/ At(c, {"get"}, "execute")
    \/ At(c, {"update"}, "execute") /\ call[c].what = {} /\ Driver[c] = "asyncpg"

UpdateRow(c) ==
    /\ At(c, {"update"}, "execute") /\ ~ OnlyReads(c)
    /\ call[c].key \in Visible /\ ~ Locked(c, call[c].key)
    /\ Write(c, call[c].key, Updated(c, rows[call[c].key]))

DeleteRow(c) ==
    /\ At(c, {"delete"}, "execute")
    /\ call[c].key \in Visible /\ ~ Locked(c, call[c].key)
    /\ Write(c, call[c].key, Gone)

\* No row with the id: NotFoundError.
NoSuchRow(c) ==
    /\ At(c, {"get", "update", "delete"}, "execute") /\ call[c].key \notin Visible
    /\ End(c, "not_found")
    /\ UNCHANGED <<rows, txn, walks, steady, indexed>>

Commit(c) ==
    /\ call[c].at = "commit"
    /\ Publish(txn[c].key, txn[c].row)
    /\ txn' = [txn EXCEPT ![c] = NoTxn]
    /\ \E outcome \in {"ok", "error"} : End(c, outcome)
    /\ UNCHANGED walks

Get(c) ==
    /\ OnlyReads(c) /\ call[c].key \in Visible
    /\ End(c, "ok")
    /\ UNCHANGED <<rows, txn, walks, steady, indexed>>

-----------------------------------------------------------------------------
(* list() *)

Candidates(c) == {k \in Visible : Below(k, cursor[c])}

ListPage(c) ==
    /\ At(c, {"list"}, "execute")
    /\ \E p \in SUBSET Candidates(c) :
         /\ IsPage(p, Candidates(c))
         /\ returned' = [returned EXCEPT ![c] =
                           [k \in Keys |-> IF k \in p /\ @[k] < 2 THEN @[k] + 1 ELSE @[k]]]
         /\ \/ /\ Cardinality(p) = PageLimit
               /\ \E last \in p : /\ \A k \in p : last <= k
                                  /\ cursor' = [cursor EXCEPT ![c] = last]
               /\ End(c, "more")
            \/ /\ Cardinality(p) # PageLimit
               /\ End(c, "last")
               /\ UNCHANGED cursor
    /\ UNCHANGED <<rows, txn, steady, indexed>>

\* The caller asks for the next page, or for the same one after a failure.
NextPage(c) ==
    /\ call[c].at = "more"
    /\ call' = [call EXCEPT ![c].verb = "list", ![c].at = "execute"]
    /\ UNCHANGED <<rows, txn, walks, steady, indexed>>

-----------------------------------------------------------------------------
(* search() and context() *)

\* context() takes a refused search for no result.
Answer(c, outcome) == End(c, IF call[c].verb = "context" THEN "unsure" ELSE outcome)

SearchModel(c) ==
    /\ At(c, {"search", "context"}, "execute")
    /\ \/ Indexed(c) # {} /\ End(c, "ok")
       \/ Indexed(c) = {} /\ Goto(c, "check")
    /\ UNCHANGED <<rows, txn, walks, steady, indexed>>

SearchAnyOfModel(c) ==    \* defect: the second statement asks for the model too
    /\ call[c].at = "check"
    /\ Answer(c, IF Indexed(c) = {} THEN "none" ELSE "invalid")
    /\ UNCHANGED <<rows, txn, walks, steady, indexed>>

\* Are there rows at all?  A second statement, on a second snapshot.
SearchAny(c) ==
    /\ call[c].at = "check"
    /\ \/ Visible = {} /\ Answer(c, "none")
       \/ Visible # {} /\ Answer(c, "invalid")
       \/ Answer(c, "unsure")
    /\ UNCHANGED <<rows, txn, walks, steady, indexed>>

-----------------------------------------------------------------------------

Step(c) ==
    \/ BeginAdd(c) \/ BeginGet(c) \/ BeginUpdate(c) \/ BeginDelete(c) \/ BeginRead(c)
    \/ Insert(c) \/ UpdateRow(c) \/ DeleteRow(c) \/ NoSuchRow(c) \/ Get(c)
    \/ Commit(c) \/ Fails(c)
    \/ ListPage(c) \/ NextPage(c)
    \/ SearchModel(c) \/ SearchAny(c)

Next == \E c \in Clients : Step(c)

Spec == Init /\ [][Next]_vars

-----------------------------------------------------------------------------
(* Properties *)

\* A listing that has come to its end has returned every row that was there
\* from its beginning to its end, and none twice, whatever was added,
\* committed late, updated or deleted between its pages and however often a
\* page was asked for again (list(), encode_cursor(), decode_cursor()).
WalkReturnsSteady ==
    \A c \in Clients :
        /\ \A k \in Keys : returned[c][k] <= 1
        /\ call[c].at = "last" => \A k \in steady[c] : returned[c][k] = 1

\* No update is lost and no deletion undone, whatever the drivers of the
\* clients: what has been appended to supersedes stays while the row does, a
\* row goes by a deletion only and never comes back, and a call that reports
\* success has had its effect, a deletion on a row that was there (add(),
\* update(), delete()).
WritesStand ==
    [][/\ \A k \in Keys :
            /\ rows[k] \in Row => \/ rows'[k] = Gone
                                  \/ /\ rows'[k] \in Row
                                     /\ rows[k].supersedes \subseteq rows'[k].supersedes
            /\ rows[k] = Gone => rows'[k] = Gone
       /\ \A c \in Clients : call[c].at \in {"execute", "commit"} /\ call'[c].at = "ok" =>
            LET k == call[c].key IN
            /\ call[c].verb = "add" => rows[k] = NoRow /\ rows'[k] \in Row
            /\ call[c].verb = "delete" => rows[k] \in Row /\ rows'[k] = Gone
            /\ call[c].verb = "update" /\ "supersedes" \in call[c].what =>
                 c \in rows'[k].supersedes
      ]_vars

\* An empty answer of search() that was checked means that no row was there
\* throughout the call, and a refused search that none was indexed with the
\* model of the client throughout (search(), its two statements).
SearchHonest ==
    \A c \in Clients :
        /\ call[c].at = "none" => steady[c] = {}
        /\ call[c].at = "invalid" => indexed[c] = {}

=============================================================================
