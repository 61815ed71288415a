--------------------------- MODULE PgStoreProofs ---------------------------
(***************************************************************************)
(* What holds of PgStore for any clients, drivers, embedders, number of    *)
(* rows and page length.  The inductive invariant IInv says how a call, a  *)
(* transaction and a row belong together (CallInv, TxnInv), that nobody    *)
(* else has a hand on the row (ApartInv), where a listing stands (WalkInv) *)
(* and what the histories are worth (SnapshotInv).                         *)
(***************************************************************************)
EXTENDS PgStore, TLAPS

OnRow == {"add", "get", "update", "delete"}

\* A call has a row from its beginning to its end, an add() one that nobody
\* has inserted; it is in a transaction exactly while it waits to commit.
CallInv ==
    \A c \in Clients :
        /\ call[c].verb = "idle" <=> call[c].at \in Ended
        /\ call[c].at = "check" => call[c].verb \in {"search", "context"}
        /\ call[c].at = "commit" <=> txn[c] # NoTxn
        /\ call[c].verb \in OnRow => call[c].key \in Keys
        /\ call[c].verb = "add" => rows[call[c].key] = NoRow

\* What a transaction is about to commit.
TxnInv ==
    \A c \in Clients : txn[c] # NoTxn =>
        LET k == txn[c].key
            r == txn[c].row
        IN
        /\ k = call[c].key
        /\ \/ call[c].verb = "add" /\ r \in Row
           \/ /\ call[c].verb = "update" /\ r \in Row
              /\ rows[k] \in Row /\ rows[k].supersedes \subseteq r.supersedes
              /\ "supersedes" \in call[c].what => c \in r.supersedes
           \/ call[c].verb = "delete" /\ r = Gone /\ rows[k] \in Row

\* Ids are drawn once and a row is locked by one transaction.
ApartInv ==
    \A c, d \in Clients : c # d =>
        /\ call[c].verb = "add" /\ call[d].verb = "add" => call[c].key # call[d].key
        /\ txn[c] # NoTxn /\ txn[d] # NoTxn => txn[c].key # txn[d].key

\* Above the cursor of a listing everything steady has been returned once,
\* and nothing below it.
WalkInv ==
    \A c \in Clients :
        /\ \A k \in Keys : returned[c][k] <= 1
        /\ call[c].verb = "list" \/ call[c].at = "more" =>
             \A k \in Keys : /\ returned[c][k] # 0 => cursor[c] <= k
                             /\ k \in steady[c] /\ cursor[c] <= k => returned[c][k] = 1
        /\ call[c].at = "last" => \A k \in steady[c] : returned[c][k] = 1

\* The histories name rows that are there.
SnapshotInv ==
    \A c \in Clients :
        /\ steady[c] \subseteq Visible
        /\ indexed[c] \subseteq Indexed(c)
        /\ call[c].at \in {"check", "invalid"} => indexed[c] = {}
        /\ call[c].at = "none" => steady[c] = {}

IInv == TypeOK /\ CallInv /\ TxnInv /\ ApartInv /\ WalkInv /\ SnapshotInv

-----------------------------------------------------------------------------
(* Types *)

\* An updated row is a row, and has lost nothing of supersedes.
LEMMA UpdatedRow ==
    ASSUME NEW c \in Clients, NEW r \in Row
    PROVE  /\ Updated(c, r) \in Row
           /\ r.supersedes \subseteq Updated(c, r).supersedes
           /\ "supersedes" \in call[c].what => c \in Updated(c, r).supersedes
  <1>1. Model[c] \in Models
    BY DEF Models
  <1>2. r.model \in Models /\ r.supersedes \subseteq Clients
    BY DEF Row
  <1>3. /\ Updated(c, r).model = IF "content" \in call[c].what THEN Model[c] ELSE r.model
        /\ Updated(c, r).supersedes = IF "supersedes" \in call[c].what
                                      THEN r.supersedes \cup {c} ELSE r.supersedes
    BY DEF Updated
  <1>4. Updated(c, r) = [model |-> Updated(c, r).model, supersedes |-> Updated(c, r).supersedes]
    BY DEF Updated
  <1>5. Updated(c, r).model \in Models /\ Updated(c, r).supersedes \subseteq Clients
    BY <1>1, <1>2, <1>3
  <1>6. QED BY <1>2, <1>3, <1>4, <1>5 DEF Row

\* What becomes of the call of a step.
CallType == [verb : Verbs \cup {"idle"}, at : Ended \cup {"execute", "commit", "check"},
             key : Keys \cup {Top}, what : SUBSET Fields]

LEMMA GotoTypes ==
    ASSUME call \in [Clients -> CallType], NEW c \in Clients,
           NEW w \in Ended \cup {"execute", "commit", "check"}, Goto(c, w)
    PROVE  call' \in [Clients -> CallType]
  <1>1. [call[c] EXCEPT !.at = w] \in CallType
    <2>1. call[c] \in CallType
      OBVIOUS
    <2>2. QED BY <2>1 DEF CallType
  <1>2. call' = [call EXCEPT ![c] = [call[c] EXCEPT !.at = w]]
    BY DEF Goto
  <1>3. QED BY <1>1, <1>2

LEMMA EndTypes ==
    ASSUME call \in [Clients -> CallType], NEW c \in Clients, NEW w \in Ended, End(c, w)
    PROVE  call' \in [Clients -> CallType]
  <1>1. [verb |-> "idle", at |-> w, key |-> Top, what |-> {}] \in CallType
    BY DEF CallType
  <1>2. QED BY <1>1 DEF End

LEMMA PublishTypes ==
    ASSUME TypeOK, NEW k \in Keys, NEW r \in Row \cup {Gone}, Publish(k, r)
    PROVE  /\ rows' \in [Keys -> Row \cup {NoRow, Gone}]
           /\ steady' \in [Clients -> SUBSET Keys]
           /\ indexed' \in [Clients -> SUBSET Keys]
  BY DEF TypeOK, Publish

LEMMA WriteTypes ==
    ASSUME TypeOK, NEW c \in Clients, NEW k \in Keys, NEW r \in Row \cup {Gone}, Write(c, k, r)
    PROVE  TypeOK'
  <1> USE DEF CallType
  <1>1. CASE Driver[c] = "psycopg" /\ txn' = [txn EXCEPT ![c] = [key |-> k, row |-> r]]
             /\ Goto(c, "commit") /\ UNCHANGED <<rows, walks, steady, indexed>>
    <2>1. call' \in [Clients -> CallType]
      <3>1. call \in [Clients -> CallType]
        BY DEF TypeOK
      <3>2. QED BY <1>1, <3>1, GotoTypes
    <2>2. txn' \in [Clients -> {NoTxn} \cup [key : Keys, row : Row \cup {Gone}]]
      BY <1>1 DEF TypeOK
    <2>3. QED BY <1>1, <2>1, <2>2 DEF TypeOK, walks
  <1>2. CASE Driver[c] = "asyncpg" /\ Publish(k, r)
             /\ (\E outcome \in {"ok", "error"} : End(c, outcome)) /\ UNCHANGED <<txn, walks>>
    <2>1. call' \in [Clients -> CallType]
      <3>1. call \in [Clients -> CallType]
        BY DEF TypeOK
      <3>2. PICK w \in {"ok", "error"} : End(c, w)
        BY <1>2
      <3>3. w \in Ended
        BY DEF Ended
      <3>4. QED BY <3>1, <3>2, <3>3, EndTypes
    <2>2. QED BY <1>2, <2>1, PublishTypes DEF TypeOK, walks
  <1>3. QED BY <1>1, <1>2 DEF Write

\* A step that only moves the call on.
LEMMA CallStepTypes ==
    ASSUME TypeOK, NEW c \in Clients, NEW w \in Ended \cup {"execute", "commit", "check"},
           (End(c, w) /\ w \in Ended) \/ Goto(c, w),
           UNCHANGED <<rows, txn, walks, steady, indexed>>
    PROVE  TypeOK'
  <1>1. call \in [Clients -> CallType]
    BY DEF TypeOK, CallType
  <1>2. call' \in [Clients -> CallType]
    BY <1>1, EndTypes, GotoTypes
  <1>3. QED BY <1>2 DEF TypeOK, CallType, walks

LEMMA BeginTypes ==
    ASSUME TypeOK, NEW c \in Clients, NEW verb \in Verbs, NEW k \in Keys \cup {Top},
           NEW what \in SUBSET Fields, Begin(c, verb, k, what)
    PROVE  TypeOK'
  <1>1. [verb |-> verb, at |-> "execute", key |-> k, what |-> what] \in CallType
    BY DEF CallType
  <1>2. call' \in [Clients -> CallType]
    <2>1. call \in [Clients -> CallType]
      BY DEF TypeOK, CallType
    <2>2. QED BY <1>1, <2>1 DEF Begin
  <1>3. Visible \subseteq Keys /\ Indexed(c) \subseteq Keys
    BY DEF Visible, Indexed
  <1>4. QED BY <1>2, <1>3 DEF Begin, TypeOK, CallType

\* The types hold after each step.
LEMMA TypeStep ==
    ASSUME IInv, [Next]_vars
    PROVE  TypeOK'
  <1> USE DEF IInv
  <1>1. CASE UNCHANGED vars
    BY <1>1 DEF TypeOK, vars
  <1>2. CASE Next
    <2>1. PICK c \in Clients : Step(c)
      BY <1>2 DEF Next
    <2>2. CASE BeginAdd(c)
      BY <2>2, BeginTypes DEF BeginAdd, Verbs
    <2>3. CASE BeginGet(c)
      BY <2>3, BeginTypes DEF BeginGet, Verbs
    <2>4. CASE BeginUpdate(c)
      <3>1. PICK k \in Keys, what \in Updates[c] : Begin(c, "update", k, what)
        BY <2>4 DEF BeginUpdate
      <3>2. what \in SUBSET Fields
        BY PgStoreAssumption DEF PgStoreAssumption
      <3>3. QED BY <3>1, <3>2, BeginTypes DEF Verbs
    <2>5. CASE BeginDelete(c)
      BY <2>5, BeginTypes DEF BeginDelete, Verbs
    <2>6. CASE BeginRead(c)
      BY <2>6, BeginTypes DEF BeginRead, Reads, Verbs
    <2>7. CASE Insert(c)
      <3>1. call[c].key \in Keys
        BY <2>7 DEF Insert, At, CallInv, OnRow
      <3>2. [model |-> Model[c], supersedes |-> {}] \in Row
        BY DEF Row, Models
      <3>3. QED BY <2>7, <3>1, <3>2, WriteTypes DEF Insert
    <2>8. CASE UpdateRow(c)
      <3>1. call[c].key \in Keys /\ rows[call[c].key] \in Row
        BY <2>8 DEF UpdateRow, Visible
      <3>2. Updated(c, rows[call[c].key]) \in Row
        BY <3>1, UpdatedRow
      <3>3. QED BY <2>8, <3>1, <3>2, WriteTypes DEF UpdateRow
    <2>9. CASE DeleteRow(c)
      <3>1. call[c].key \in Keys
        BY <2>9 DEF DeleteRow, Visible
      <3>2. QED BY <2>9, <3>1, WriteTypes DEF DeleteRow
    <2>10. CASE NoSuchRow(c)
      BY <2>10, CallStepTypes DEF NoSuchRow, Ended
    <2>11. CASE Get(c)
      BY <2>11, CallStepTypes DEF Get, Ended
    <2>12. CASE Commit(c)
      <3>1. txn[c] # NoTxn
        BY <2>12 DEF Commit, CallInv
      <3>2. txn[c].key \in Keys /\ txn[c].row \in Row \cup {Gone}
        BY <3>1 DEF TypeOK
      <3>3. PICK w \in {"ok", "error"} : End(c, w)
        BY <2>12 DEF Commit
      <3>4. call' \in [Clients -> CallType]
        <4>1. call \in [Clients -> CallType] /\ w \in Ended
          BY DEF TypeOK, CallType, Ended
        <4>2. QED BY <3>3, <4>1, EndTypes
      <3>5. /\ rows' \in [Keys -> Row \cup {NoRow, Gone}]
            /\ steady' \in [Clients -> SUBSET Keys] /\ indexed' \in [Clients -> SUBSET Keys]
        BY <2>12, <3>2, PublishTypes DEF Commit
      <3>6. txn' \in [Clients -> {NoTxn} \cup [key : Keys, row : Row \cup {Gone}]]
        BY <2>12 DEF Commit, TypeOK
      <3>7. QED BY <2>12, <3>4, <3>5, <3>6 DEF Commit, TypeOK, CallType, walks
    <2>13. CASE Fails(c)
      <3>1. call' \in [Clients -> CallType]
        <4>1. call \in [Clients -> CallType] /\ "more" \in Ended /\ "error" \in Ended
          BY DEF TypeOK, CallType, Ended
        <4>2. QED BY <2>13, <4>1, EndTypes DEF Fails
      <3>2. txn' \in [Clients -> {NoTxn} \cup [key : Keys, row : Row \cup {Gone}]]
        BY <2>13 DEF Fails, TypeOK
      <3>3. QED BY <2>13, <3>1, <3>2 DEF Fails, TypeOK, CallType, walks
    <2>14. CASE ListPage(c)
      <3>1. PICK p \in SUBSET Candidates(c) :
              /\ returned' = [returned EXCEPT ![c] =
                                [k \in Keys |-> IF k \in p /\ @[k] < 2 THEN @[k] + 1 ELSE @[k]]]
              /\ \/ /\ \E last \in p : cursor' = [cursor EXCEPT ![c] = last]
                    /\ End(c, "more")
                 \/ UNCHANGED cursor /\ End(c, "last")
        BY <2>14 DEF ListPage
      <3>2. p \subseteq Keys
        BY DEF Candidates, Visible
      <3>3. cursor' \in [Clients -> Keys \cup {Top}]
        BY <3>1, <3>2 DEF TypeOK
      <3>4. returned' \in [Clients -> [Keys -> 0..2]]
        <4>1. \A k \in Keys : returned[c][k] \in 0..2
          BY DEF TypeOK
        <4>2. [k \in Keys |-> IF k \in p /\ returned[c][k] < 2 THEN returned[c][k] + 1
                              ELSE returned[c][k]] \in [Keys -> 0..2]
          BY <4>1
        <4>3. QED BY <3>1, <4>2 DEF TypeOK
      <3>5. call' \in [Clients -> CallType]
        <4>1. call \in [Clients -> CallType] /\ "more" \in Ended /\ "last" \in Ended
          BY DEF TypeOK, CallType, Ended
        <4>2. QED BY <3>1, <4>1, EndTypes
      <3>6. QED BY <2>14, <3>3, <3>4, <3>5 DEF ListPage, TypeOK, CallType
    <2>15. CASE NextPage(c)
      <3>1. [call[c] EXCEPT !.verb = "list", !.at = "execute"] \in CallType
        <4>1. call[c] \in CallType
          BY DEF TypeOK, CallType
        <4>2. QED BY <4>1 DEF CallType, Verbs
      <3>2. call' = [call EXCEPT ![c] = [call[c] EXCEPT !.verb = "list", !.at = "execute"]]
        BY <2>15 DEF NextPage
      <3>3. call' \in [Clients -> CallType]
        BY <3>1, <3>2 DEF TypeOK, CallType
      <3>4. QED BY <2>15, <3>3 DEF NextPage, TypeOK, CallType, walks
    <2>16. CASE SearchModel(c)
      BY <2>16, CallStepTypes DEF SearchModel, Ended
    <2>17. CASE SearchAny(c)
      BY <2>17, CallStepTypes DEF SearchAny, Answer, Ended
    <2>18. QED
      BY <2>1, <2>2, <2>3, <2>4, <2>5, <2>6, <2>7, <2>8, <2>9, <2>10, <2>11, <2>12, <2>13,
         <2>14, <2>15, <2>16, <2>17 DEF Step
  <1>3. QED BY <1>1, <1>2

-----------------------------------------------------------------------------
(* Calls, transactions and rows *)

\* A row comes by an add(), and changes or goes by a call on it, while nobody
\* else has a hand on it.
Publishes(c) ==
    \E r \in Row \cup {Gone} :
        LET k == call[c].key IN
        /\ Publish(k, r) /\ (\E outcome \in {"ok", "error"} : End(c, outcome))
        /\ k \in Keys
        /\ \/ /\ call[c].verb = "add" /\ rows[k] = NoRow /\ r \in Row
           \/ /\ call[c].verb = "update" /\ rows[k] \in Row /\ r \in Row
              /\ rows[k].supersedes \subseteq r.supersedes
              /\ "supersedes" \in call[c].what => c \in r.supersedes
           \/ call[c].verb = "delete" /\ rows[k] \in Row /\ r = Gone
        /\ \A d \in Clients \ {c} : /\ call[d].verb = "add" => call[d].key # k
                                    /\ txn[d] # NoTxn => txn[d].key # k

\* An uncommitted row is in nobody else's way.
LEMMA WritePublishes ==
    ASSUME IInv, NEW c \in Clients, NEW r \in Row \cup {Gone},
           call[c].at = "execute", Write(c, call[c].key, r),
           \/ call[c].verb = "add" /\ r \in Row
           \/ /\ call[c].verb = "update" /\ r = Updated(c, rows[call[c].key])
              /\ call[c].key \in Visible /\ ~ Locked(c, call[c].key)
           \/ /\ call[c].verb = "delete" /\ r = Gone
              /\ call[c].key \in Visible /\ ~ Locked(c, call[c].key)
    PROVE  \/ Goto(c, "commit") /\ UNCHANGED <<rows, steady, indexed>>
           \/ Publishes(c)
  <1> USE DEF IInv
  <1>1. CASE Goto(c, "commit") /\ UNCHANGED <<rows, walks, steady, indexed>>
    BY <1>1
  <1>2. CASE Publish(call[c].key, r) /\ (\E outcome \in {"ok", "error"} : End(c, outcome))
    <2> DEFINE k == call[c].key
    <2>1. k \in Keys
      BY DEF CallInv, OnRow
    <2>2. CASE call[c].verb = "add" /\ r \in Row
      <3>1. rows[k] = NoRow
        BY <2>2 DEF CallInv
      <3>2. ASSUME NEW d \in Clients \ {c}
            PROVE  /\ call[d].verb = "add" => call[d].key # k
                   /\ txn[d] # NoTxn => txn[d].key # k
        <4>1. call[d].verb = "add" => call[d].key # k
          BY <2>2 DEF ApartInv
        <4>2. txn[d] # NoTxn => txn[d].key # k
          BY <3>1, <4>1, PgStoreAssumption DEF TxnInv, PgStoreAssumption
        <4>3. QED BY <4>1, <4>2
      <3>3. QED BY <1>2, <2>1, <2>2, <3>1, <3>2 DEF Publishes
    <2>3. CASE /\ call[c].verb \in {"update", "delete"} /\ k \in Visible /\ ~ Locked(c, k)
               /\ call[c].verb = "update" => r = Updated(c, rows[k])
               /\ call[c].verb = "delete" => r = Gone
      <3>1. rows[k] \in Row
        BY <2>3 DEF Visible
      <3>2. \A d \in Clients \ {c} : /\ call[d].verb = "add" => call[d].key # k
                                     /\ txn[d] # NoTxn => txn[d].key # k
        BY <2>3, <3>1, PgStoreAssumption DEF Locked, CallInv, PgStoreAssumption
      <3>3. CASE call[c].verb = "update"
        <4>1. /\ r \in Row /\ rows[k].supersedes \subseteq r.supersedes
              /\ "supersedes" \in call[c].what => c \in r.supersedes
          BY <2>3, <3>1, <3>3, UpdatedRow
        <4>2. QED BY <1>2, <2>1, <3>1, <3>2, <3>3, <4>1 DEF Publishes
      <3>4. CASE call[c].verb = "delete"
        BY <1>2, <2>1, <2>3, <3>1, <3>2, <3>4 DEF Publishes
      <3>5. QED BY <2>3, <3>3, <3>4
    <2>4. QED BY <2>2, <2>3
  <1>3. QED BY <1>1, <1>2 DEF Write

LEMMA CommitPublishes ==
    ASSUME IInv, NEW c \in Clients, Commit(c)
    PROVE  Publishes(c)
  <1> USE DEF IInv
  <1>1. txn[c] # NoTxn
    BY DEF Commit, CallInv
  <1>2. /\ txn[c].key = call[c].key /\ txn[c].key \in Keys /\ txn[c].row \in Row \cup {Gone}
    BY <1>1 DEF TxnInv, TypeOK
  <1>3. ASSUME NEW d \in Clients \ {c}
        PROVE  /\ call[d].verb = "add" => call[d].key # call[c].key
               /\ txn[d] # NoTxn => txn[d].key # call[c].key
    <2>1. txn[d] # NoTxn => txn[d].key # call[c].key
      BY <1>1, <1>2 DEF ApartInv
    <2>2. call[d].verb = "add" => call[d].key # call[c].key
      BY <1>1, <1>2, PgStoreAssumption DEF ApartInv, CallInv, TxnInv, PgStoreAssumption
    <2>3. QED BY <2>1, <2>2
  <1>4. Publish(call[c].key, txn[c].row) /\ (\E outcome \in {"ok", "error"} : End(c, outcome))
    BY <1>2 DEF Commit
  <1>5. QED BY <1>1, <1>2, <1>3, <1>4 DEF Publishes, TxnInv, CallInv

\* The only steps that touch rows are those that publish one.
LEMMA RowsOrPublish ==
    ASSUME IInv, NEW c \in Clients, Step(c)
    PROVE  \/ UNCHANGED rows /\ (call[c].at \in Ended \/ UNCHANGED <<steady, indexed>>)
           \/ Publishes(c) /\ call[c].at \in {"execute", "commit"}
  <1> USE DEF IInv
  <1>1. CASE \/ BeginAdd(c) \/ BeginGet(c) \/ BeginUpdate(c) \/ BeginDelete(c) \/ BeginRead(c)
    BY <1>1 DEF BeginAdd, BeginGet, BeginUpdate, BeginDelete, BeginRead, Begin
  <1>2. CASE Insert(c)
    <2>1. [model |-> Model[c], supersedes |-> {}] \in Row
      BY DEF Row, Models
    <2>2. QED BY <1>2, <2>1, WritePublishes DEF Insert, At
  <1>3. CASE UpdateRow(c)
    <2>1. rows[call[c].key] \in Row
      BY <1>3 DEF UpdateRow, Visible
    <2>2. Updated(c, rows[call[c].key]) \in Row
      BY <2>1, UpdatedRow
    <2>3. QED BY <1>3, <2>2, WritePublishes DEF UpdateRow, At
  <1>4. CASE DeleteRow(c)
    BY <1>4, WritePublishes DEF DeleteRow, At
  <1>5. CASE Commit(c)
    BY <1>5, CommitPublishes DEF Commit
  <1>6. CASE NoSuchRow(c) \/ Get(c) \/ Fails(c) \/ ListPage(c) \/ NextPage(c)
             \/ SearchModel(c) \/ SearchAny(c)
    BY <1>6 DEF NoSuchRow, Get, Fails, ListPage, NextPage, SearchModel, SearchAny
  <1>7. QED BY <1>1, <1>2, <1>3, <1>4, <1>5, <1>6 DEF Step

\* A step is one client's.
LEMMA OthersWait ==
    ASSUME TypeOK, NEW c \in Clients, NEW d \in Clients \ {c}, Step(c)
    PROVE  /\ call'[d] = call[d] /\ txn'[d] = txn[d]
           /\ cursor'[d] = cursor[d] /\ returned'[d] = returned[d]
  <1> USE DEF TypeOK, walks
  <1>1. CASE \/ BeginAdd(c) \/ BeginGet(c) \/ BeginUpdate(c) \/ BeginDelete(c) \/ BeginRead(c)
    BY <1>1 DEF BeginAdd, BeginGet, BeginUpdate, BeginDelete, BeginRead, Begin
  <1>2. CASE Insert(c) \/ UpdateRow(c) \/ DeleteRow(c) \/ Commit(c)
    BY <1>2 DEF Insert, UpdateRow, DeleteRow, Commit, Write, Goto, End
  <1>3. CASE NoSuchRow(c) \/ Get(c) \/ Fails(c)
    BY <1>3 DEF NoSuchRow, Get, Fails, End
  <1>4. CASE ListPage(c) \/ NextPage(c)
    BY <1>4 DEF ListPage, NextPage, End
  <1>5. CASE SearchModel(c) \/ SearchAny(c)
    BY <1>5 DEF SearchModel, SearchAny, Answer, Goto, End
  <1>6. QED BY <1>1, <1>2, <1>3, <1>4, <1>5 DEF Step

LEMMA CallStep ==
    ASSUME IInv, NEW c \in Clients, Step(c)
    PROVE  CallInv'
  <1> USE DEF IInv
  <1>1. ASSUME NEW d \in Clients \ {c}
        PROVE  /\ call'[d].verb = "idle" <=> call'[d].at \in Ended
               /\ call'[d].at = "check" => call'[d].verb \in {"search", "context"}
               /\ call'[d].at = "commit" <=> txn'[d] # NoTxn
               /\ call'[d].verb \in OnRow => call'[d].key \in Keys
               /\ call'[d].verb = "add" => rows'[call'[d].key] = NoRow
    <2>1. call'[d] = call[d] /\ txn'[d] = txn[d]
      BY OthersWait
    <2>2. call[d].verb = "add" => rows'[call[d].key] = NoRow
      <3>1. CASE UNCHANGED rows
        BY <3>1 DEF CallInv
      <3>2. CASE Publishes(c)
        BY <3>2 DEF Publishes, Publish, CallInv, TypeOK
      <3>3. QED BY <3>1, <3>2, RowsOrPublish
    <2>3. QED BY <2>1, <2>2 DEF CallInv
  <1>2. /\ call'[c].verb = "idle" <=> call'[c].at \in Ended
        /\ call'[c].at = "check" => call'[c].verb \in {"search", "context"}
        /\ call'[c].at = "commit" <=> txn'[c] # NoTxn
        /\ call'[c].verb \in OnRow => call'[c].key \in Keys
        /\ call'[c].verb = "add" => rows'[call'[c].key] = NoRow
    <2> USE DEF TypeOK, CallInv, OnRow, Ended
    <2>1. CASE \/ BeginAdd(c) \/ BeginGet(c) \/ BeginUpdate(c) \/ BeginDelete(c) \/ BeginRead(c)
      BY <2>1 DEF BeginAdd, BeginGet, BeginUpdate, BeginDelete, BeginRead, Begin, Fresh, Reads
    <2>2. CASE Insert(c) \/ UpdateRow(c) \/ DeleteRow(c)
      <3>1. PICK r \in Row \cup {Gone} : Write(c, call[c].key, r)
        <4>1. [model |-> Model[c], supersedes |-> {}] \in Row
          BY DEF Row, Models
        <4>2. UpdateRow(c) => Updated(c, rows[call[c].key]) \in Row
          BY UpdatedRow DEF UpdateRow, Visible
        <4>3. QED BY <2>2, <4>1, <4>2 DEF Insert, UpdateRow, DeleteRow
      <3>2. call[c].at = "execute" /\ call[c].verb \in {"add", "update", "delete"}
        BY <2>2 DEF Insert, UpdateRow, DeleteRow, At
      <3>3. call[c].key \in Keys /\ [key |-> call[c].key, row |-> r] # NoTxn
        BY <3>2, PgStoreAssumption DEF PgStoreAssumption, Keys
      <3>4. CASE txn' = [txn EXCEPT ![c] = [key |-> call[c].key, row |-> r]]
                 /\ Goto(c, "commit") /\ UNCHANGED rows
        <4>1. /\ call'[c].at = "commit" /\ call'[c].verb = call[c].verb
              /\ call'[c].key = call[c].key /\ txn'[c] # NoTxn
          BY <3>3, <3>4 DEF Goto
        <4>2. QED BY <3>2, <3>3, <3>4, <4>1
      <3>5. CASE UNCHANGED txn /\ \E outcome \in {"ok", "error"} : End(c, outcome)
        <4>1. call'[c].verb = "idle" /\ call'[c].at \in {"ok", "error"} /\ txn'[c] = NoTxn
          BY <3>2, <3>5 DEF End
        <4>2. QED BY <4>1
      <3>6. QED BY <3>1, <3>4, <3>5 DEF Write
    <2>3. CASE NoSuchRow(c) \/ Get(c) \/ Fails(c) \/ Commit(c)
      BY <2>3 DEF NoSuchRow, Get, Fails, Commit, At, OnlyReads, End
    <2>4. CASE ListPage(c) \/ NextPage(c)
      BY <2>4 DEF ListPage, NextPage, At, End
    <2>5. CASE SearchModel(c) \/ SearchAny(c)
      BY <2>5 DEF SearchModel, SearchAny, Answer, At, Goto, End
    <2>6. QED BY <2>1, <2>2, <2>3, <2>4, <2>5 DEF Step
  <1>3. QED BY <1>1, <1>2 DEF CallInv

LEMMA TxnStep ==
    ASSUME IInv, NEW c \in Clients, Step(c)
    PROVE  TxnInv'
  <1> USE DEF IInv
  <1> DEFINE Holds(d) ==
        /\ txn[d].key = call[d].key
        /\ \/ call[d].verb = "add" /\ txn[d].row \in Row
           \/ /\ call[d].verb = "update" /\ txn[d].row \in Row
              /\ rows[txn[d].key] \in Row
              /\ rows[txn[d].key].supersedes \subseteq txn[d].row.supersedes
              /\ "supersedes" \in call[d].what => d \in txn[d].row.supersedes
           \/ call[d].verb = "delete" /\ txn[d].row = Gone /\ rows[txn[d].key] \in Row
  <1>1. ASSUME NEW d \in Clients \ {c}, txn'[d] # NoTxn
        PROVE  Holds(d)'
    <2>1. call'[d] = call[d] /\ txn'[d] = txn[d]
      BY OthersWait
    <2>2. Holds(d)
      BY <1>1, <2>1 DEF TxnInv
    <2>3. txn[d].key \in Keys
      BY <1>1, <2>1 DEF TypeOK
    <2>4. rows'[txn[d].key] = rows[txn[d].key]
      <3>1. CASE UNCHANGED rows
        BY <3>1
      <3>2. CASE Publishes(c)
        BY <1>1, <2>1, <2>3, <3>2 DEF Publishes, Publish, TypeOK
      <3>3. QED BY <3>1, <3>2, RowsOrPublish
    <2>5. QED BY <2>1, <2>2, <2>4
  <1>2. ASSUME txn'[c] # NoTxn
        PROVE  Holds(c)'
    <2>1. CASE \/ BeginAdd(c) \/ BeginGet(c) \/ BeginUpdate(c) \/ BeginDelete(c) \/ BeginRead(c)
      BY <1>2, <2>1 DEF BeginAdd, BeginGet, BeginUpdate, BeginDelete, BeginRead, Begin, CallInv,
                        Ended
    <2>2. CASE NoSuchRow(c) \/ Get(c) \/ ListPage(c) \/ NextPage(c)
      BY <1>2, <2>2 DEF NoSuchRow, Get, OnlyReads, At, ListPage, NextPage, CallInv, Ended
    <2>3. CASE SearchModel(c) \/ SearchAny(c)
      BY <1>2, <2>3 DEF SearchModel, SearchAny, At, CallInv
    <2>4. CASE Fails(c) \/ Commit(c)
      BY <1>2, <2>4 DEF Fails, Commit, TypeOK
    <2>5. ASSUME NEW r, Write(c, call[c].key, r), call[c].at = "execute"
          PROVE  /\ txn'[c].key = call[c].key /\ txn'[c].row = r
                 /\ UNCHANGED rows
                 /\ call'[c].verb = call[c].verb /\ call'[c].key = call[c].key
                 /\ call'[c].what = call[c].what
      BY <1>2, <2>5 DEF Write, CallInv, TypeOK, Goto
    <2>6. CASE Insert(c)
      <3> DEFINE new == [model |-> Model[c], supersedes |-> {}]
      <3>1. new \in Row
        BY DEF Row, Models
      <3>2. Write(c, call[c].key, new) /\ call[c].at = "execute" /\ call[c].verb = "add"
        BY <2>6 DEF Insert, At
      <3> HIDE DEF new
      <3>3. txn'[c].key = call'[c].key /\ txn'[c].row = new /\ call'[c].verb = "add"
        BY <2>5, <3>2
      <3>4. QED BY <3>1, <3>3
    <2>7. CASE UpdateRow(c)
      <3> DEFINE old == rows[call[c].key]
                 new == Updated(c, old)
      <3>1. old \in Row
        BY <2>7 DEF UpdateRow, Visible
      <3>2. Write(c, call[c].key, new) /\ call[c].at = "execute" /\ call[c].verb = "update"
        BY <2>7 DEF UpdateRow, At
      <3>3. /\ new \in Row /\ old.supersedes \subseteq new.supersedes
            /\ "supersedes" \in call[c].what => c \in new.supersedes
        BY <3>1, UpdatedRow
      <3> HIDE DEF new
      <3>4. /\ txn'[c].key = call[c].key /\ call'[c].key = call[c].key /\ txn'[c].row = new
            /\ call'[c].verb = "update" /\ call'[c].what = call[c].what
            /\ rows'[call[c].key] = old
        BY <2>5, <3>2
      <3>5. QED BY <3>1, <3>3, <3>4
    <2>8. CASE DeleteRow(c)
      <3>1. /\ Write(c, call[c].key, Gone) /\ call[c].at = "execute" /\ call[c].verb = "delete"
            /\ rows[call[c].key] \in Row
        BY <2>8 DEF DeleteRow, At, Visible
      <3>2. /\ txn'[c].key = call[c].key /\ call'[c].key = call[c].key /\ txn'[c].row = Gone
            /\ call'[c].verb = "delete" /\ UNCHANGED rows
        BY <2>5, <3>1
      <3>3. QED BY <3>1, <3>2
    <2>9. QED BY <2>1, <2>2, <2>3, <2>4, <2>6, <2>7, <2>8 DEF Step
  <1>3. QED BY <1>1, <1>2 DEF TxnInv

LEMMA ApartStep ==
    ASSUME IInv, NEW c \in Clients, Step(c)
    PROVE  ApartInv'
  <1> USE DEF IInv
  <1>1. ASSUME NEW d \in Clients \ {c}
        PROVE  /\ call'[c].verb = "add" /\ call[d].verb = "add" => call'[c].key # call[d].key
               /\ txn'[c] # NoTxn /\ txn[d] # NoTxn => txn'[c].key # txn[d].key
    <2> USE DEF TypeOK
    <2>1. CASE BeginAdd(c)
      BY <2>1 DEF BeginAdd, Begin, Fresh, ApartInv
    <2>2. CASE BeginGet(c) \/ BeginUpdate(c) \/ BeginDelete(c) \/ BeginRead(c)
      BY <2>2 DEF BeginGet, BeginUpdate, BeginDelete, BeginRead, Begin, Reads, ApartInv
    <2>3. CASE NoSuchRow(c) \/ Get(c) \/ Fails(c) \/ Commit(c)
      BY <2>3 DEF NoSuchRow, Get, Fails, Commit, End, ApartInv
    <2>4. CASE ListPage(c) \/ NextPage(c) \/ SearchModel(c) \/ SearchAny(c)
      BY <2>4 DEF ListPage, NextPage, SearchModel, SearchAny, Answer, Goto, End, ApartInv
    <2>5. ASSUME NEW r, Write(c, call[c].key, r)
          PROVE  /\ \/ call'[c].verb = call[c].verb /\ call'[c].key = call[c].key
                    \/ call'[c].verb = "idle"
                 /\ txn'[c] = txn[c] \/ txn'[c].key = call[c].key
      BY <2>5 DEF Write, Goto, End
    <2>6. CASE Insert(c)
      <3>1. /\ call[c].verb = "add" /\ rows[call[c].key] = NoRow
        BY <2>6 DEF Insert, At, CallInv
      <3>2. txn[d] # NoTxn => txn[d].key # call[c].key
        BY <3>1, PgStoreAssumption DEF TxnInv, ApartInv, PgStoreAssumption
      <3>3. Write(c, call[c].key, [model |-> Model[c], supersedes |-> {}])
        BY <2>6 DEF Insert
      <3>4. /\ \/ call'[c].verb = call[c].verb /\ call'[c].key = call[c].key
               \/ call'[c].verb = "idle"
            /\ txn'[c] # NoTxn => txn'[c] = txn[c] \/ txn'[c].key = call[c].key
        BY <2>5, <3>3
      <3>5. QED BY <3>1, <3>2, <3>4 DEF ApartInv
    <2>7. CASE UpdateRow(c) \/ DeleteRow(c)
      <3>1. call[c].verb # "add" /\ ~ Locked(c, call[c].key)
        BY <2>7 DEF UpdateRow, DeleteRow, At
      <3>2. txn[d] # NoTxn => txn[d].key # call[c].key
        BY <3>1 DEF Locked
      <3>3. PICK r : Write(c, call[c].key, r)
        BY <2>7 DEF UpdateRow, DeleteRow
      <3>4. /\ \/ call'[c].verb = call[c].verb /\ call'[c].key = call[c].key
               \/ call'[c].verb = "idle"
            /\ txn'[c] # NoTxn => txn'[c] = txn[c] \/ txn'[c].key = call[c].key
        BY <2>5, <3>3
      <3>5. QED BY <3>1, <3>2, <3>4 DEF ApartInv
    <2>8. QED BY <2>1, <2>2, <2>3, <2>4, <2>6, <2>7 DEF Step
  <1>2. \A d \in Clients \ {c} : call'[d] = call[d] /\ txn'[d] = txn[d]
    BY OthersWait
  <1>3. QED BY <1>1, <1>2 DEF ApartInv

-----------------------------------------------------------------------------
(* Listings and searches *)

\* What is steady or indexed is still there after a step, and nothing is added
\* to what is but by the client whose call begins.
LEMMA SnapshotShrinks ==
    ASSUME IInv, NEW c \in Clients, Step(c), NEW d \in Clients,
           d # c \/ call[c].at \notin Ended
    PROVE  /\ steady'[d] \subseteq steady[d] /\ steady'[d] \subseteq Visible'
           /\ indexed'[d] \subseteq indexed[d] /\ indexed'[d] \subseteq Indexed(d)'
  <1> USE DEF IInv
  <1>1. CASE UNCHANGED <<rows, steady, indexed>>
    BY <1>1 DEF SnapshotInv, Visible, Indexed
  <1>2. CASE Publishes(c)
    <2>1. PICK r \in Row \cup {Gone} :
            /\ Publish(call[c].key, r) /\ call[c].key \in Keys
            /\ rows[call[c].key] = NoRow \/ r \in Row \/ r = Gone
      BY <1>2 DEF Publishes
    <2> DEFINE k == call[c].key
    <2>2. /\ rows' = [rows EXCEPT ![k] = r]
          /\ steady'[d] = IF r = Gone THEN steady[d] \ {k} ELSE steady[d]
          /\ indexed'[d] = IF r # Gone /\ r.model = Model[d] THEN indexed[d] ELSE indexed[d] \ {k}
      BY <2>1 DEF Publish
    <2> HIDE DEF k
    <2>3. \A j \in Keys : rows'[j] = IF j = k THEN r ELSE rows[j]
      BY <2>2 DEF TypeOK
    <2>4. steady[d] \subseteq Keys /\ \A j \in steady[d] : rows[j] \in Row
      BY DEF SnapshotInv, Visible
    <2>5. indexed[d] \subseteq Keys /\ \A j \in indexed[d] : rows[j] \in Row /\ rows[j].model = Model[d]
      BY DEF SnapshotInv, Visible, Indexed
    <2>6. \A j \in steady'[d] : j \in steady[d] /\ rows'[j] \in Row
      BY <2>1, <2>2, <2>3, <2>4
    <2>7. \A j \in indexed'[d] : j \in indexed[d] /\ rows'[j] \in Row /\ rows'[j].model = Model[d]
      BY <2>1, <2>2, <2>3, <2>5
    <2>8. QED BY <2>4, <2>5, <2>6, <2>7 DEF Visible, Indexed
  <1>3. CASE UNCHANGED rows /\ call[c].at \in Ended /\ d # c
    <2>1. steady'[d] = steady[d] /\ indexed'[d] = indexed[d]
      <3>1. CASE \/ BeginAdd(c) \/ BeginGet(c) \/ BeginUpdate(c) \/ BeginDelete(c) \/ BeginRead(c)
        BY <1>3, <3>1 DEF BeginAdd, BeginGet, BeginUpdate, BeginDelete, BeginRead, Begin, TypeOK
      <3>2. CASE NextPage(c)
        BY <3>2 DEF NextPage
      <3>3. CASE \/ Insert(c) \/ UpdateRow(c) \/ DeleteRow(c) \/ NoSuchRow(c) \/ Get(c)
                 \/ Commit(c) \/ Fails(c) \/ ListPage(c) \/ SearchModel(c) \/ SearchAny(c)
        BY <1>3, <3>3 DEF Insert, UpdateRow, DeleteRow, NoSuchRow, Get, OnlyReads, Commit, Fails,
                          ListPage, SearchModel, SearchAny, At, Ended
      <3>4. QED BY <3>1, <3>2, <3>3 DEF Step
    <2>2. QED BY <1>3, <2>1 DEF SnapshotInv, Visible, Indexed
  <1>4. QED BY <1>1, <1>2, <1>3, RowsOrPublish

LEMMA SnapshotStep ==
    ASSUME IInv, NEW c \in Clients, Step(c)
    PROVE  SnapshotInv'
  <1> USE DEF IInv
  <1> DEFINE Holds(d) ==
        /\ steady[d] \subseteq Visible
        /\ indexed[d] \subseteq Indexed(d)
        /\ call[d].at \in {"check", "invalid"} => indexed[d] = {}
        /\ call[d].at = "none" => steady[d] = {}
  <1>1. ASSUME NEW d \in Clients \ {c}
        PROVE  Holds(d)'
    <2>1. call'[d] = call[d]
      BY OthersWait
    <2>2. QED BY <2>1, SnapshotShrinks DEF SnapshotInv
  <1>2. Holds(c)'
    <2>1. CASE \/ BeginAdd(c) \/ BeginGet(c) \/ BeginUpdate(c) \/ BeginDelete(c) \/ BeginRead(c)
      <3>1. PICK verb : /\ call'[c].at = "execute" /\ UNCHANGED rows
                        /\ steady'[c] = IF verb \in {"list", "search"} THEN Visible ELSE {}
                        /\ indexed'[c] = IF verb = "search" THEN Indexed(c) ELSE {}
        <4>1. PICK verb, k, what : Begin(c, verb, k, what)
          BY <2>1 DEF BeginAdd, BeginGet, BeginUpdate, BeginDelete, BeginRead
        <4>2. /\ call'[c].at = "execute" /\ UNCHANGED rows
              /\ steady'[c] = IF verb \in {"list", "search"} THEN Visible ELSE {}
              /\ indexed'[c] = IF verb = "search" THEN Indexed(c) ELSE {}
          BY <4>1 DEF Begin, TypeOK
        <4>3. QED BY <4>2
      <3>2. Visible' = Visible /\ Indexed(c)' = Indexed(c)
        BY <3>1 DEF Visible, Indexed
      <3>3. QED BY <3>1, <3>2
    <2>2. CASE NextPage(c)
      <3>1. call'[c].at = "execute"
        BY <2>2 DEF NextPage, TypeOK
      <3>2. QED BY <2>2, <3>1 DEF NextPage, SnapshotInv, Visible, Indexed
    <2>3. CASE \/ Insert(c) \/ UpdateRow(c) \/ DeleteRow(c) \/ NoSuchRow(c) \/ Get(c)
               \/ Commit(c) \/ Fails(c) \/ ListPage(c) \/ SearchModel(c) \/ SearchAny(c)
      <3>1. call[c].at \notin Ended
        BY <2>3 DEF Insert, UpdateRow, DeleteRow, NoSuchRow, Get, OnlyReads, Commit, Fails,
                    ListPage, SearchModel, SearchAny, At, Ended
      <3>2. /\ call'[c].at \in {"check", "invalid"} => indexed[c] = {}
            /\ call'[c].at = "none" => steady[c] = {}
        <4> USE DEF TypeOK
        <4>1. CASE Insert(c) \/ UpdateRow(c) \/ DeleteRow(c)
          <5>1. call'[c].at \in {"commit", "ok", "error"}
            BY <4>1 DEF Insert, UpdateRow, DeleteRow, Write, Goto, End
          <5>2. QED BY <5>1
        <4>2. CASE NoSuchRow(c) \/ Get(c) \/ Commit(c) \/ Fails(c) \/ ListPage(c)
          <5>1. call'[c].at \in {"not_found", "ok", "error", "more", "last"}
            BY <4>2 DEF NoSuchRow, Get, Commit, Fails, ListPage, End
          <5>2. QED BY <5>1
        <4>3. CASE SearchModel(c)
          <5>1. call'[c].at = "ok" \/ (call'[c].at = "check" /\ Indexed(c) = {})
            BY <4>3 DEF SearchModel, Goto, End
          <5>2. QED BY <5>1 DEF SnapshotInv
        <4>4. CASE SearchAny(c)
          <5>1. /\ call'[c].at \in {"none", "invalid", "unsure"} /\ call[c].at = "check"
                /\ call'[c].at = "none" => Visible = {}
            BY <4>4 DEF SearchAny, Answer, End
          <5>2. QED BY <5>1 DEF SnapshotInv
        <4>5. QED BY <2>3, <4>1, <4>2, <4>3, <4>4
      <3>3. QED BY <3>1, <3>2, SnapshotShrinks
    <2>4. QED BY <2>1, <2>2, <2>3 DEF Step
  <1>3. QED BY <1>1, <1>2 DEF SnapshotInv

\* A page takes what is between it and the cursor, and the last one the rest.
LEMMA PageStep ==
    ASSUME IInv, NEW c \in Clients, ListPage(c)
    PROVE  /\ \A k \in Keys : returned'[c][k] <= 1
           /\ call'[c].verb # "list"
           /\ call'[c].at = "more" =>
                \A k \in Keys : /\ returned'[c][k] # 0 => cursor'[c] <= k
                                /\ k \in steady[c] /\ cursor'[c] <= k => returned'[c][k] = 1
           /\ call'[c].at = "last" => \A k \in steady[c] : returned'[c][k] = 1
  <1> USE DEF IInv
  <1>1. PICK p \in SUBSET Candidates(c) :
          /\ IsPage(p, Candidates(c))
          /\ returned' = [returned EXCEPT ![c] =
                            [k \in Keys |-> IF k \in p /\ @[k] < 2 THEN @[k] + 1 ELSE @[k]]]
          /\ \/ /\ Cardinality(p) = PageLimit
                /\ \E last \in p : /\ \A k \in p : last <= k
                                   /\ cursor' = [cursor EXCEPT ![c] = last]
                /\ End(c, "more")
             \/ /\ Cardinality(p) # PageLimit
                /\ End(c, "last")
    BY DEF ListPage
  <1>2. call[c].verb = "list"
    BY DEF ListPage, At
  <1>3. /\ \A k \in Keys : returned[c][k] \in 0..2 /\ returned[c][k] <= 1
        /\ \A k \in Keys : returned[c][k] # 0 => cursor[c] <= k
        /\ \A k \in steady[c] : cursor[c] <= k => returned[c][k] = 1
        /\ steady[c] \subseteq Visible
        /\ cursor[c] \in Int /\ \A k \in Keys : k \in Int
    BY <1>2, PgStoreAssumption DEF WalkInv, SnapshotInv, TypeOK, Visible, Keys, Top,
                                   PgStoreAssumption
  <1>4. \A k \in Keys : returned'[c][k] = IF k \in p /\ returned[c][k] < 2 THEN returned[c][k] + 1
                                          ELSE returned[c][k]
    BY <1>1 DEF TypeOK
  <1>5. p \subseteq Keys /\ \A k \in p : k < cursor[c] /\ returned[c][k] = 0
    <2>1. \A k \in p : k \in Keys /\ k < cursor[c]
      BY <1>1 DEF Candidates, Visible, Below
    <2>2. QED BY <1>3, <2>1
  <1>6. \A k \in Keys : returned'[c][k] = IF k \in p THEN 1 ELSE returned[c][k]
    BY <1>3, <1>4, <1>5
  <1>7. \A k \in steady[c] : k \in Keys /\ (~(cursor[c] <= k) => k \in Candidates(c))
    BY <1>3 DEF Candidates, Visible, Below
  <1>8. CASE \E last \in p : /\ \A k \in p : last <= k
                             /\ cursor' = [cursor EXCEPT ![c] = last]
                             /\ End(c, "more")
    <2>1. PICK last \in p : /\ \A k \in p : last <= k
                            /\ cursor' = [cursor EXCEPT ![c] = last]
                            /\ End(c, "more")
      BY <1>8
    <2>2. cursor'[c] = last /\ call'[c].at = "more" /\ call'[c].verb = "idle"
      BY <2>1 DEF TypeOK, End
    <2>3. ASSUME NEW k \in Keys
          PROVE  /\ returned'[c][k] # 0 => last <= k
                 /\ k \in steady[c] /\ last <= k => returned'[c][k] = 1
      <3>1. returned'[c][k] # 0 => last <= k
        BY <1>3, <1>5, <1>6, <2>1
      <3>2. ASSUME k \in steady[c], last <= k, k \notin p
            PROVE  returned[c][k] = 1
        <4>1. k \in Candidates(c) => k < last
          BY <1>1, <2>1, <3>2 DEF IsPage
        <4>2. k \notin Candidates(c)
          BY <1>3, <1>5, <3>2, <4>1
        <4>3. QED BY <1>3, <1>7, <3>2, <4>2
      <3>3. QED BY <1>6, <3>1, <3>2
    <2>4. QED BY <1>3, <1>6, <2>2, <2>3
  <1>9. CASE Cardinality(p) # PageLimit /\ End(c, "last")
    <2>1. call'[c].at = "last" /\ call'[c].verb = "idle"
      BY <1>9 DEF TypeOK, End
    <2>2. p = Candidates(c)
      BY <1>1, <1>9 DEF IsPage
    <2>3. \A k \in steady[c] : returned'[c][k] = 1
      BY <1>3, <1>6, <1>7, <2>2
    <2>4. QED BY <1>3, <1>6, <2>1, <2>3
  <1>10. QED BY <1>1, <1>8, <1>9

LEMMA WalkStep ==
    ASSUME IInv, NEW c \in Clients, Step(c)
    PROVE  WalkInv'
  <1> USE DEF IInv
  <1> DEFINE Holds(d) ==
        /\ \A k \in Keys : returned[d][k] <= 1
        /\ call[d].verb = "list" \/ call[d].at = "more" =>
             \A k \in Keys : /\ returned[d][k] # 0 => cursor[d] <= k
                             /\ k \in steady[d] /\ cursor[d] <= k => returned[d][k] = 1
        /\ call[d].at = "last" => \A k \in steady[d] : returned[d][k] = 1
  <1>1. ASSUME NEW d \in Clients \ {c}
        PROVE  Holds(d)'
    <2>1. call'[d] = call[d] /\ cursor'[d] = cursor[d] /\ returned'[d] = returned[d]
      BY OthersWait
    <2>2. steady'[d] \subseteq steady[d]
      BY SnapshotShrinks
    <2>3. QED BY <2>1, <2>2 DEF WalkInv
  <1>2. Holds(c)'
    <2>1. CASE \/ BeginAdd(c) \/ BeginGet(c) \/ BeginUpdate(c) \/ BeginDelete(c) \/ BeginRead(c)
      <3>1. PICK verb, k, what : Begin(c, verb, k, what)
        BY <2>1 DEF BeginAdd, BeginGet, BeginUpdate, BeginDelete, BeginRead
      <3>2. /\ call'[c].at = "execute" /\ cursor'[c] = Top
            /\ returned'[c] = [j \in Keys |-> 0]
        BY <3>1 DEF Begin, TypeOK
      <3>3. \A j \in Keys : returned'[c][j] = 0 /\ ~(Top <= j)
        BY <3>2, PgStoreAssumption DEF Keys, Top, PgStoreAssumption
      <3>4. QED BY <3>2, <3>3
    <2>2. CASE NextPage(c)
      <3>1. call[c].at = "more" /\ call'[c].at = "execute"
        BY <2>2 DEF NextPage, TypeOK
      <3>2. QED BY <2>2, <3>1 DEF NextPage, WalkInv, walks
    <2>3. CASE ListPage(c)
      BY <2>3, PageStep DEF ListPage
    <2>4. CASE Fails(c)
      <3>1. /\ call'[c].at = IF call[c].verb = "list" THEN "more" ELSE "error"
            /\ call'[c].verb = "idle"
        BY <2>4 DEF Fails, End, TypeOK
      <3>2. UNCHANGED <<cursor, returned, steady>>
        BY <2>4 DEF Fails, walks
      <3>3. QED BY <3>1, <3>2 DEF WalkInv
    <2>5. CASE \/ Insert(c) \/ UpdateRow(c) \/ DeleteRow(c) \/ NoSuchRow(c) \/ Get(c)
               \/ Commit(c) \/ SearchModel(c) \/ SearchAny(c)
      <3>1. UNCHANGED returned
        BY <2>5 DEF Insert, UpdateRow, DeleteRow, Write, NoSuchRow, Get, Commit, SearchModel,
                    SearchAny, walks
      <3>2. call'[c].verb # "list" /\ call'[c].at \notin {"more", "last"}
        <4> USE DEF TypeOK
        <4>1. CASE Insert(c) \/ UpdateRow(c) \/ DeleteRow(c)
          <5>1. PICK r : Write(c, call[c].key, r)
            BY <4>1 DEF Insert, UpdateRow, DeleteRow
          <5>2. call[c].verb # "list"
            BY <4>1 DEF Insert, UpdateRow, DeleteRow, At
          <5>3. CASE Goto(c, "commit")
            BY <5>2, <5>3 DEF Goto
          <5>4. CASE \E outcome \in {"ok", "error"} : End(c, outcome)
            BY <5>4 DEF End
          <5>5. QED BY <5>1, <5>3, <5>4 DEF Write
        <4>2. CASE NoSuchRow(c) \/ Get(c) \/ Commit(c)
          BY <4>2 DEF NoSuchRow, Get, Commit, End
        <4>3. CASE SearchModel(c)
          <5>1. call[c].verb # "list"
            BY <4>3 DEF SearchModel, At
          <5>2. CASE Goto(c, "check")
            BY <5>1, <5>2 DEF Goto
          <5>3. CASE End(c, "ok")
            BY <5>3 DEF End
          <5>4. QED BY <4>3, <5>2, <5>3 DEF SearchModel
        <4>4. CASE SearchAny(c)
          BY <4>4 DEF SearchAny, Answer, End
        <4>5. QED BY <2>5, <4>1, <4>2, <4>3, <4>4
      <3>3. QED BY <3>1, <3>2 DEF WalkInv
    <2>6. QED BY <2>1, <2>2, <2>3, <2>4, <2>5 DEF Step
  <1>3. QED BY <1>1, <1>2 DEF WalkInv

-----------------------------------------------------------------------------
(* Theorems *)

LEMMA InitInv ==
    ASSUME Init
    PROVE  IInv
  <1> USE DEF Init
  <1>1. \A k \in Keys : rows[k] \in Row \cup {NoRow, Gone}
    BY DEF Row
  <1>2. TypeOK
    BY <1>1 DEF TypeOK, Ended
  <1>3. CallInv /\ TxnInv /\ ApartInv /\ WalkInv /\ SnapshotInv
    BY DEF CallInv, TxnInv, ApartInv, WalkInv, SnapshotInv, OnRow, Ended
  <1>4. QED BY <1>2, <1>3 DEF IInv

LEMMA Inductive ==
    ASSUME IInv, [Next]_vars
    PROVE  IInv'
  <1>1. CASE UNCHANGED vars
    <2>1. TypeOK' /\ CallInv' /\ TxnInv' /\ ApartInv' /\ WalkInv'
      BY <1>1 DEF IInv, vars, TypeOK, CallInv, TxnInv, ApartInv, WalkInv
    <2>2. SnapshotInv'
      BY <1>1 DEF IInv, vars, SnapshotInv, Visible, Indexed
    <2>3. QED BY <2>1, <2>2 DEF IInv
  <1>2. CASE Next
    <2>1. PICK c \in Clients : Step(c)
      BY <1>2 DEF Next
    <2>2. QED BY <2>1, TypeStep, CallStep, TxnStep, ApartStep, WalkStep, SnapshotStep DEF IInv
  <1>3. QED BY <1>1, <1>2

\* The inductive invariant holds whatever the clients do: calls, transactions,
\* rows, listings and searches stay as IInv relates them (the verbs of both
\* postgres adapters).
THEOREM Invariance == Spec => []IInv
  <1>1. Init => IInv
    BY InitInv
  <1>2. IInv /\ [Next]_vars => IInv'
    BY Inductive
  <1>3. QED BY <1>1, <1>2, PTL DEF Spec

\* Every variable has its type (PgStore!TypeOK).
THEOREM TypeCorrect == Spec => []TypeOK
  <1>1. IInv => TypeOK
    BY DEF IInv
  <1>2. QED BY <1>1, Invariance, PTL

\* A listing that has ended has returned once each row that was there all the
\* time, for any page length, any number of rows and any other clients (list()
\* and its keyset cursor).
THEOREM WalkCorrect == Spec => []WalkReturnsSteady
  <1>1. IInv => WalkReturnsSteady
    BY DEF IInv, WalkInv, WalkReturnsSteady
  <1>2. QED BY <1>1, Invariance, PTL

\* An empty answer of search(), and a refused one, tell the truth although they
\* come from two snapshots.
THEOREM SearchCorrect == Spec => []SearchHonest
  <1>1. IInv => SearchHonest
    BY DEF IInv, SnapshotInv, SearchHonest
  <1>2. QED BY <1>1, Invariance, PTL

\* What a published row means for the row that was there.
LEMMA RowsStand ==
    ASSUME IInv, NEW c \in Clients, Step(c), NEW k \in Keys
    PROVE  /\ rows[k] \in Row => \/ rows'[k] = Gone
                                 \/ /\ rows'[k] \in Row
                                    /\ rows[k].supersedes \subseteq rows'[k].supersedes
           /\ rows[k] = Gone => rows'[k] = Gone
  <1>1. CASE UNCHANGED rows
    BY <1>1
  <1>2. CASE Publishes(c)
    BY <1>2, PgStoreAssumption DEF Publishes, Publish, IInv, TypeOK, PgStoreAssumption
  <1>3. QED BY <1>1, <1>2, RowsOrPublish

\* A call that ends well has published what it was asked for.
LEMMA SuccessMeansEffect ==
    ASSUME IInv, NEW c \in Clients, Step(c), NEW d \in Clients,
           call[d].at \in {"execute", "commit"}, call'[d].at = "ok"
    PROVE  LET k == call[d].key IN
           /\ call[d].verb = "add" => rows[k] = NoRow /\ rows'[k] \in Row
           /\ call[d].verb = "delete" => rows[k] \in Row /\ rows'[k] = Gone
           /\ call[d].verb = "update" /\ "supersedes" \in call[d].what =>
                d \in rows'[k].supersedes
  <1> USE DEF IInv
  <1>1. d = c
    BY OthersWait
  <1>2. CASE Publishes(c)
    <2>1. PICK r \in Row \cup {Gone} :
            /\ Publish(call[c].key, r) /\ call[c].key \in Keys
            /\ \/ /\ call[c].verb = "add" /\ rows[call[c].key] = NoRow /\ r \in Row
               \/ /\ call[c].verb = "update" /\ rows[call[c].key] \in Row /\ r \in Row
                  /\ "supersedes" \in call[c].what => c \in r.supersedes
               \/ call[c].verb = "delete" /\ rows[call[c].key] \in Row /\ r = Gone
      BY <1>2 DEF Publishes
    <2>2. rows'[call[c].key] = r
      BY <2>1 DEF Publish, TypeOK
    <2>3. QED BY <1>1, <2>1, <2>2
  <1>3. CASE ~ Publishes(c)
    <2>1. UNCHANGED rows
      BY <1>3, RowsOrPublish
    <2>2. \/ call[c].verb \in {"get", "search", "context"}
          \/ call[c].verb = "update" /\ call[c].what = {}
      <3> USE DEF TypeOK
      <3>1. CASE Insert(c) \/ UpdateRow(c) \/ DeleteRow(c)
        <4>1. PICK r \in Row \cup {Gone} :
                /\ Write(c, call[c].key, r) /\ call[c].at = "execute"
                /\ \/ call[c].verb = "add" /\ r \in Row
                   \/ /\ call[c].verb = "update" /\ r = Updated(c, rows[call[c].key])
                      /\ call[c].key \in Visible /\ ~ Locked(c, call[c].key)
                   \/ /\ call[c].verb = "delete" /\ r = Gone
                      /\ call[c].key \in Visible /\ ~ Locked(c, call[c].key)
          <5>1. [model |-> Model[c], supersedes |-> {}] \in Row
            BY DEF Row, Models
          <5>2. call[c].key \in Visible => Updated(c, rows[call[c].key]) \in Row
            BY UpdatedRow DEF Visible
          <5>3. QED BY <3>1, <5>1, <5>2 DEF Insert, UpdateRow, DeleteRow, At
        <4>2. Goto(c, "commit")
          BY <1>3, <4>1, WritePublishes
        <4>3. QED BY <1>1, <4>2 DEF Goto
      <3>2. CASE Commit(c)
        BY <1>3, <3>2, CommitPublishes
      <3>3. CASE \/ BeginAdd(c) \/ BeginGet(c) \/ BeginUpdate(c) \/ BeginDelete(c) \/ BeginRead(c)
                 \/ NextPage(c)
        BY <1>1, <3>3 DEF BeginAdd, BeginGet, BeginUpdate, BeginDelete, BeginRead, Begin, NextPage,
                          Ended
      <3>4. CASE NoSuchRow(c) \/ Fails(c) \/ ListPage(c)
        BY <1>1, <3>4 DEF NoSuchRow, Fails, ListPage, End
      <3>5. CASE Get(c)
        BY <3>5 DEF Get, OnlyReads, At
      <3>6. CASE SearchModel(c) \/ SearchAny(c)
        BY <3>6, <1>1 DEF SearchModel, SearchAny, At
      <3>7. QED BY <3>1, <3>2, <3>3, <3>4, <3>5, <3>6 DEF Step
    <2>3. QED BY <1>1, <2>2
  <1>4. QED BY <1>2, <1>3

\* No update is lost, no deletion undone and no success reported without its
\* effect, whichever drivers the clients use and whatever fails.
THEOREM NothingLost == Spec => WritesStand
  <1> DEFINE Stands ==
        /\ \A k \in Keys :
             /\ rows[k] \in Row => \/ rows'[k] = Gone
                                   \/ /\ rows'[k] \in Row
                                      /\ rows[k].supersedes \subseteq rows'[k].supersedes
             /\ rows[k] = Gone => rows'[k] = Gone
        /\ \A c \in Clients : call[c].at \in {"execute", "commit"} /\ call'[c].at = "ok" =>
             LET k == call[c].key IN
             /\ call[c].verb = "add" => rows[k] = NoRow /\ rows'[k] \in Row
             /\ call[c].verb = "delete" => rows[k] \in Row /\ rows'[k] = Gone
             /\ call[c].verb = "update" /\ "supersedes" \in call[c].what =>
                  c \in rows'[k].supersedes
  <1>1. IInv /\ [Next]_vars => [Stands]_vars
    <2>1. SUFFICES ASSUME IInv, Next
                   PROVE  Stands
      OBVIOUS
    <2>2. PICK c \in Clients : Step(c)
      BY <2>1 DEF Next
    <2>3. \A k \in Keys :
            /\ rows[k] \in Row => \/ rows'[k] = Gone
                                  \/ /\ rows'[k] \in Row
                                     /\ rows[k].supersedes \subseteq rows'[k].supersedes
            /\ rows[k] = Gone => rows'[k] = Gone
      BY <2>1, <2>2, RowsStand
    <2>4. \A d \in Clients : call[d].at \in {"execute", "commit"} /\ call'[d].at = "ok" =>
            LET k == call[d].key IN
            /\ call[d].verb = "add" => rows[k] = NoRow /\ rows'[k] \in Row
            /\ call[d].verb = "delete" => rows[k] \in Row /\ rows'[k] = Gone
            /\ call[d].verb = "update" /\ "supersedes" \in call[d].what =>
                 d \in rows'[k].supersedes
      BY <2>1, <2>2, SuccessMeansEffect
    <2>5. QED BY <2>3, <2>4
  <1>2. QED BY <1>1, Invariance, PTL DEF Spec, WritesStand

=============================================================================
