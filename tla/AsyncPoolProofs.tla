-------------------------- MODULE AsyncPoolProofs --------------------------
(***************************************************************************)
(* Proofs about AsyncPool, for every set of tasks and loops, every pool    *)
(* size and every number of schema statements.                             *)
(***************************************************************************)
EXTENDS AsyncPool, SequenceTheorems, TLAPS

-----------------------------------------------------------------------------
(* The waiters of the lock: a sequence that loses an element *)

\* Without its element at position k a sequence keeps the others in order.
LEMMA RemoveAtPosition ==
    ASSUME NEW S, NEW s \in Seq(S), NEW k \in 1..Len(s)
    PROVE  /\ RemoveAt(s, k) \in Seq(S)
           /\ Len(RemoveAt(s, k)) = Len(s) - 1
           /\ \A i \in 1..(Len(s) - 1) :
                RemoveAt(s, k)[i] = s[IF i < k THEN i ELSE i + 1]
  <1> DEFINE front == SubSeq(s, 1, k - 1)
             back == SubSeq(s, k + 1, Len(s))
  <1>1. Len(s) \in Nat /\ k \in Nat /\ \A i \in 1..Len(s) : s[i] \in S
    BY ElementOfSeq, LenProperties
  <1>2. /\ front \in Seq(S) /\ Len(front) = k - 1
        /\ \A i \in 1..(k - 1) : front[i] = s[i]
    <2>1. 1 \in Int /\ k - 1 \in Int /\ \A i \in 1..(k - 1) : s[i] \in S
      BY <1>1
    <2>2. /\ front \in Seq(S)
          /\ Len(front) = IF 1 <= k - 1 THEN (k - 1) - 1 + 1 ELSE 0
          /\ \A i \in 1..((k - 1) - 1 + 1) : front[i] = s[1 + i - 1]
      BY <2>1, SubSeqProperties
    <2>3. QED BY <1>1, <2>2
  <1>3. /\ back \in Seq(S) /\ Len(back) = Len(s) - k
        /\ \A i \in 1..(Len(s) - k) : back[i] = s[i + k]
    <2>1. k + 1 \in Int /\ Len(s) \in Int /\ \A i \in (k + 1)..Len(s) : s[i] \in S
      BY <1>1
    <2>2. /\ back \in Seq(S)
          /\ Len(back) = IF k + 1 <= Len(s) THEN Len(s) - (k + 1) + 1 ELSE 0
          /\ \A i \in 1..(Len(s) - (k + 1) + 1) : back[i] = s[(k + 1) + i - 1]
      BY <2>1, SubSeqProperties
    <2>3. QED BY <1>1, <2>2
  <1> HIDE DEF front, back
  <1>4. /\ front \o back \in Seq(S)
        /\ Len(front \o back) = Len(front) + Len(back)
        /\ \A i \in 1..(Len(front) + Len(back)) :
             (front \o back)[i] = IF i <= Len(front) THEN front[i] ELSE back[i - Len(front)]
    BY <1>2, <1>3, ConcatProperties, Zenon
  <1>5. RemoveAt(s, k) = front \o back
    BY DEF RemoveAt, front, back
  <1>6. ASSUME NEW i \in 1..(Len(s) - 1)
        PROVE  RemoveAt(s, k)[i] = s[IF i < k THEN i ELSE i + 1]
    <2>1. CASE i < k
      <3>1. RemoveAt(s, k)[i] = front[i]
        BY <1>1, <1>2, <1>3, <1>4, <1>5, <2>1
      <3>2. i \in 1..(k - 1)
        BY <1>1, <2>1
      <3>3. QED BY <1>2, <2>1, <3>1, <3>2
    <2>2. CASE ~(i < k)
      <3>1. RemoveAt(s, k)[i] = back[i - (k - 1)]
        <4>1. i \in 1..(Len(front) + Len(back)) /\ ~(i <= Len(front))
          BY <1>1, <1>2, <1>3, <2>2
        <4>2. QED BY <1>2, <1>4, <1>5, <4>1
      <3>2. i - (k - 1) \in 1..(Len(s) - k) /\ (i - (k - 1)) + k = i + 1
        BY <1>1, <2>2
      <3>3. back[i - (k - 1)] = s[(i - (k - 1)) + k]
        BY <1>3, <3>2
      <3>4. QED BY <1>1, <2>2, <3>1, <3>2, <3>3
    <2>3. QED BY <2>1, <2>2
  <1>7. RemoveAt(s, k) \in Seq(S) /\ Len(RemoveAt(s, k)) = Len(s) - 1
    BY <1>1, <1>2, <1>3, <1>4, <1>5
  <1>8. QED BY <1>6, <1>7, Zenon

\* A sequence that holds its elements once each holds the others, in order,
\* when one is taken out.
LEMMA WithoutElement ==
    ASSUME NEW S, NEW s \in Seq(S), NEW k \in 1..Len(s),
           \A i, j \in 1..Len(s) : s[i] = s[j] => i = j
    PROVE  /\ RemoveAt(s, k) \in Seq(S)
           /\ \A i \in 1..Len(RemoveAt(s, k)) :
                /\ RemoveAt(s, k)[i] # s[k]
                /\ \E j \in 1..Len(s) : RemoveAt(s, k)[i] = s[j]
           /\ \A i, j \in 1..Len(RemoveAt(s, k)) :
                RemoveAt(s, k)[i] = RemoveAt(s, k)[j] => i = j
           /\ \A j \in 1..Len(s) \ {k} : \E i \in 1..Len(RemoveAt(s, k)) : RemoveAt(s, k)[i] = s[j]
           /\ k # Len(s) => RemoveAt(s, k)[Len(RemoveAt(s, k))] = s[Len(s)]
  <1> DEFINE rest == RemoveAt(s, k)
             from(i) == IF i < k THEN i ELSE i + 1
  <1>1. Len(s) \in Nat /\ k \in Nat
    BY LenProperties
  <1>2. /\ rest \in Seq(S)
        /\ Len(rest) = Len(s) - 1
        /\ \A i \in 1..(Len(s) - 1) : rest[i] = s[from(i)]
    BY RemoveAtPosition
  <1> HIDE DEF rest
  <1>3. \A i \in 1..Len(rest) : from(i) \in 1..Len(s) /\ from(i) # k
    BY <1>1, <1>2
  <1>4. \A i, j \in 1..Len(rest) : from(i) = from(j) => i = j
    BY <1>1, <1>2
  <1>5. \A j \in 1..Len(s) \ {k} : \E i \in 1..Len(rest) : from(i) = j
    <2>1. ASSUME NEW j \in 1..Len(s), j # k
          PROVE  \E i \in 1..Len(rest) : from(i) = j
      <3>1. CASE j < k
        BY <1>1, <1>2, <3>1
      <3>2. CASE ~(j < k)
        <4>1. j - 1 \in 1..Len(rest) /\ from(j - 1) = j
          BY <1>1, <1>2, <2>1, <3>2
        <4>2. QED BY <4>1
      <3>3. QED BY <3>1, <3>2
    <2>2. QED BY <2>1
  <1>6. k # Len(s) => Len(rest) \in 1..Len(rest) /\ from(Len(rest)) = Len(s)
    BY <1>1, <1>2
  <1>7. \A i \in 1..Len(rest) : rest[i] = s[from(i)]
    BY <1>2
  <1> HIDE DEF from
  <1>8. \A i \in 1..Len(rest) : rest[i] # s[k] /\ \E j \in 1..Len(s) : rest[i] = s[j]
    BY <1>3, <1>7
  <1>9. \A i, j \in 1..Len(rest) : rest[i] = rest[j] => i = j
    BY <1>3, <1>4, <1>7
  <1>10. \A j \in 1..Len(s) \ {k} : \E i \in 1..Len(rest) : rest[i] = s[j]
    BY <1>5, <1>7
  <1>11. k # Len(s) => rest[Len(rest)] = s[Len(s)]
    BY <1>6, <1>7
  <1>12. QED BY <1>2, <1>8, <1>9, <1>10, <1>11 DEF rest

-----------------------------------------------------------------------------
-----------------------------------------------------------------------------
(* The queue of the init lock *)

\* Taking a task out of a queue that holds each task once leaves the others,
\* each still once.
LEMMA RemoveWaiter ==
    ASSUME NEW t \in Tasks, waiters \in Seq(Tasks),
           \A i, j \in 1..Len(waiters) : waiters[i] = waiters[j] => i = j
    PROVE  /\ WaitersAfter(t) \in Seq(Tasks)
           /\ \A i \in 1..Len(WaitersAfter(t)) :
                /\ WaitersAfter(t)[i] # t
                /\ \E j \in 1..Len(waiters) : WaitersAfter(t)[i] = waiters[j]
           /\ \A i, j \in 1..Len(WaitersAfter(t)) :
                WaitersAfter(t)[i] = WaitersAfter(t)[j] => i = j
  <1>1. CASE ~Contains(waiters, t)
    BY <1>1 DEF WaitersAfter, Contains
  <1>2. CASE Contains(waiters, t)
    <2> DEFINE k == CHOOSE i \in 1..Len(waiters) : waiters[i] = t
    <2>1. k \in 1..Len(waiters) /\ waiters[k] = t
      BY <1>2 DEF Contains
    <2>2. WaitersAfter(t) = RemoveAt(waiters, k)
      BY <1>2 DEF WaitersAfter
    <2> HIDE DEF k
    <2> DEFINE rest == RemoveAt(waiters, k)
    <2>3. /\ rest \in Seq(Tasks)
          /\ \A i \in 1..Len(rest) :
               /\ rest[i] # waiters[k]
               /\ \E j \in 1..Len(waiters) : rest[i] = waiters[j]
          /\ \A i, j \in 1..Len(rest) : rest[i] = rest[j] => i = j
      BY <2>1, WithoutElement
    <2> HIDE DEF rest
    <2>4. WaitersAfter(t) = rest
      BY <2>2 DEF rest
    <2>5. QED BY <2>1, <2>3, <2>4
  <1>3. QED BY <1>1, <1>2
-----------------------------------------------------------------------------
(* Type correctness *)

\* The body of the lock, and the whole of _ensure_pool up to its first await,
\* keep the variables they assign in their types.
LEMMA EnsurePoolTypes ==
    ASSUME TypeOK, NEW t \in Tasks,
           EnsurePool(t) \/ (CreateOrDeclare(t) /\ waiters' = Tail(waiters) /\ waiters # <<>>)
    PROVE  /\ waiters' \in Seq(Tasks) /\ holder' \in Tasks \cup {NoTask}
           /\ pool' = pool /\ schema_ready' = schema_ready /\ stmt' = stmt
           /\ pstate' \in [Tasks -> {"none", "opening", "open", "closing", "closed"}]
           /\ use' \in [Tasks -> Tasks \cup {NoTask}]
           /\ pc' \in [Tasks -> {"idle"} \cup Suspended \cup Outcomes]
  <1> USE DEF TypeOK, Suspended, Goto, adapter, lock
  <1>1. Append(waiters, t) \in Seq(Tasks)
    BY AppendProperties
  <1>2. waiters # <<>> => Tail(waiters) \in Seq(Tasks)
    BY HeadTailProperties
  <1>3. ReturnPool(t) =>
          /\ pool' = pool /\ schema_ready' = schema_ready /\ stmt' = stmt /\ pstate' = pstate
          /\ use' \in [Tasks -> Tasks \cup {NoTask}]
          /\ pc' \in [Tasks -> {"idle"} \cup Suspended \cup Outcomes]
    BY DEF ReturnPool
  <1>4. CreateOrDeclare(t) =>
          /\ pool' = pool /\ schema_ready' = schema_ready /\ stmt' = stmt
          /\ holder' \in Tasks \cup {NoTask}
          /\ pstate' \in [Tasks -> {"none", "opening", "open", "closing", "closed"}]
          /\ use' \in [Tasks -> Tasks \cup {NoTask}]
          /\ pc' \in [Tasks -> {"idle"} \cup Suspended \cup Outcomes]
    <2>1. CASE pool = NoTask /\ pstate' = [pstate EXCEPT ![t] = "opening"] /\ Goto(t, "create")
               /\ holder' = t /\ UNCHANGED <<adapter, use, stmt>>
      BY <2>1
    <2>2. CASE use' = [use EXCEPT ![t] = pool] /\ Goto(t, "ddl_acquire")
               /\ holder' = t /\ UNCHANGED <<adapter, stmt, pstate>>
      BY <2>2
    <2>3. CASE ReturnPool(t) /\ UNCHANGED holder
      BY <1>3, <2>3
    <2>4. QED
      BY <2>1, <2>2, <2>3 DEF CreateOrDeclare
  <1>5. CASE EnsurePool(t)
    BY <1>1, <1>3, <1>4, <1>5 DEF EnsurePool
  <1>6. CASE CreateOrDeclare(t) /\ waiters' = Tail(waiters) /\ waiters # <<>>
    BY <1>2, <1>4, <1>6
  <1>7. QED
    BY <1>5, <1>6

\* Every step keeps every variable in its type.
LEMMA TypeStep == TypeOK /\ QueueInv /\ [Next]_vars => TypeOK'
  <1> SUFFICES ASSUME TypeOK /\ QueueInv, [Next]_vars PROVE TypeOK'
    OBVIOUS
  <1> USE DEF TypeOK, Verbs, Operations, Suspended, Outcomes, facade, adapter, lock,
              server, task
  <1>1. ASSUME NEW t \in Tasks, NEW o \in Verbs, NEW l \in Loops, CallVerb(t, o, l) PROVE TypeOK'
    <2>1. op' \in [Tasks -> Operations \cup {"none"}] /\ on' \in [Tasks -> Loops \cup {NoLoop}]
      BY <1>1 DEF CallVerb, MakeCall
    <2>2. CASE EnsurePool(t) /\ loop_id' = l /\ UNCHANGED <<closed, inuse, applied>>
      BY <2>1, <2>2, EnsurePoolTypes
    <2>3. CASE Answer(t, "runtime_error")
      BY <2>1, <2>3 DEF Answer, Goto
    <2>4. CASE BindLoop(t, l)
      BY <2>1, <2>4 DEF BindLoop, Goto
    <2>5. QED
      BY <1>1, <2>2, <2>3, <2>4 DEF CallVerb
  <1>2. ASSUME NEW t \in Tasks, NEW l \in Loops, Enter(t, l) PROVE TypeOK'
    <2>1. op' \in [Tasks -> Operations \cup {"none"}] /\ on' \in [Tasks -> Loops \cup {NoLoop}]
      BY <1>2 DEF Enter, MakeCall
    <2>2. /\ Goto(t, "done") \/ Goto(t, "runtime_error")
          /\ loop_id' \in {l, loop_id}
      BY <1>2 DEF Enter, Answer, BindLoop
    <2>3. UNCHANGED <<closed, adapter, lock, server, use, stmt>>
      BY <1>2 DEF Enter, Answer, BindLoop
    <2>4. pc' \in [Tasks -> {"idle"} \cup Suspended \cup Outcomes]
      BY <2>2 DEF Goto
    <2>5. QED
      BY <2>1, <2>2, <2>3, <2>4
  <1>3. ASSUME NEW t \in Tasks, NEW l \in Loops, Probe(t, l) PROVE TypeOK'
    <2>1. op' \in [Tasks -> Operations \cup {"none"}] /\ on' \in [Tasks -> Loops \cup {NoLoop}]
      BY <1>3 DEF Probe, MakeCall
    <2>2. EnsurePool(t) /\ UNCHANGED <<facade, inuse, applied>>
      BY <1>3 DEF Probe
    <2>3. QED
      BY <2>1, <2>2, EnsurePoolTypes
  <1>4. ASSUME NEW t \in Tasks, NEW l \in Loops, Close(t, l) PROVE TypeOK'
    <2>1. op' \in [Tasks -> Operations \cup {"none"}] /\ on' \in [Tasks -> Loops \cup {NoLoop}]
      BY <1>4 DEF Close, MakeCall
    <2>2. CASE Answer(t, "done")
      BY <2>1, <2>2 DEF Answer, Goto
    <2>3. CASE closed' = TRUE
      <3>1. pc' \in [Tasks -> {"idle"} \cup Suspended \cup Outcomes]
        BY <1>4, <2>3 DEF Close, Answer, Goto
      <3>2. /\ pool' \in Tasks \cup {NoTask}
            /\ pstate' \in [Tasks -> {"none", "opening", "open", "closing", "closed"}]
            /\ use' \in [Tasks -> Tasks \cup {NoTask}]
        BY <1>4, <2>3 DEF Close, Answer, PoolAfterClose
      <3>3. UNCHANGED <<loop_id, schema_ready, lock, inuse, applied, stmt>>
        BY <1>4, <2>3 DEF Close, Answer
      <3>4. QED
        BY <2>1, <2>3, <3>1, <3>2, <3>3
    <2>4. QED
      BY <1>4, <2>2, <2>3 DEF Close
  <1>5. ASSUME NEW t \in Tasks, LockGranted(t) PROVE TypeOK'
    <2>1. CreateOrDeclare(t) /\ waiters' = Tail(waiters) /\ waiters # <<>>
      BY <1>5 DEF LockGranted
    <2>2. UNCHANGED <<facade, inuse, applied, op, on>>
      BY <1>5 DEF LockGranted
    <2>3. QED
      BY <2>1, <2>2, EnsurePoolTypes
  <1>6. ASSUME NEW t \in Tasks, PoolCreated(t) PROVE TypeOK'
    BY <1>6, ConstantsAssumption DEF PoolCreated, HolderAfter, Goto
  <1>7. ASSUME NEW t \in Tasks, PoolCreationFails(t) PROVE TypeOK'
    BY <1>7, ConstantsAssumption DEF PoolCreationFails, Leave, HolderAfter, SlotsAfter, Goto
  <1>8. ASSUME NEW t \in Tasks, SchemaConnection(t) PROVE TypeOK'
    BY <1>8, ConstantsAssumption DEF SchemaConnection, Goto
  <1>9. ASSUME NEW t \in Tasks, SchemaStatement(t) PROVE TypeOK'
    BY <1>9, ConstantsAssumption DEF SchemaStatement, DDLLeft, Goto
  <1>10. ASSUME NEW t \in Tasks, SchemaDone(t) PROVE TypeOK'
    <2>1. pc' \in [Tasks -> {"idle"} \cup Suspended \cup Outcomes] /\ use' \in [Tasks -> Tasks \cup {NoTask}]
      BY <1>10 DEF SchemaDone, Leave, Goto
    <2>2. inuse' \in [Tasks -> SUBSET Tasks] /\ holder' \in Tasks \cup {NoTask}
      BY <1>10 DEF SchemaDone, Leave, HolderAfter, SlotsAfter
    <2>3. schema_ready' = TRUE /\ UNCHANGED <<facade, pool, waiters, pstate, applied, op, on, stmt>>
      BY <1>10 DEF SchemaDone
    <2>4. QED
      BY <2>1, <2>2, <2>3
  <1>11. ASSUME NEW t \in Tasks, SchemaFails(t) PROVE TypeOK'
    <2>1. pc' \in [Tasks -> {"idle"} \cup Suspended \cup Outcomes]
      BY <1>11 DEF SchemaFails, Leave, Goto
    <2>2. inuse' \in [Tasks -> SUBSET Tasks] /\ holder' \in Tasks \cup {NoTask}
      BY <1>11 DEF SchemaFails, Leave, HolderAfter, SlotsAfter
    <2>3. UNCHANGED <<facade, adapter, waiters, pstate, applied, op, on, use, stmt>>
      BY <1>11 DEF SchemaFails
    <2>4. QED
      BY <2>1, <2>2, <2>3
  <1>12. ASSUME NEW t \in Tasks, Acquire(t) PROVE TypeOK'
    <2>1. pc' \in [Tasks -> {"idle"} \cup Suspended \cup Outcomes]
      BY <1>12 DEF Acquire, Goto
    <2>2. inuse' \in [Tasks -> SUBSET Tasks]
      BY <1>12 DEF Acquire
    <2>3. UNCHANGED <<facade, adapter, lock, pstate, applied, op, on, use, stmt>>
      BY <1>12 DEF Acquire
    <2>4. QED
      BY <2>1, <2>2, <2>3
  <1>13. ASSUME NEW t \in Tasks, StatementFails(t) PROVE TypeOK'
    <2>1. pc' \in [Tasks -> {"idle"} \cup Suspended \cup Outcomes]
      BY <1>13 DEF StatementFails, Leave, Goto
    <2>2. inuse' \in [Tasks -> SUBSET Tasks] /\ holder' \in Tasks \cup {NoTask}
      BY <1>13 DEF StatementFails, Leave, HolderAfter, SlotsAfter
    <2>3. UNCHANGED <<facade, adapter, waiters, pstate, applied, op, on, use, stmt>>
      BY <1>13 DEF StatementFails
    <2>4. QED
      BY <2>1, <2>2, <2>3
  <1>14. ASSUME NEW t \in Tasks, StatementReturns(t) PROVE TypeOK'
    BY <1>14, ConstantsAssumption DEF StatementReturns, Leave, HolderAfter, SlotsAfter, Goto
  <1>15. ASSUME NEW t \in Tasks, SearchAgain(t) PROVE TypeOK'
    BY <1>15, ConstantsAssumption DEF SearchAgain, Leave, HolderAfter, SlotsAfter, Goto
  <1>16. ASSUME NEW t \in Tasks, CloseEnds(t) PROVE TypeOK'
    BY <1>16, ConstantsAssumption DEF CloseEnds, PoolClosed, Goto
  <1>17. ASSUME NEW t \in Tasks, CloseRaises(t) PROVE TypeOK'
    BY <1>17, ConstantsAssumption DEF CloseRaises, PoolClosed, Goto
  <1>18. ASSUME NEW t \in Tasks, Cancel(t) PROVE TypeOK'
    <2>1. pc' \in [Tasks -> {"idle"} \cup Suspended \cup Outcomes]
      BY <1>18 DEF Cancel, Leave, Goto
    <2>2. inuse' \in [Tasks -> SUBSET Tasks] /\ holder' \in Tasks \cup {NoTask}
      BY <1>18 DEF Cancel, Leave, HolderAfter, SlotsAfter
    <2>3. waiters' \in Seq(Tasks)
      BY <1>18, RemoveWaiter DEF Cancel, QueueInv
    <2>4. pstate' \in [Tasks -> {"none", "opening", "open", "closing", "closed"}]
      BY <1>18 DEF Cancel
    <2>5. UNCHANGED <<facade, adapter, applied, op, on, use, stmt>>
      BY <1>18 DEF Cancel
    <2>6. QED
      BY <2>1, <2>2, <2>3, <2>4, <2>5
  <1>19. CASE UNCHANGED vars
    BY <1>19 DEF vars, facade, adapter, lock, server, task
  <1>20. QED
    BY <1>1, <1>2, <1>3, <1>4, <1>5, <1>6, <1>7, <1>8, <1>9, <1>10, <1>11, <1>12, <1>13,
       <1>14, <1>15, <1>16, <1>17, <1>18, <1>19
       DEF Next, Start, Ensure, Run

\* What _ensure_pool does up to its first await: only t moves, and it starts
\* a pool only when there is none.
LEMMA EnsurePoolEffect ==
    ASSUME TypeOK, NEW t \in Tasks, EnsurePool(t) \/ CreateOrDeclare(t)
    PROVE  /\ pool' = pool
           /\ pc'[t] \in {"lock", "create", "ddl_acquire", "acquire"}
           /\ \A u \in Tasks \ {t} :
                pc'[u] = pc[u] /\ use'[u] = use[u] /\ pstate'[u] = pstate[u]
           /\ IF pc'[t] = "create"
                THEN pool = NoTask /\ pstate'[t] = "opening"
                ELSE pstate'[t] = pstate[t]
           /\ pc'[t] \in {"ddl_acquire", "acquire"} => pool # NoTask /\ use'[t] = pool
  <1> USE DEF TypeOK, Goto, adapter, lock
  <1>1. ASSUME ReturnPool(t)
        PROVE  /\ pool' = pool /\ pstate' = pstate /\ pc'[t] = "acquire" /\ use'[t] = pool
               /\ \A u \in Tasks \ {t} : pc'[u] = pc[u] /\ use'[u] = use[u]
    BY <1>1 DEF ReturnPool
  <1>2. CASE CreateOrDeclare(t)
    BY <1>1, <1>2 DEF CreateOrDeclare, FastPath
  <1>3. CASE EnsurePool(t)
    BY <1>1, <1>2, <1>3 DEF EnsurePool, FastPath
  <1>4. QED
    BY <1>2, <1>3

-----------------------------------------------------------------------------
(* One lemma for each part of the inductive invariant *)

\* Only the holder of the init lock is between the lock and the assertion.
LEMMA LockStep == TypeOK /\ LockInv /\ [Next]_vars => LockInv'
  <1> SUFFICES ASSUME TypeOK /\ LockInv, [Next]_vars PROVE LockInv'
    OBVIOUS
  <1> USE DEF TypeOK, LockInv, Initialising, Suspended, Outcomes, Verbs, Operations,
              facade, adapter, lock, server, task
  <1>1. ASSUME NEW t \in Tasks, NEW o \in Verbs, NEW l \in Loops, CallVerb(t, o, l) PROVE LockInv'
    BY <1>1, ConstantsAssumption
       DEF CallVerb, MakeCall, InFlight, Answer, BindLoop, CheckOpen, CheckLoop, EnsurePool,
           LockFree, CreateOrDeclare, ReturnPool, FastPath, Goto
  <1>2. ASSUME NEW t \in Tasks, NEW l \in Loops, Enter(t, l) PROVE LockInv'
    BY <1>2, ConstantsAssumption DEF Enter, MakeCall, InFlight, Answer, BindLoop, CheckLoop, Goto
  <1>3. ASSUME NEW t \in Tasks, NEW l \in Loops, Probe(t, l) PROVE LockInv'
    BY <1>3, ConstantsAssumption
       DEF Probe, MakeCall, InFlight, EnsurePool, LockFree, CreateOrDeclare, ReturnPool,
           FastPath, Goto
  <1>4. ASSUME NEW t \in Tasks, NEW l \in Loops, Close(t, l) PROVE LockInv'
    BY <1>4, ConstantsAssumption DEF Close, MakeCall, InFlight, Answer, PoolAfterClose, Goto
  <1>5. ASSUME NEW t \in Tasks, LockGranted(t) PROVE LockInv'
    BY <1>5, ConstantsAssumption
       DEF LockGranted, CreateOrDeclare, ReturnPool, FastPath, Goto
  <1>6. ASSUME NEW t \in Tasks, PoolCreated(t) PROVE LockInv'
    BY <1>6, ConstantsAssumption DEF PoolCreated, HolderAfter, Goto
  <1>7. ASSUME NEW t \in Tasks, PoolCreationFails(t) PROVE LockInv'
    BY <1>7, ConstantsAssumption DEF PoolCreationFails, Leave, HolderAfter, SlotsAfter, Goto
  <1>8. ASSUME NEW t \in Tasks, SchemaConnection(t) PROVE LockInv'
    BY <1>8, ConstantsAssumption DEF SchemaConnection, Goto
  <1>9. ASSUME NEW t \in Tasks, SchemaStatement(t) PROVE LockInv'
    BY <1>9, ConstantsAssumption DEF SchemaStatement, Goto
  <1>10. ASSUME NEW t \in Tasks, SchemaDone(t) PROVE LockInv'
    <2>1. /\ pc[t] = "ddl" /\ holder' = HolderAfter(t)
          /\ pc'[t] \in {"assertion_error", "acquire"}
          /\ \A u \in Tasks \ {t} : pc'[u] = pc[u]
      BY <1>10 DEF SchemaDone, Leave, Goto
    <2>2. QED
      BY <2>1, ConstantsAssumption DEF HolderAfter
  <1>11. ASSUME NEW t \in Tasks, SchemaFails(t) PROVE LockInv'
    BY <1>11, ConstantsAssumption DEF SchemaFails, Leave, HolderAfter, SlotsAfter, Goto
  <1>12. ASSUME NEW t \in Tasks, Acquire(t) PROVE LockInv'
    BY <1>12, ConstantsAssumption DEF Acquire, Goto
  <1>13. ASSUME NEW t \in Tasks, StatementFails(t) PROVE LockInv'
    BY <1>13, ConstantsAssumption DEF StatementFails, Leave, HolderAfter, SlotsAfter, Goto
  <1>14. ASSUME NEW t \in Tasks, StatementReturns(t) PROVE LockInv'
    BY <1>14, ConstantsAssumption DEF StatementReturns, Leave, HolderAfter, SlotsAfter, Goto
  <1>15. ASSUME NEW t \in Tasks, SearchAgain(t) PROVE LockInv'
    BY <1>15, ConstantsAssumption DEF SearchAgain, Leave, HolderAfter, SlotsAfter, Goto
  <1>16. ASSUME NEW t \in Tasks, CloseEnds(t) PROVE LockInv'
    BY <1>16, ConstantsAssumption DEF CloseEnds, PoolClosed, Goto
  <1>17. ASSUME NEW t \in Tasks, CloseRaises(t) PROVE LockInv'
    BY <1>17, ConstantsAssumption DEF CloseRaises, PoolClosed, Goto
  <1>18. ASSUME NEW t \in Tasks, Cancel(t) PROVE LockInv'
    BY <1>18, ConstantsAssumption DEF Cancel, Leave, HolderAfter, SlotsAfter, InFlight, Goto
  <1>19. CASE UNCHANGED vars
    BY <1>19 DEF vars, facade, adapter, lock, server, task
  <1>20. QED
    BY <1>1, <1>2, <1>3, <1>4, <1>5, <1>6, <1>7, <1>8, <1>9, <1>10, <1>11, <1>12, <1>13,
       <1>14, <1>15, <1>16, <1>17, <1>18, <1>19
       DEF Next, Start, Ensure, Run

\* _ensure_pool keeps the queue of the lock in order.
LEMMA EnsurePoolQueue ==
    ASSUME TypeOK, QueueInv, NEW t \in Tasks, pc[t] = "idle", EnsurePool(t)
    PROVE  QueueInv'
  <1> USE DEF TypeOK, QueueInv
  <1>1. CASE waiters' = Append(waiters, t) /\ pc' = [pc EXCEPT ![t] = "lock"]
    <2>1. /\ Len(waiters) \in Nat
          /\ Len(waiters') = Len(waiters) + 1
          /\ \A i \in 1..Len(waiters) : waiters'[i] = waiters[i] /\ waiters[i] \in Tasks
          /\ waiters'[Len(waiters) + 1] = t
      BY <1>1, AppendProperties, LenProperties, ElementOfSeq
    <2>2. \A i \in 1..Len(waiters') : pc'[waiters'[i]] = "lock"
      BY <1>1, <2>1
    <2>3. \A i \in 1..Len(waiters) : waiters'[i] # t
      BY <2>1
    <2>4. QED
      BY <2>1, <2>2, <2>3
  <1>2. CASE waiters' = waiters
    <2>1. \A u \in Tasks \ {t} : pc'[u] = pc[u]
      BY EnsurePoolEffect
    <2>2. \A i \in 1..Len(waiters) : waiters[i] \in Tasks \ {t}
      BY ElementOfSeq
    <2>3. QED
      BY <1>2, <2>1, <2>2
  <1>3. QED
    BY <1>1, <1>2 DEF EnsurePool, Goto, lock

\* A step of a task that is not queued leaves the queue as it is.
LEMMA QueueStays ==
    ASSUME TypeOK, QueueInv, NEW t \in Tasks, waiters' = waiters, pc[t] # "lock",
           \A u \in Tasks \ {t} : pc'[u] = pc[u]
    PROVE  QueueInv'
  <1> USE DEF TypeOK, QueueInv
  <1>1. \A i \in 1..Len(waiters) : waiters[i] \in Tasks \ {t}
    BY ElementOfSeq
  <1>2. QED
    BY <1>1

\* The queue of the init lock holds each suspended task once.
LEMMA QueueStep == TypeOK /\ QueueInv /\ [Next]_vars => QueueInv'
  <1> SUFFICES ASSUME TypeOK /\ QueueInv, [Next]_vars PROVE QueueInv'
    OBVIOUS
  <1> USE DEF TypeOK, QueueInv, Suspended, Outcomes, Verbs, Operations, facade, adapter,
              lock, server, task
  <1>1. ASSUME NEW t \in Tasks, NEW o \in Verbs, NEW l \in Loops, CallVerb(t, o, l) PROVE QueueInv'
    <2>1. CASE EnsurePool(t)
      <3>1. pc[t] = "idle"
        BY <1>1 DEF CallVerb, MakeCall
      <3>2. QED
        BY <2>1, <3>1, EnsurePoolQueue
    <2>2. CASE Answer(t, "runtime_error") \/ BindLoop(t, l)
      BY <1>1, <2>2 DEF CallVerb, MakeCall, Answer, BindLoop, Goto
    <2>3. QED
      BY <1>1, <2>1, <2>2 DEF CallVerb
  <1>2. ASSUME NEW t \in Tasks, NEW l \in Loops, Enter(t, l) PROVE QueueInv'
    <2>1. waiters' = waiters /\ pc[t] # "lock" /\ \A u \in Tasks \ {t} : pc'[u] = pc[u]
      BY <1>2 DEF Enter, MakeCall, Answer, BindLoop, Goto
    <2>2. QED
      BY <2>1, QueueStays
  <1>3. ASSUME NEW t \in Tasks, NEW l \in Loops, Probe(t, l) PROVE QueueInv'
    <2>1. pc[t] = "idle" /\ EnsurePool(t)
      BY <1>3 DEF Probe, MakeCall
    <2>2. QED
      BY <2>1, EnsurePoolQueue
  <1>4. ASSUME NEW t \in Tasks, NEW l \in Loops, Close(t, l) PROVE QueueInv'
    <2>1. waiters' = waiters /\ pc[t] # "lock" /\ \A u \in Tasks \ {t} : pc'[u] = pc[u]
      BY <1>4 DEF Close, MakeCall, InFlight, Answer, PoolAfterClose, Goto
    <2>2. QED
      BY <2>1, QueueStays
  <1>5. ASSUME NEW t \in Tasks, LockGranted(t) PROVE QueueInv'
    BY <1>5, ConstantsAssumption
       DEF LockGranted, CreateOrDeclare, ReturnPool, FastPath, Goto
  <1>6. ASSUME NEW t \in Tasks, PoolCreated(t) PROVE QueueInv'
    <2>1. waiters' = waiters /\ pc[t] # "lock" /\ \A u \in Tasks \ {t} : pc'[u] = pc[u]
      BY <1>6 DEF PoolCreated, HolderAfter, Goto
    <2>2. QED
      BY <2>1, QueueStays
  <1>7. ASSUME NEW t \in Tasks, PoolCreationFails(t) PROVE QueueInv'
    <2>1. waiters' = waiters /\ pc[t] # "lock" /\ \A u \in Tasks \ {t} : pc'[u] = pc[u]
      BY <1>7 DEF PoolCreationFails, Leave, HolderAfter, SlotsAfter, Goto
    <2>2. QED
      BY <2>1, QueueStays
  <1>8. ASSUME NEW t \in Tasks, SchemaConnection(t) PROVE QueueInv'
    <2>1. waiters' = waiters /\ pc[t] # "lock" /\ \A u \in Tasks \ {t} : pc'[u] = pc[u]
      BY <1>8 DEF SchemaConnection, Goto
    <2>2. QED
      BY <2>1, QueueStays
  <1>9. ASSUME NEW t \in Tasks, SchemaStatement(t) PROVE QueueInv'
    <2>1. waiters' = waiters /\ pc[t] # "lock" /\ \A u \in Tasks \ {t} : pc'[u] = pc[u]
      BY <1>9 DEF SchemaStatement, Goto
    <2>2. QED
      BY <2>1, QueueStays
  <1>10. ASSUME NEW t \in Tasks, SchemaDone(t) PROVE QueueInv'
    <2>1. waiters' = waiters /\ pc[t] # "lock" /\ \A u \in Tasks \ {t} : pc'[u] = pc[u]
      BY <1>10 DEF SchemaDone, Leave, HolderAfter, SlotsAfter, Goto
    <2>2. QED
      BY <2>1, QueueStays
  <1>11. ASSUME NEW t \in Tasks, SchemaFails(t) PROVE QueueInv'
    <2>1. waiters' = waiters /\ pc[t] # "lock" /\ \A u \in Tasks \ {t} : pc'[u] = pc[u]
      BY <1>11 DEF SchemaFails, Leave, HolderAfter, SlotsAfter, Goto
    <2>2. QED
      BY <2>1, QueueStays
  <1>12. ASSUME NEW t \in Tasks, Acquire(t) PROVE QueueInv'
    <2>1. waiters' = waiters /\ pc[t] # "lock" /\ \A u \in Tasks \ {t} : pc'[u] = pc[u]
      BY <1>12 DEF Acquire, Goto
    <2>2. QED
      BY <2>1, QueueStays
  <1>13. ASSUME NEW t \in Tasks, StatementFails(t) PROVE QueueInv'
    <2>1. waiters' = waiters /\ pc[t] # "lock" /\ \A u \in Tasks \ {t} : pc'[u] = pc[u]
      BY <1>13 DEF StatementFails, Leave, HolderAfter, SlotsAfter, Goto
    <2>2. QED
      BY <2>1, QueueStays
  <1>14. ASSUME NEW t \in Tasks, StatementReturns(t) PROVE QueueInv'
    <2>1. waiters' = waiters /\ pc[t] # "lock" /\ \A u \in Tasks \ {t} : pc'[u] = pc[u]
      BY <1>14 DEF StatementReturns, Leave, HolderAfter, SlotsAfter, Goto
    <2>2. QED
      BY <2>1, QueueStays
  <1>15. ASSUME NEW t \in Tasks, SearchAgain(t) PROVE QueueInv'
    <2>1. waiters' = waiters /\ pc[t] # "lock" /\ \A u \in Tasks \ {t} : pc'[u] = pc[u]
      BY <1>15 DEF SearchAgain, Leave, HolderAfter, SlotsAfter, Goto
    <2>2. QED
      BY <2>1, QueueStays
  <1>16. ASSUME NEW t \in Tasks, CloseEnds(t) PROVE QueueInv'
    <2>1. waiters' = waiters /\ pc[t] # "lock" /\ \A u \in Tasks \ {t} : pc'[u] = pc[u]
      BY <1>16 DEF CloseEnds, PoolClosed, Goto
    <2>2. QED
      BY <2>1, QueueStays
  <1>17. ASSUME NEW t \in Tasks, CloseRaises(t) PROVE QueueInv'
    <2>1. waiters' = waiters /\ pc[t] # "lock" /\ \A u \in Tasks \ {t} : pc'[u] = pc[u]
      BY <1>17 DEF CloseRaises, PoolClosed, Goto
    <2>2. QED
      BY <2>1, QueueStays
  <1>18. ASSUME NEW t \in Tasks, Cancel(t) PROVE QueueInv'
    <2>1. waiters' = WaitersAfter(t) /\ pc' = [pc EXCEPT ![t] = "cancelled"]
      BY <1>18 DEF Cancel, Leave, Goto
    <2>2. \A i \in 1..Len(waiters) : waiters[i] \in Tasks /\ pc[waiters[i]] = "lock"
      BY ElementOfSeq
    <2>3. /\ \A i \in 1..Len(waiters') :
               waiters'[i] # t /\ \E j \in 1..Len(waiters) : waiters'[i] = waiters[j]
          /\ \A i, j \in 1..Len(waiters') : waiters'[i] = waiters'[j] => i = j
      <3>1. waiters \in Seq(Tasks) /\ \A i, j \in 1..Len(waiters) : waiters[i] = waiters[j] => i = j
        OBVIOUS
      <3>2. /\ \A i \in 1..Len(WaitersAfter(t)) :
                 /\ WaitersAfter(t)[i] # t
                 /\ \E j \in 1..Len(waiters) : WaitersAfter(t)[i] = waiters[j]
            /\ \A i, j \in 1..Len(WaitersAfter(t)) :
                 WaitersAfter(t)[i] = WaitersAfter(t)[j] => i = j
        BY <3>1, RemoveWaiter
      <3>3. QED
        BY <2>1, <3>2
    <2>4. \A i \in 1..Len(waiters') : pc'[waiters'[i]] = "lock"
      BY <2>1, <2>2, <2>3
    <2>5. QED
      BY <2>3, <2>4
  <1>19. CASE UNCHANGED vars
    BY <1>19 DEF vars, facade, adapter, lock, server, task
  <1>20. QED
    BY <1>1, <1>2, <1>3, <1>4, <1>5, <1>6, <1>7, <1>8, <1>9, <1>10, <1>11, <1>12, <1>13,
       <1>14, <1>15, <1>16, <1>17, <1>18, <1>19
       DEF Next, Start, Ensure, Run

\* _ensure_pool starts a pool only when there is none.
LEMMA EnsurePoolKeepsPoolInv ==
    ASSUME TypeOK, PoolInv, NEW t \in Tasks, pc[t] \in {"idle", "lock"},
           EnsurePool(t) \/ CreateOrDeclare(t)
    PROVE  PoolInv'
  <1> USE DEF TypeOK, PoolInv
  <1>1. /\ pool' = pool
        /\ pc'[t] \in {"lock", "create", "ddl_acquire", "acquire"}
        /\ \A u \in Tasks \ {t} : pc'[u] = pc[u] /\ use'[u] = use[u] /\ pstate'[u] = pstate[u]
        /\ IF pc'[t] = "create"
             THEN pool = NoTask /\ pstate'[t] = "opening"
             ELSE pstate'[t] = pstate[t]
    BY EnsurePoolEffect
  <1>2. pstate[t] = "none"
    OBVIOUS
  <1>3. \A p \in Tasks : pstate'[p] = "open" <=> pool' = p
    BY <1>1, <1>2, ConstantsAssumption
  <1>4. \A p \in Tasks : pstate'[p] = "opening" <=> pc'[p] = "create"
    BY <1>1, <1>2
  <1>5. \A u \in Tasks : pc'[u] = "create" => pool' = NoTask
    BY <1>1
  <1>6. \A u \in Tasks : pc'[u] \in {"idle", "lock"} => pstate'[u] = "none"
    BY <1>1, <1>2
  <1>7. QED
    BY <1>3, <1>4, <1>5, <1>6

\* A pool that is being closed is neither the current one nor one that is
\* being opened.
LEMMA PoolClosedKeepsPoolInv ==
    ASSUME TypeOK, PoolInv, ClosingInv, NEW t \in Tasks, PoolClosed(t)
    PROVE  PoolInv'
  <1> USE DEF TypeOK, PoolInv, ClosingInv
  <1>1. /\ pc[t] = "closing" /\ pool' = pool
        /\ use[t] \in Tasks /\ pstate[use[t]] \in {"closing", "closed"}
        /\ pstate' = [pstate EXCEPT ![use[t]] = "closed"]
        /\ pc' = [pc EXCEPT ![t] = "done"]
    BY DEF PoolClosed, Goto, adapter
  <1>2. \A p \in Tasks : pstate'[p] = "open" <=> pool' = p
    BY <1>1
  <1>3. \A p \in Tasks : pstate'[p] = "opening" <=> pc'[p] = "create"
    BY <1>1
  <1>4. \A u \in Tasks : pc'[u] = "create" => pool' = NoTask
    BY <1>1
  <1>5. \A u \in Tasks : pc'[u] \in {"idle", "lock"} => pstate'[u] = "none"
    BY <1>1
  <1>6. QED
    BY <1>2, <1>3, <1>4, <1>5

\* `_pool` designates the open pool, and one is opened only when there is none.
LEMMA PoolStep == TypeOK /\ LockInv /\ PoolInv /\ ClosingInv /\ [Next]_vars => PoolInv'
  <1> SUFFICES ASSUME TypeOK /\ LockInv /\ PoolInv /\ ClosingInv, [Next]_vars PROVE PoolInv'
    OBVIOUS
  <1> USE DEF TypeOK, PoolInv, ClosingInv, LockInv, Initialising, Suspended, Outcomes,
              Verbs, Operations, facade, adapter, lock, server, task
  <1>1. ASSUME NEW t \in Tasks, NEW o \in Verbs, NEW l \in Loops, CallVerb(t, o, l) PROVE PoolInv'
    <2>1. CASE EnsurePool(t)
      <3>1. pc[t] = "idle"
        BY <1>1 DEF CallVerb, MakeCall
      <3>2. QED
        BY <2>1, <3>1, EnsurePoolKeepsPoolInv
    <2>2. CASE Answer(t, "runtime_error") \/ BindLoop(t, l)
      BY <1>1, <2>2, ConstantsAssumption DEF CallVerb, MakeCall, Answer, BindLoop, Goto
    <2>3. QED
      BY <1>1, <2>1, <2>2 DEF CallVerb
  <1>2. ASSUME NEW t \in Tasks, NEW l \in Loops, Enter(t, l) PROVE PoolInv'
    BY <1>2, ConstantsAssumption DEF Enter, MakeCall, InFlight, Answer, BindLoop, CheckLoop, Goto
  <1>3. ASSUME NEW t \in Tasks, NEW l \in Loops, Probe(t, l) PROVE PoolInv'
    <2>1. pc[t] = "idle" /\ EnsurePool(t)
      BY <1>3 DEF Probe, MakeCall
    <2>2. QED
      BY <2>1, EnsurePoolKeepsPoolInv
  <1>4. ASSUME NEW t \in Tasks, NEW l \in Loops, Close(t, l) PROVE PoolInv'
    <2>1. CASE Answer(t, "done") \/ (pool = NoTask /\ Goto(t, "done") /\ UNCHANGED <<pool, pstate, use>>)
      BY <1>4, <2>1, ConstantsAssumption DEF Close, MakeCall, Answer, Goto
    <2>2. CASE /\ pool # NoTask
               /\ Goto(t, "closing")
               /\ use' = [use EXCEPT ![t] = pool]
               /\ pstate' = [pstate EXCEPT ![pool] = "closing"]
               /\ pool' = NoTask
      <3>1. pc[t] = "idle" /\ pool \in Tasks /\ pstate[pool] = "open" /\ pstate[t] # "opening"
        BY <1>4, <2>2 DEF Close, MakeCall
      <3>2. /\ pc'[t] = "closing" /\ use'[t] = pool /\ pstate'[pool] = "closing"
            /\ \A u \in Tasks \ {t} : pc'[u] = pc[u] /\ use'[u] = use[u]
            /\ \A p \in Tasks \ {pool} : pstate'[p] = pstate[p]
        BY <2>2, <3>1 DEF Goto
      <3>3. \A p \in Tasks : pstate'[p] = "open" <=> pool' = p
        BY <2>2, <3>1, <3>2, ConstantsAssumption
      <3>4. \A p \in Tasks : pstate'[p] = "opening" <=> pc'[p] = "create"
        BY <3>1, <3>2
      <3>5. QED
        BY <2>2, <3>1, <3>2, <3>3, <3>4
    <2>3. QED
      BY <1>4, <2>1, <2>2 DEF Close, PoolAfterClose
  <1>5. ASSUME NEW t \in Tasks, LockGranted(t) PROVE PoolInv'
    <2>1. /\ pc[t] = "lock"
          /\ CreateOrDeclare(t)
      BY <1>5 DEF LockGranted
    <2>2. QED
      BY <2>1, EnsurePoolKeepsPoolInv
  <1>6. ASSUME NEW t \in Tasks, PoolCreated(t) PROVE PoolInv'
    <2>1. /\ pc[t] = "create" /\ pool = NoTask /\ pool' = t
          /\ \A u \in Tasks \ {t} : pc[u] # "create"
      BY <1>6, ConstantsAssumption DEF PoolCreated
    <2>2. /\ pc'[t] \in {"acquire", "ddl_acquire"} /\ pstate'[t] = "open"
          /\ \A u \in Tasks \ {t} :
               pc'[u] = pc[u] /\ use'[u] = use[u] /\ pstate'[u] = pstate[u]
      BY <1>6 DEF PoolCreated, Goto
    <2>3. \A p \in Tasks : pstate'[p] = "open" <=> pool' = p
      BY <2>1, <2>2, ConstantsAssumption
    <2>4. \A p \in Tasks : pc'[p] # "create" /\ pstate'[p] # "opening"
      <3>1. ASSUME NEW p \in Tasks, p # t
            PROVE  pc'[p] # "create" /\ pstate'[p] # "opening"
        BY <2>1, <2>2, <3>1
      <3>2. QED
        BY <2>2, <3>1
    <2>5. \A u \in Tasks : pc'[u] \in {"idle", "lock"} => pstate'[u] = "none"
      BY <2>1, <2>2
    <2>6. QED
      BY <2>3, <2>4, <2>5
  <1>7. ASSUME NEW t \in Tasks, PoolCreationFails(t) PROVE PoolInv'
    BY <1>7, ConstantsAssumption DEF PoolCreationFails, Leave, HolderAfter, SlotsAfter, Goto
  <1>8. ASSUME NEW t \in Tasks, SchemaConnection(t) PROVE PoolInv'
    BY <1>8, ConstantsAssumption DEF SchemaConnection, Goto
  <1>9. ASSUME NEW t \in Tasks, SchemaStatement(t) PROVE PoolInv'
    BY <1>9, ConstantsAssumption DEF SchemaStatement, Goto
  <1>10. ASSUME NEW t \in Tasks, SchemaDone(t) PROVE PoolInv'
    <2>1. /\ pc[t] = "ddl" /\ pool' = pool /\ pstate' = pstate
          /\ pc'[t] \in {"acquire", "assertion_error"}
          /\ \A u \in Tasks \ {t} : pc'[u] = pc[u] /\ use'[u] = use[u]
      BY <1>10 DEF SchemaDone, Leave, Goto
    <2>2. QED
      BY <2>1
  <1>11. ASSUME NEW t \in Tasks, SchemaFails(t) PROVE PoolInv'
    BY <1>11, ConstantsAssumption DEF SchemaFails, Leave, HolderAfter, SlotsAfter, Goto
  <1>12. ASSUME NEW t \in Tasks, Acquire(t) PROVE PoolInv'
    BY <1>12, ConstantsAssumption DEF Acquire, Goto
  <1>13. ASSUME NEW t \in Tasks, StatementFails(t) PROVE PoolInv'
    BY <1>13, ConstantsAssumption DEF StatementFails, Leave, HolderAfter, SlotsAfter, Goto
  <1>14. ASSUME NEW t \in Tasks, StatementReturns(t) PROVE PoolInv'
    BY <1>14, ConstantsAssumption DEF StatementReturns, Leave, HolderAfter, SlotsAfter, Goto
  <1>15. ASSUME NEW t \in Tasks, SearchAgain(t) PROVE PoolInv'
    BY <1>15, ConstantsAssumption DEF SearchAgain, Leave, HolderAfter, SlotsAfter, Goto
  <1>16. ASSUME NEW t \in Tasks, CloseEnds(t) PROVE PoolInv'
    <2>1. PoolClosed(t)
      BY <1>16 DEF CloseEnds
    <2>2. QED
      BY <2>1, PoolClosedKeepsPoolInv
  <1>17. ASSUME NEW t \in Tasks, CloseRaises(t) PROVE PoolInv'
    <2>1. PoolClosed(t)
      BY <1>17 DEF CloseRaises
    <2>2. QED
      BY <2>1, PoolClosedKeepsPoolInv
  <1>18. ASSUME NEW t \in Tasks, Cancel(t) PROVE PoolInv'
    <2>1. /\ pool' = pool /\ pc'[t] = "cancelled"
          /\ \A u \in Tasks \ {t} : pc'[u] = pc[u]
      BY <1>18 DEF Cancel, Leave, Goto
    <2>2. \A p \in Tasks :
            pstate'[p] = IF \/ pc[t] = "create" /\ p = t
                            \/ pc[t] = "closing" /\ p = use[t]
                           THEN "closed" ELSE pstate[p]
      BY <1>18 DEF Cancel
    <2>3. \A p \in Tasks : pstate'[p] = "open" <=> pool' = p
      BY <2>1, <2>2, ConstantsAssumption
    <2>4. \A p \in Tasks : pstate'[p] = "opening" <=> pc'[p] = "create"
      <3>1. CASE pc[t] = "create"
        BY <2>1, <2>2, <3>1
      <3>2. CASE pc[t] = "closing"
        BY <2>1, <2>2, <3>2
      <3>3. CASE pc[t] \notin {"create", "closing"}
        BY <2>1, <2>2, <3>3
      <3>4. QED
        BY <3>1, <3>2, <3>3
    <2>5. \A p \in Tasks : pc'[p] \in {"idle", "lock"} => pstate'[p] = "none"
      BY <2>1, <2>2
    <2>6. QED
      BY <2>1, <2>3, <2>4, <2>5
  <1>19. CASE UNCHANGED vars
    BY <1>19 DEF vars, facade, adapter, lock, server, task
  <1>20. QED
    BY <1>1, <1>2, <1>3, <1>4, <1>5, <1>6, <1>7, <1>8, <1>9, <1>10, <1>11, <1>12, <1>13,
       <1>14, <1>15, <1>16, <1>17, <1>18, <1>19
       DEF Next, Start, Ensure, Run

\* A step of t that closes nothing keeps the closing pools and their closers.
LEMMA NothingClosed ==
    ASSUME TypeOK, ClosingInv, NEW t \in Tasks, pc[t] # "closing", pc'[t] # "closing",
           \A u \in Tasks \ {t} : pc'[u] = pc[u] /\ use'[u] = use[u],
           \A p \in Tasks :
            pstate'[p] = pstate[p] \/ (pstate[p] \in {"none", "opening"} /\ pstate'[p] # "closing")
    PROVE  ClosingInv'
  <1>1. ASSUME NEW u \in Tasks, pc'[u] = "closing"
        PROVE  use'[u] \in Tasks /\ pstate'[use'[u]] \in {"closing", "closed"}
    <2>1. u # t /\ pc[u] = "closing" /\ use'[u] = use[u]
      BY <1>1
    <2>2. use[u] \in Tasks /\ pstate[use[u]] \in {"closing", "closed"}
      BY <2>1 DEF ClosingInv
    <2>3. QED
      BY <2>1, <2>2
  <1>2. ASSUME NEW p \in Tasks, pstate'[p] = "closing"
        PROVE  \E u \in Tasks : pc'[u] = "closing" /\ use'[u] = p
    <2>1. pstate[p] = "closing"
      BY <1>2
    <2>2. PICK u \in Tasks : pc[u] = "closing" /\ use[u] = p
      BY <2>1 DEF ClosingInv
    <2>3. QED
      BY <2>2
  <1>3. QED
    BY <1>1, <1>2 DEF ClosingInv

\* _ensure_pool closes nothing.
LEMMA EnsurePoolKeepsClosingInv ==
    ASSUME TypeOK, PoolInv, ClosingInv, NEW t \in Tasks, pc[t] \in {"idle", "lock"},
           EnsurePool(t) \/ CreateOrDeclare(t)
    PROVE  ClosingInv'
  <1>1. /\ pc'[t] # "closing" /\ pstate'[t] \in {"opening", pstate[t]}
        /\ \A u \in Tasks \ {t} : pc'[u] = pc[u] /\ use'[u] = use[u] /\ pstate'[u] = pstate[u]
    BY EnsurePoolEffect
  <1>2. pstate[t] = "none"
    BY DEF PoolInv
  <1>3. pc[t] # "closing" /\ pc'[t] # "closing"
    BY <1>1, <1>2
  <1>4. \A u \in Tasks \ {t} : pc'[u] = pc[u] /\ use'[u] = use[u]
    BY <1>1, <1>2
  <1>5. \A p \in Tasks :
            pstate'[p] = pstate[p] \/ (pstate[p] \in {"none", "opening"} /\ pstate'[p] # "closing")
    BY <1>1, <1>2
  <1>6. QED
    BY <1>3, <1>4, <1>5, NothingClosed

\* A pool that close() took stays with that close().
LEMMA ClosingStep == TypeOK /\ PoolInv /\ ClosingInv /\ [Next]_vars => ClosingInv'
  <1> SUFFICES ASSUME TypeOK /\ PoolInv /\ ClosingInv, [Next]_vars PROVE ClosingInv'
    OBVIOUS
  <1> USE DEF TypeOK, Suspended, Outcomes, Verbs, Operations, facade, adapter, lock,
              server, task
  <1>1. ASSUME NEW t \in Tasks, NEW o \in Verbs, NEW l \in Loops, CallVerb(t, o, l) PROVE ClosingInv'
    <2>1. CASE EnsurePool(t)
      <3>1. pc[t] = "idle"
        BY <1>1 DEF CallVerb, MakeCall
      <3>2. QED
        BY <2>1, <3>1, EnsurePoolKeepsClosingInv
    <2>2. CASE Answer(t, "runtime_error") \/ BindLoop(t, l)
      <3>1. /\ pc[t] = "idle" /\ pc'[t] \in {"done", "runtime_error"} /\ use' = use /\ pstate' = pstate
            /\ \A u \in Tasks \ {t} : pc'[u] = pc[u] /\ use'[u] = use[u]
        BY <1>1, <2>2 DEF CallVerb, MakeCall, Answer, BindLoop, Goto
      <3>2. pc[t] # "closing" /\ pc'[t] # "closing"
        BY <3>1
      <3>3. \A u \in Tasks \ {t} : pc'[u] = pc[u] /\ use'[u] = use[u]
        BY <3>1
      <3>4. \A p \in Tasks :
            pstate'[p] = pstate[p] \/ (pstate[p] \in {"none", "opening"} /\ pstate'[p] # "closing")
        BY <3>1
      <3>5. QED
        BY <3>2, <3>3, <3>4, NothingClosed
    <2>3. QED
      BY <1>1, <2>1, <2>2 DEF CallVerb
  <1>2. ASSUME NEW t \in Tasks, NEW l \in Loops, Enter(t, l) PROVE ClosingInv'
    BY <1>2, ConstantsAssumption
       DEF Enter, MakeCall, InFlight, Answer, BindLoop, CheckLoop, Goto, ClosingInv, PoolInv
  <1>3. ASSUME NEW t \in Tasks, NEW l \in Loops, Probe(t, l) PROVE ClosingInv'
    <2>1. pc[t] = "idle" /\ EnsurePool(t)
      BY <1>3 DEF Probe, MakeCall
    <2>2. QED
      BY <2>1, EnsurePoolKeepsClosingInv
  <1>4. ASSUME NEW t \in Tasks, NEW l \in Loops, Close(t, l) PROVE ClosingInv'
    <2>1. CASE pc'[t] = "done" /\ UNCHANGED <<pstate, use>>
      <3>1. pc[t] = "idle" /\ \A u \in Tasks \ {t} : pc'[u] = pc[u] /\ use'[u] = use[u]
        BY <1>4, <2>1 DEF Close, MakeCall, Answer, Goto
      <3>2. pc[t] # "closing" /\ pc'[t] # "closing"
        BY <2>1, <3>1
      <3>3. \A u \in Tasks \ {t} : pc'[u] = pc[u] /\ use'[u] = use[u]
        BY <2>1, <3>1
      <3>4. \A p \in Tasks :
            pstate'[p] = pstate[p] \/ (pstate[p] \in {"none", "opening"} /\ pstate'[p] # "closing")
        BY <2>1, <3>1
      <3>5. QED
        BY <3>2, <3>3, <3>4, NothingClosed
    <2>2. CASE /\ pool # NoTask /\ Goto(t, "closing")
               /\ use' = [use EXCEPT ![t] = pool]
               /\ pstate' = [pstate EXCEPT ![pool] = "closing"]
      <3>1. pc[t] = "idle" /\ pool \in Tasks /\ pstate[pool] = "open"
        BY <1>4, <2>2 DEF Close, MakeCall, PoolInv
      <3>2. /\ pc'[t] = "closing" /\ use'[t] = pool /\ pstate'[pool] = "closing"
            /\ \A u \in Tasks \ {t} : pc'[u] = pc[u] /\ use'[u] = use[u]
            /\ \A p \in Tasks \ {pool} : pstate'[p] = pstate[p]
        BY <2>2, <3>1 DEF Goto
      <3>3. ASSUME NEW u \in Tasks, pc'[u] = "closing"
            PROVE  use'[u] \in Tasks /\ pstate'[use'[u]] \in {"closing", "closed"}
        <4>1. CASE u = t
          BY <3>1, <3>2, <4>1
        <4>2. CASE u # t
          <5>1. pc[u] = "closing" /\ use'[u] = use[u]
            BY <3>2, <3>3, <4>2
          <5>2. use[u] \in Tasks /\ pstate[use[u]] \in {"closing", "closed"}
            BY <5>1 DEF ClosingInv
          <5>3. pstate'[use[u]] = pstate[use[u]]
            BY <3>1, <3>2, <5>2
          <5>4. QED
            BY <5>1, <5>2, <5>3
        <4>3. QED
          BY <4>1, <4>2
      <3>4. ASSUME NEW p \in Tasks, pstate'[p] = "closing"
            PROVE  \E u \in Tasks : pc'[u] = "closing" /\ use'[u] = p
        <4>1. CASE p = pool
          BY <3>1, <3>2, <4>1
        <4>2. CASE p # pool
          <5>1. PICK u \in Tasks : pc[u] = "closing" /\ use[u] = p
            BY <3>2, <3>4, <4>2 DEF ClosingInv
          <5>2. QED
            <6>1. u # t
              BY <3>1, <5>1
            <6>2. QED
              BY <3>2, <5>1, <6>1
        <4>3. QED
          BY <4>1, <4>2
      <3>5. QED
        BY <3>3, <3>4 DEF ClosingInv
    <2>3. QED
      BY <1>4, <2>1, <2>2 DEF Close, Answer, Goto, PoolAfterClose
  <1>5. ASSUME NEW t \in Tasks, LockGranted(t) PROVE ClosingInv'
    <2>1. pc[t] = "lock" /\ CreateOrDeclare(t)
      BY <1>5 DEF LockGranted
    <2>2. QED
      BY <2>1, EnsurePoolKeepsClosingInv
  <1>6. ASSUME NEW t \in Tasks, PoolCreated(t) PROVE ClosingInv'
    <2>1. /\ pc[t] = "create" /\ pc'[t] # "closing"
          /\ pstate[t] = "opening" /\ pstate'[t] = "open"
          /\ \A u \in Tasks \ {t} :
               pc'[u] = pc[u] /\ use'[u] = use[u] /\ pstate'[u] = pstate[u]
      BY <1>6 DEF PoolCreated, Goto, PoolInv
    <2>2. pc[t] # "closing" /\ pc'[t] # "closing"
      BY <2>1
    <2>3. \A u \in Tasks \ {t} : pc'[u] = pc[u] /\ use'[u] = use[u]
      BY <2>1
    <2>4. \A p \in Tasks :
            pstate'[p] = pstate[p] \/ (pstate[p] \in {"none", "opening"} /\ pstate'[p] # "closing")
      BY <2>1
    <2>5. QED
      BY <2>2, <2>3, <2>4, NothingClosed
  <1>7. ASSUME NEW t \in Tasks, PoolCreationFails(t) PROVE ClosingInv'
    BY <1>7, ConstantsAssumption
       DEF PoolCreationFails, Leave, HolderAfter, SlotsAfter, Goto, ClosingInv, PoolInv
  <1>8. ASSUME NEW t \in Tasks, SchemaConnection(t) PROVE ClosingInv'
    BY <1>8, ConstantsAssumption DEF SchemaConnection, Goto, ClosingInv, PoolInv
  <1>9. ASSUME NEW t \in Tasks, SchemaStatement(t) PROVE ClosingInv'
    BY <1>9, ConstantsAssumption DEF SchemaStatement, Goto, ClosingInv, PoolInv
  <1>10. ASSUME NEW t \in Tasks, SchemaDone(t) PROVE ClosingInv'
    <2>1. /\ pc[t] = "ddl" /\ pc'[t] # "closing" /\ pstate' = pstate
          /\ \A u \in Tasks \ {t} : pc'[u] = pc[u] /\ use'[u] = use[u]
      BY <1>10 DEF SchemaDone, Leave, Goto
    <2>2. pc[t] # "closing" /\ pc'[t] # "closing"
      BY <2>1
    <2>3. \A u \in Tasks \ {t} : pc'[u] = pc[u] /\ use'[u] = use[u]
      BY <2>1
    <2>4. \A p \in Tasks :
            pstate'[p] = pstate[p] \/ (pstate[p] \in {"none", "opening"} /\ pstate'[p] # "closing")
      BY <2>1
    <2>5. QED
      BY <2>2, <2>3, <2>4, NothingClosed
  <1>11. ASSUME NEW t \in Tasks, SchemaFails(t) PROVE ClosingInv'
    BY <1>11, ConstantsAssumption
       DEF SchemaFails, Leave, HolderAfter, SlotsAfter, Goto, ClosingInv, PoolInv
  <1>12. ASSUME NEW t \in Tasks, Acquire(t) PROVE ClosingInv'
    BY <1>12, ConstantsAssumption DEF Acquire, Goto, ClosingInv, PoolInv
  <1>13. ASSUME NEW t \in Tasks, StatementFails(t) PROVE ClosingInv'
    BY <1>13, ConstantsAssumption
       DEF StatementFails, Leave, HolderAfter, SlotsAfter, Goto, ClosingInv, PoolInv
  <1>14. ASSUME NEW t \in Tasks, StatementReturns(t) PROVE ClosingInv'
    BY <1>14, ConstantsAssumption
       DEF StatementReturns, Leave, HolderAfter, SlotsAfter, Goto, ClosingInv, PoolInv
  <1>15. ASSUME NEW t \in Tasks, SearchAgain(t) PROVE ClosingInv'
    BY <1>15, ConstantsAssumption
       DEF SearchAgain, Leave, HolderAfter, SlotsAfter, Goto, ClosingInv, PoolInv
  <1>16. ASSUME NEW t \in Tasks, CloseEnds(t) PROVE ClosingInv'
    BY <1>16, ConstantsAssumption DEF CloseEnds, PoolClosed, Goto, ClosingInv, PoolInv
  <1>17. ASSUME NEW t \in Tasks, CloseRaises(t) PROVE ClosingInv'
    BY <1>17, ConstantsAssumption DEF CloseRaises, PoolClosed, Goto, ClosingInv, PoolInv
  <1>18. ASSUME NEW t \in Tasks, Cancel(t) PROVE ClosingInv'
    BY <1>18, ConstantsAssumption
       DEF Cancel, Leave, HolderAfter, SlotsAfter, InFlight, Goto, ClosingInv, PoolInv
  <1>19. CASE UNCHANGED vars
    BY <1>19 DEF vars, facade, adapter, lock, server, task, ClosingInv, PoolInv
  <1>20. QED
    BY <1>1, <1>2, <1>3, <1>4, <1>5, <1>6, <1>7, <1>8, <1>9, <1>10, <1>11, <1>12, <1>13,
       <1>14, <1>15, <1>16, <1>17, <1>18, <1>19
       DEF Next, Start, Ensure, Run

\* What a task holds in its local `pool` was opened.
LEMMA UseStep == TypeOK /\ PoolInv /\ ClosingInv /\ UseInv /\ [Next]_vars => UseInv'
  <1> SUFFICES ASSUME TypeOK /\ PoolInv /\ ClosingInv /\ UseInv, [Next]_vars PROVE UseInv'
    OBVIOUS
  <1> USE DEF TypeOK, UseInv, PoolInv, Suspended, Outcomes, Verbs, Operations, facade,
              adapter, lock, server, task
  <1>1. ASSUME NEW t \in Tasks, NEW o \in Verbs, NEW l \in Loops, CallVerb(t, o, l) PROVE UseInv'
    BY <1>1, ConstantsAssumption
       DEF CallVerb, MakeCall, InFlight, Answer, BindLoop, CheckOpen, CheckLoop, EnsurePool,
           LockFree, CreateOrDeclare, ReturnPool, FastPath, Goto
  <1>2. ASSUME NEW t \in Tasks, NEW l \in Loops, Enter(t, l) PROVE UseInv'
    BY <1>2, ConstantsAssumption DEF Enter, MakeCall, InFlight, Answer, BindLoop, CheckLoop, Goto
  <1>3. ASSUME NEW t \in Tasks, NEW l \in Loops, Probe(t, l) PROVE UseInv'
    BY <1>3, ConstantsAssumption
       DEF Probe, MakeCall, InFlight, EnsurePool, LockFree, CreateOrDeclare, ReturnPool,
           FastPath, Goto
  <1>4. ASSUME NEW t \in Tasks, NEW l \in Loops, Close(t, l) PROVE UseInv'
    BY <1>4, ConstantsAssumption DEF Close, MakeCall, InFlight, Answer, PoolAfterClose, Goto
  <1>5. ASSUME NEW t \in Tasks, LockGranted(t) PROVE UseInv'
    <2>1. pc[t] = "lock" /\ CreateOrDeclare(t)
      BY <1>5 DEF LockGranted
    <2>2. /\ pc'[t] \in {"lock", "create", "ddl_acquire", "acquire"}
          /\ \A u \in Tasks \ {t} : pc'[u] = pc[u] /\ use'[u] = use[u] /\ pstate'[u] = pstate[u]
          /\ pstate'[t] \in {"opening", pstate[t]} /\ pstate[t] = "none"
          /\ pc'[t] \in {"ddl_acquire", "acquire"} => pool # NoTask /\ use'[t] = pool
      BY <2>1, EnsurePoolEffect
    <2>3. ASSUME NEW u \in Tasks,
                 pc'[u] \in {"ddl_acquire", "ddl", "acquire", "query", "acquire2", "query2"}
          PROVE  use'[u] \in Tasks /\ pstate'[use'[u]] \in {"open", "closing", "closed"}
      <3>1. CASE u = t
        <4>1. use'[t] = pool /\ pool \in Tasks
          BY <2>2, <2>3, <3>1
        <4>2. pstate'[pool] = "open"
          BY <2>2, <4>1
        <4>3. QED
          BY <3>1, <4>1, <4>2
      <3>2. CASE u # t
        <4>1. use'[u] = use[u] /\ use[u] \in Tasks /\ pstate[use[u]] \in {"open", "closing", "closed"}
          BY <2>2, <2>3, <3>2
        <4>2. pstate'[use[u]] = pstate[use[u]]
          BY <2>2, <4>1
        <4>3. QED
          BY <4>1, <4>2
      <3>3. QED
        BY <3>1, <3>2
    <2>4. QED
      BY <2>3
  <1>6. ASSUME NEW t \in Tasks, PoolCreated(t) PROVE UseInv'
    BY <1>6, ConstantsAssumption DEF PoolCreated, HolderAfter, Goto
  <1>7. ASSUME NEW t \in Tasks, PoolCreationFails(t) PROVE UseInv'
    BY <1>7, ConstantsAssumption DEF PoolCreationFails, Leave, HolderAfter, SlotsAfter, Goto
  <1>8. ASSUME NEW t \in Tasks, SchemaConnection(t) PROVE UseInv'
    BY <1>8, ConstantsAssumption DEF SchemaConnection, Goto
  <1>9. ASSUME NEW t \in Tasks, SchemaStatement(t) PROVE UseInv'
    BY <1>9, ConstantsAssumption DEF SchemaStatement, Goto
  <1>10. ASSUME NEW t \in Tasks, SchemaDone(t) PROVE UseInv'
    <2>1. /\ pstate' = pstate
          /\ pc'[t] = "assertion_error" \/ (pc'[t] = "acquire" /\ pool # NoTask /\ use'[t] = pool)
          /\ \A u \in Tasks \ {t} : pc'[u] = pc[u] /\ use'[u] = use[u]
      BY <1>10 DEF SchemaDone, Leave, Goto
    <2>2. ASSUME NEW u \in Tasks,
                 pc'[u] \in {"ddl_acquire", "ddl", "acquire", "query", "acquire2", "query2"}
          PROVE  use'[u] \in Tasks /\ pstate'[use'[u]] \in {"open", "closing", "closed"}
      <3>1. CASE u = t
        <4>1. use'[t] = pool /\ pool \in Tasks
          BY <2>1, <2>2, <3>1
        <4>2. pstate'[pool] = "open"
          BY <2>1, <4>1
        <4>3. QED
          BY <3>1, <4>1, <4>2
      <3>2. CASE u # t
        <4>1. use'[u] = use[u] /\ use[u] \in Tasks /\ pstate[use[u]] \in {"open", "closing", "closed"}
          BY <2>1, <2>2, <3>2
        <4>2. pstate'[use[u]] = pstate[use[u]]
          BY <2>1, <4>1
        <4>3. QED
          BY <4>1, <4>2
      <3>3. QED
        BY <3>1, <3>2
    <2>3. QED
      BY <2>2
  <1>11. ASSUME NEW t \in Tasks, SchemaFails(t) PROVE UseInv'
    BY <1>11, ConstantsAssumption DEF SchemaFails, Leave, HolderAfter, SlotsAfter, Goto
  <1>12. ASSUME NEW t \in Tasks, Acquire(t) PROVE UseInv'
    BY <1>12, ConstantsAssumption DEF Acquire, Goto
  <1>13. ASSUME NEW t \in Tasks, StatementFails(t) PROVE UseInv'
    BY <1>13, ConstantsAssumption DEF StatementFails, Leave, HolderAfter, SlotsAfter, Goto
  <1>14. ASSUME NEW t \in Tasks, StatementReturns(t) PROVE UseInv'
    BY <1>14, ConstantsAssumption DEF StatementReturns, Leave, HolderAfter, SlotsAfter, Goto
  <1>15. ASSUME NEW t \in Tasks, SearchAgain(t) PROVE UseInv'
    BY <1>15, ConstantsAssumption DEF SearchAgain, Leave, HolderAfter, SlotsAfter, Goto
  <1>16. ASSUME NEW t \in Tasks, CloseEnds(t) PROVE UseInv'
    BY <1>16, ConstantsAssumption DEF CloseEnds, PoolClosed, Goto
  <1>17. ASSUME NEW t \in Tasks, CloseRaises(t) PROVE UseInv'
    BY <1>17, ConstantsAssumption DEF CloseRaises, PoolClosed, Goto
  <1>18. ASSUME NEW t \in Tasks, Cancel(t) PROVE UseInv'
    BY <1>18, ConstantsAssumption DEF Cancel, Leave, HolderAfter, SlotsAfter, InFlight, Goto
  <1>19. CASE UNCHANGED vars
    BY <1>19 DEF vars, facade, adapter, lock, server, task
  <1>20. QED
    BY <1>1, <1>2, <1>3, <1>4, <1>5, <1>6, <1>7, <1>8, <1>9, <1>10, <1>11, <1>12, <1>13,
       <1>14, <1>15, <1>16, <1>17, <1>18, <1>19
       DEF Next, Start, Ensure, Run

\* Nobody thinks more of the schema than the database has executed.
LEMMA SchemaStep == TypeOK /\ LockInv /\ QueueInv /\ SchemaInv /\ [Next]_vars => SchemaInv'
  <1> SUFFICES ASSUME TypeOK /\ LockInv /\ QueueInv /\ SchemaInv, [Next]_vars PROVE SchemaInv'
    OBVIOUS
  <1> USE DEF TypeOK, SchemaInv, Suspended, Outcomes, Verbs, Operations, facade,
              adapter, lock, server, task
  <1>1. ASSUME NEW t \in Tasks, NEW o \in Verbs, NEW l \in Loops, CallVerb(t, o, l) PROVE SchemaInv'
    BY <1>1, ConstantsAssumption
       DEF CallVerb, MakeCall, InFlight, Answer, BindLoop, CheckOpen, CheckLoop, EnsurePool,
           LockFree, CreateOrDeclare, ReturnPool, FastPath, Goto
  <1>2. ASSUME NEW t \in Tasks, NEW l \in Loops, Enter(t, l) PROVE SchemaInv'
    BY <1>2, ConstantsAssumption DEF Enter, MakeCall, InFlight, Answer, BindLoop, CheckLoop, Goto
  <1>3. ASSUME NEW t \in Tasks, NEW l \in Loops, Probe(t, l) PROVE SchemaInv'
    BY <1>3, ConstantsAssumption
       DEF Probe, MakeCall, InFlight, EnsurePool, LockFree, CreateOrDeclare, ReturnPool,
           FastPath, Goto
  <1>4. ASSUME NEW t \in Tasks, NEW l \in Loops, Close(t, l) PROVE SchemaInv'
    BY <1>4, ConstantsAssumption DEF Close, MakeCall, InFlight, Answer, PoolAfterClose, Goto
  <1>5. ASSUME NEW t \in Tasks, LockGranted(t) PROVE SchemaInv'
    BY <1>5, ConstantsAssumption
       DEF LockGranted, CreateOrDeclare, ReturnPool, FastPath, Goto
  <1>6. ASSUME NEW t \in Tasks, PoolCreated(t) PROVE SchemaInv'
    BY <1>6, ConstantsAssumption DEF PoolCreated, HolderAfter, Goto
  <1>7. ASSUME NEW t \in Tasks, PoolCreationFails(t) PROVE SchemaInv'
    BY <1>7, ConstantsAssumption DEF PoolCreationFails, Leave, HolderAfter, SlotsAfter, Goto
  <1>8. ASSUME NEW t \in Tasks, SchemaConnection(t) PROVE SchemaInv'
    BY <1>8, ConstantsAssumption DEF SchemaConnection, Goto
  <1>9. ASSUME NEW t \in Tasks, SchemaStatement(t) PROVE SchemaInv'
    BY <1>9, ConstantsAssumption DEF SchemaStatement, DDLLeft, Goto
  <1>10. ASSUME NEW t \in Tasks, SchemaDone(t) PROVE SchemaInv'
    BY <1>10, ConstantsAssumption DEF SchemaDone, DDLLeft, Leave, HolderAfter, SlotsAfter, Goto
  <1>11. ASSUME NEW t \in Tasks, SchemaFails(t) PROVE SchemaInv'
    BY <1>11, ConstantsAssumption DEF SchemaFails, Leave, HolderAfter, SlotsAfter, Goto
  <1>12. ASSUME NEW t \in Tasks, Acquire(t) PROVE SchemaInv'
    BY <1>12, ConstantsAssumption DEF Acquire, Goto
  <1>13. ASSUME NEW t \in Tasks, StatementFails(t) PROVE SchemaInv'
    BY <1>13, ConstantsAssumption DEF StatementFails, Leave, HolderAfter, SlotsAfter, Goto
  <1>14. ASSUME NEW t \in Tasks, StatementReturns(t) PROVE SchemaInv'
    BY <1>14, ConstantsAssumption DEF StatementReturns, Leave, HolderAfter, SlotsAfter, Goto
  <1>15. ASSUME NEW t \in Tasks, SearchAgain(t) PROVE SchemaInv'
    BY <1>15, ConstantsAssumption DEF SearchAgain, Leave, HolderAfter, SlotsAfter, Goto
  <1>16. ASSUME NEW t \in Tasks, CloseEnds(t) PROVE SchemaInv'
    BY <1>16, ConstantsAssumption DEF CloseEnds, PoolClosed, Goto
  <1>17. ASSUME NEW t \in Tasks, CloseRaises(t) PROVE SchemaInv'
    BY <1>17, ConstantsAssumption DEF CloseRaises, PoolClosed, Goto
  <1>18. ASSUME NEW t \in Tasks, Cancel(t) PROVE SchemaInv'
    BY <1>18, ConstantsAssumption DEF Cancel, Leave, HolderAfter, SlotsAfter, InFlight, Goto
  <1>19. CASE UNCHANGED vars
    BY <1>19 DEF vars, facade, adapter, lock, server, task
  <1>20. QED
    BY <1>1, <1>2, <1>3, <1>4, <1>5, <1>6, <1>7, <1>8, <1>9, <1>10, <1>11, <1>12, <1>13,
       <1>14, <1>15, <1>16, <1>17, <1>18, <1>19
       DEF Next, Start, Ensure, Run

\* A connection is lent only inside `async with pool.acquire()`.
LEMMA SlotStep == TypeOK /\ SlotInv /\ [Next]_vars => SlotInv'
  <1> SUFFICES ASSUME TypeOK /\ SlotInv, [Next]_vars PROVE SlotInv'
    OBVIOUS
  <1> USE DEF TypeOK, SlotInv, Suspended, Outcomes, Verbs, Operations, facade, adapter,
              lock, server, task
  <1>1. ASSUME NEW t \in Tasks, NEW o \in Verbs, NEW l \in Loops, CallVerb(t, o, l) PROVE SlotInv'
    <2>1. inuse' = inuse /\ pc[t] \notin {"ddl", "query", "query2"}
      BY <1>1 DEF CallVerb, MakeCall, Answer, BindLoop
    <2>2. \A u \in Tasks \ {t} : pc'[u] = pc[u] /\ use'[u] = use[u]
      BY <1>1, EnsurePoolEffect DEF CallVerb, MakeCall, Answer, BindLoop, Goto
    <2>3. QED
      BY <2>1, <2>2
  <1>2. ASSUME NEW t \in Tasks, NEW l \in Loops, Enter(t, l) PROVE SlotInv'
    <2>1. inuse' = inuse /\ pc[t] \notin {"ddl", "query", "query2"}
      BY <1>2 DEF Enter, MakeCall, Answer, BindLoop
    <2>2. \A u \in Tasks \ {t} : pc'[u] = pc[u] /\ use'[u] = use[u]
      BY <1>2 DEF Enter, MakeCall, Answer, BindLoop, Goto
    <2>3. QED
      BY <2>1, <2>2
  <1>3. ASSUME NEW t \in Tasks, NEW l \in Loops, Probe(t, l) PROVE SlotInv'
    BY <1>3, ConstantsAssumption
       DEF Probe, MakeCall, InFlight, EnsurePool, LockFree, CreateOrDeclare, ReturnPool,
           FastPath, Goto
  <1>4. ASSUME NEW t \in Tasks, NEW l \in Loops, Close(t, l) PROVE SlotInv'
    BY <1>4, ConstantsAssumption DEF Close, MakeCall, InFlight, Answer, PoolAfterClose, Goto
  <1>5. ASSUME NEW t \in Tasks, LockGranted(t) PROVE SlotInv'
    <2>1. inuse' = inuse /\ pc[t] \notin {"ddl", "query", "query2"}
      BY <1>5 DEF LockGranted
    <2>2. \A u \in Tasks \ {t} : pc'[u] = pc[u] /\ use'[u] = use[u]
      BY <1>5, EnsurePoolEffect DEF LockGranted
    <2>3. QED
      BY <2>1, <2>2
  <1>6. ASSUME NEW t \in Tasks, PoolCreated(t) PROVE SlotInv'
    <2>1. inuse' = inuse /\ pc[t] \notin {"ddl", "query", "query2"}
      BY <1>6 DEF PoolCreated
    <2>2. \A u \in Tasks \ {t} : pc'[u] = pc[u] /\ use'[u] = use[u]
      BY <1>6 DEF PoolCreated, Goto
    <2>3. QED
      BY <2>1, <2>2
  <1>7. ASSUME NEW t \in Tasks, PoolCreationFails(t) PROVE SlotInv'
    BY <1>7, ConstantsAssumption DEF PoolCreationFails, Leave, HolderAfter, SlotsAfter, Goto
  <1>8. ASSUME NEW t \in Tasks, SchemaConnection(t) PROVE SlotInv'
    BY <1>8, ConstantsAssumption DEF SchemaConnection, Goto
  <1>9. ASSUME NEW t \in Tasks, SchemaStatement(t) PROVE SlotInv'
    BY <1>9, ConstantsAssumption DEF SchemaStatement, Goto
  <1>10. ASSUME NEW t \in Tasks, SchemaDone(t) PROVE SlotInv'
    BY <1>10, ConstantsAssumption DEF SchemaDone, Leave, HolderAfter, SlotsAfter, Goto
  <1>11. ASSUME NEW t \in Tasks, SchemaFails(t) PROVE SlotInv'
    BY <1>11, ConstantsAssumption DEF SchemaFails, Leave, HolderAfter, SlotsAfter, Goto
  <1>12. ASSUME NEW t \in Tasks, Acquire(t) PROVE SlotInv'
    BY <1>12, ConstantsAssumption DEF Acquire, Goto
  <1>13. ASSUME NEW t \in Tasks, StatementFails(t) PROVE SlotInv'
    BY <1>13, ConstantsAssumption DEF StatementFails, Leave, HolderAfter, SlotsAfter, Goto
  <1>14. ASSUME NEW t \in Tasks, StatementReturns(t) PROVE SlotInv'
    BY <1>14, ConstantsAssumption DEF StatementReturns, Leave, HolderAfter, SlotsAfter, Goto
  <1>15. ASSUME NEW t \in Tasks, SearchAgain(t) PROVE SlotInv'
    BY <1>15, ConstantsAssumption DEF SearchAgain, Leave, HolderAfter, SlotsAfter, Goto
  <1>16. ASSUME NEW t \in Tasks, CloseEnds(t) PROVE SlotInv'
    BY <1>16, ConstantsAssumption DEF CloseEnds, PoolClosed, Goto
  <1>17. ASSUME NEW t \in Tasks, CloseRaises(t) PROVE SlotInv'
    BY <1>17, ConstantsAssumption DEF CloseRaises, PoolClosed, Goto
  <1>18. ASSUME NEW t \in Tasks, Cancel(t) PROVE SlotInv'
    BY <1>18, ConstantsAssumption DEF Cancel, Leave, HolderAfter, SlotsAfter, InFlight, Goto
  <1>19. CASE UNCHANGED vars
    BY <1>19 DEF vars, facade, adapter, lock, server, task
  <1>20. QED
    BY <1>1, <1>2, <1>3, <1>4, <1>5, <1>6, <1>7, <1>8, <1>9, <1>10, <1>11, <1>12, <1>13,
       <1>14, <1>15, <1>16, <1>17, <1>18, <1>19
       DEF Next, Start, Ensure, Run

\* The facade lets through what its guards promise.
LEMMA FacadeStep == TypeOK /\ FacadeInv /\ [Next]_vars => FacadeInv'
  <1> SUFFICES ASSUME TypeOK /\ FacadeInv, [Next]_vars PROVE FacadeInv'
    OBVIOUS
  <1> USE DEF TypeOK, FacadeInv, Suspended, Outcomes, Verbs, Operations, facade,
              adapter, lock, server, task
  <1>1. ASSUME NEW t \in Tasks, NEW o \in Verbs, NEW l \in Loops, CallVerb(t, o, l) PROVE FacadeInv'
    BY <1>1, ConstantsAssumption
       DEF CallVerb, MakeCall, InFlight, Answer, BindLoop, CheckOpen, CheckLoop, EnsurePool,
           LockFree, CreateOrDeclare, ReturnPool, FastPath, Goto
  <1>2. ASSUME NEW t \in Tasks, NEW l \in Loops, Enter(t, l) PROVE FacadeInv'
    BY <1>2, ConstantsAssumption DEF Enter, MakeCall, InFlight, Answer, BindLoop, CheckLoop, Goto
  <1>3. ASSUME NEW t \in Tasks, NEW l \in Loops, Probe(t, l) PROVE FacadeInv'
    BY <1>3, ConstantsAssumption
       DEF Probe, MakeCall, InFlight, EnsurePool, LockFree, CreateOrDeclare, ReturnPool,
           FastPath, Goto
  <1>4. ASSUME NEW t \in Tasks, NEW l \in Loops, Close(t, l) PROVE FacadeInv'
    BY <1>4, ConstantsAssumption DEF Close, MakeCall, InFlight, Answer, PoolAfterClose, Goto
  <1>5. ASSUME NEW t \in Tasks, LockGranted(t) PROVE FacadeInv'
    BY <1>5, ConstantsAssumption
       DEF LockGranted, CreateOrDeclare, ReturnPool, FastPath, Goto
  <1>6. ASSUME NEW t \in Tasks, PoolCreated(t) PROVE FacadeInv'
    BY <1>6, ConstantsAssumption DEF PoolCreated, HolderAfter, Goto
  <1>7. ASSUME NEW t \in Tasks, PoolCreationFails(t) PROVE FacadeInv'
    BY <1>7, ConstantsAssumption DEF PoolCreationFails, Leave, HolderAfter, SlotsAfter, Goto
  <1>8. ASSUME NEW t \in Tasks, SchemaConnection(t) PROVE FacadeInv'
    BY <1>8, ConstantsAssumption DEF SchemaConnection, Goto
  <1>9. ASSUME NEW t \in Tasks, SchemaStatement(t) PROVE FacadeInv'
    BY <1>9, ConstantsAssumption DEF SchemaStatement, Goto
  <1>10. ASSUME NEW t \in Tasks, SchemaDone(t) PROVE FacadeInv'
    BY <1>10, ConstantsAssumption DEF SchemaDone, Leave, HolderAfter, SlotsAfter, Goto
  <1>11. ASSUME NEW t \in Tasks, SchemaFails(t) PROVE FacadeInv'
    BY <1>11, ConstantsAssumption DEF SchemaFails, Leave, HolderAfter, SlotsAfter, Goto
  <1>12. ASSUME NEW t \in Tasks, Acquire(t) PROVE FacadeInv'
    BY <1>12, ConstantsAssumption DEF Acquire, Goto
  <1>13. ASSUME NEW t \in Tasks, StatementFails(t) PROVE FacadeInv'
    BY <1>13, ConstantsAssumption DEF StatementFails, Leave, HolderAfter, SlotsAfter, Goto
  <1>14. ASSUME NEW t \in Tasks, StatementReturns(t) PROVE FacadeInv'
    BY <1>14, ConstantsAssumption DEF StatementReturns, Leave, HolderAfter, SlotsAfter, Goto
  <1>15. ASSUME NEW t \in Tasks, SearchAgain(t) PROVE FacadeInv'
    BY <1>15, ConstantsAssumption DEF SearchAgain, Leave, HolderAfter, SlotsAfter, Goto
  <1>16. ASSUME NEW t \in Tasks, CloseEnds(t) PROVE FacadeInv'
    BY <1>16, ConstantsAssumption DEF CloseEnds, PoolClosed, Goto
  <1>17. ASSUME NEW t \in Tasks, CloseRaises(t) PROVE FacadeInv'
    BY <1>17, ConstantsAssumption DEF CloseRaises, PoolClosed, Goto
  <1>18. ASSUME NEW t \in Tasks, Cancel(t) PROVE FacadeInv'
    BY <1>18, ConstantsAssumption DEF Cancel, Leave, HolderAfter, SlotsAfter, InFlight, Goto
  <1>19. CASE UNCHANGED vars
    BY <1>19 DEF vars, facade, adapter, lock, server, task
  <1>20. QED
    BY <1>1, <1>2, <1>3, <1>4, <1>5, <1>6, <1>7, <1>8, <1>9, <1>10, <1>11, <1>12, <1>13,
       <1>14, <1>15, <1>16, <1>17, <1>18, <1>19
       DEF Next, Start, Ensure, Run

-----------------------------------------------------------------------------
(* The inductive invariant *)

LEMMA InitIInv == Init => IInv
  <1> SUFFICES ASSUME Init PROVE IInv
    OBVIOUS
  <1> USE DEF Init
  <1>1. TypeOK
    <2>1. waiters \in Seq(Tasks)
      BY EmptySeq
    <2>2. 0 \in 0..NumDDL
      BY ConstantsAssumption
    <2>3. QED
      BY <2>1, <2>2 DEF TypeOK, Suspended, Outcomes, Operations
  <1>2. LockInv /\ QueueInv
    BY ConstantsAssumption DEF LockInv, QueueInv, Initialising
  <1>3. PoolInv /\ ClosingInv /\ UseInv
    BY ConstantsAssumption DEF PoolInv, ClosingInv, UseInv
  <1>4. SchemaInv /\ SlotInv /\ FacadeInv
    BY DEF SchemaInv, SlotInv, FacadeInv, Verbs
  <1>5. QED
    BY <1>1, <1>2, <1>3, <1>4 DEF IInv

LEMMA StepIInv == IInv /\ [Next]_vars => IInv'
  BY TypeStep, LockStep, QueueStep, PoolStep, ClosingStep, UseStep, SchemaStep,
     SlotStep, FacadeStep DEF IInv

\* Every reachable state satisfies the inductive invariant, whatever the
\* calls, failures, cancellations and close()s were.
THEOREM Invariance == Spec => []IInv
  <1>1. Init => IInv
    BY InitIInv
  <1>2. IInv /\ [Next]_vars => IInv'
    BY StepIInv
  <1>3. QED
    BY <1>1, <1>2, PTL DEF Spec

-----------------------------------------------------------------------------
(* The properties *)

\* The adapter's and the facade's fields keep their types.
THEOREM TypeCorrect == Spec => []TypeOK
  <1>1. IInv => TypeOK
    BY DEF IInv
  <1>2. QED
    BY <1>1, Invariance, PTL

\* _ensure_pool never has two pools being opened or open, for any number of
\* concurrent first calls.
THEOREM OnePool == Spec => []OnePoolAtATime
  <1>1. IInv => OnePoolAtATime
    <2> SUFFICES ASSUME IInv, NEW p \in Tasks, NEW q \in Tasks,
                        pstate[p] \in {"opening", "open"}, pstate[q] \in {"opening", "open"}
                 PROVE  p = q
      BY DEF OnePoolAtATime
    <2>1. \A t \in Tasks : pstate[t] = "opening" => pool = NoTask /\ holder = t
      BY DEF IInv, PoolInv, LockInv, Initialising
    <2>2. \A t \in Tasks : pstate[t] = "open" => pool = t
      BY DEF IInv, PoolInv
    <2>3. QED
      BY <2>1, <2>2, ConstantsAssumption
  <1>2. QED
    BY <1>1, Invariance, PTL

\* The test before the lock never hands out a pool that close() has taken.
THEOREM CurrentPoolIsUsable == Spec => []CurrentPoolUsable
  <1>1. IInv => CurrentPoolUsable
    BY DEF IInv, TypeOK, PoolInv, CurrentPoolUsable
  <1>2. QED
    BY <1>1, Invariance, PTL

\* No verb queries a table whose declaration has not been executed.
THEOREM SchemaFirst == Spec => []SchemaBeforeQuery
  <1>1. IInv => SchemaBeforeQuery
    BY DEF IInv, SchemaInv, SchemaBeforeQuery
  <1>2. QED
    BY <1>1, Invariance, PTL

\* However its calls ended, an idle adapter holds no lock, no connection and
\* no half-opened pool.
THEOREM NothingStranded == Spec => []IdleMeansReleased
  <1>1. IInv => IdleMeansReleased
    <2> SUFFICES ASSUME IInv, \A t \in Tasks : ~InFlight(t)
                 PROVE  /\ holder = NoTask
                        /\ waiters = <<>>
                        /\ \A p \in Tasks : inuse[p] = {} /\ pstate[p] \notin {"opening", "closing"}
      BY DEF IdleMeansReleased
    <2>1. \A t \in Tasks : pc[t] \notin Suspended
      BY DEF InFlight
    <2>2. holder = NoTask
      BY <2>1 DEF IInv, TypeOK, LockInv, Initialising, Suspended
    <2>3. waiters = <<>>
      <3>1. waiters \in Seq(Tasks) /\ \A i \in 1..Len(waiters) : pc[waiters[i]] = "lock"
        BY DEF IInv, TypeOK, QueueInv
      <3>2. ASSUME waiters # <<>>
            PROVE  FALSE
        <4>1. 1 \in 1..Len(waiters) /\ waiters[1] \in Tasks
          BY <3>1, <3>2, EmptySeq, LenProperties, ElementOfSeq
        <4>2. QED
          BY <2>1, <3>1, <4>1 DEF Suspended
      <3>3. QED
        BY <3>2
    <2>4. ASSUME NEW p \in Tasks
          PROVE  inuse[p] = {} /\ pstate[p] \notin {"opening", "closing"}
      <3>1. inuse[p] \subseteq Tasks /\ \A t \in inuse[p] : pc[t] \in Suspended
        BY DEF IInv, TypeOK, SlotInv, Suspended
      <3>2. pstate[p] # "opening"
        BY <2>1 DEF IInv, PoolInv, Suspended
      <3>3. pstate[p] # "closing"
        BY <2>1 DEF IInv, ClosingInv, Suspended
      <3>4. QED
        BY <2>1, <3>1, <3>2, <3>3
    <2>5. QED
      BY <2>2, <2>3, <2>4
  <1>2. QED
    BY <1>1, Invariance, PTL

\* Every verb past the guards ran on the one loop the lock belongs to.
THEOREM OneLoop == Spec => []LoopConfined
  <1>1. IInv => LoopConfined
    BY DEF IInv, FacadeInv, LoopConfined
  <1>2. QED
    BY <1>1, Invariance, PTL

\* After close() has begun, a call that starts is answered by a guard.
THEOREM NothingAdmitted == Spec => NoAdmissionAfterClose
  <1> DEFINE Kept == (\E c \in Tasks : op[c] = "close") =>
                       \A t \in Tasks : pc[t] = "idle" => pc'[t] \in {"idle"} \cup Outcomes
  <1>1. IInv /\ [Next]_vars => [Kept]_vars
    <2> SUFFICES ASSUME IInv, Next, NEW c \in Tasks, op[c] = "close",
                        NEW u \in Tasks, pc[u] = "idle"
                 PROVE  pc'[u] \in {"idle"} \cup Outcomes
      OBVIOUS
    <2> USE DEF TypeOK, Outcomes
    <2>1. closed /\ TypeOK
      BY DEF IInv, FacadeInv
    <2>2. PICK t \in Tasks :
            \/ \E l \in Loops : Start(t, l)
            \/ Ensure(t) \/ Run(t) \/ CloseRaises(t) \/ Cancel(t)
      BY DEF Next
    <2>3. CASE \E l \in Loops : Start(t, l)
      BY <2>1, <2>3 DEF Start, Enter, Probe, Close, CallVerb, CheckOpen, Answer, BindLoop, Goto
    <2>4. CASE Ensure(t)
      <3>1. pc[t] # "idle" /\ \A v \in Tasks \ {t} : pc'[v] = pc[v]
        BY <2>1, <2>4, EnsurePoolEffect
           DEF Ensure, LockGranted, PoolCreated, PoolCreationFails, SchemaConnection,
               SchemaStatement, SchemaDone, SchemaFails, Leave, Goto
      <3>2. QED
        BY <3>1
    <2>5. CASE Run(t) \/ CloseRaises(t) \/ Cancel(t)
      <3>1. pc[t] # "idle" /\ \A v \in Tasks \ {t} : pc'[v] = pc[v]
        BY <2>1, <2>5
           DEF Run, Acquire, StatementFails, StatementReturns, SearchAgain, CloseEnds,
               CloseRaises, PoolClosed, Cancel, InFlight, Suspended, Leave, Goto
      <3>2. QED
        BY <3>1
    <2>6. QED
      BY <2>2, <2>3, <2>4, <2>5
  <1>2. QED
    BY <1>1, Invariance, PTL DEF Spec, NoAdmissionAfterClose

-----------------------------------------------------------------------------
(***************************************************************************)
(* AsyncPool implements PoolPromise, for every set of tasks and loops: a   *)
(* step of the lock, the awaits and the cancellations is a step of the     *)
(* promise or is invisible to it.                                          *)
(***************************************************************************)


\* A step that changes neither the state of a pool, but from closing to
\* closed, nor the schema, nor the statements in progress, is invisible.
LEMMA Invisible ==
    ASSUME \A p \in Tasks : pstate'[p] = pstate[p] \/ {pstate[p], pstate'[p]} = {"closing", "closed"},
           tablesExist' = tablesExist, querying' = querying
    PROVE  UNCHANGED Promise!promiseVars
  <1>1. \A p \in Tasks :
          (IF pstate'[p] \in {"closing", "closed"} THEN "retired" ELSE pstate'[p])
            = (IF pstate[p] \in {"closing", "closed"} THEN "retired" ELSE pstate[p])
    OBVIOUS
  <1>2. poolPhase' = poolPhase
    BY <1>1 DEF poolPhase
  <1>3. QED
    BY <1>2 DEF Promise!promiseVars

\* When t alone moves, the statements in progress are the others' and t's.
LEMMA QueryingAfter ==
    ASSUME TypeOK, NEW t \in Tasks, \A u \in Tasks \ {t} : pc'[u] = pc[u]
    PROVE  querying' = IF pc'[t] \in {"query", "query2"} THEN querying \cup {t}
                                                        ELSE querying \ {t}
  BY DEF querying

\* A step that only takes pool p from one phase to another.
LEMMA PhaseAfter ==
    ASSUME NEW p \in Tasks, NEW ph \in {"opening", "open", "retired"},
           IF ph = "retired" THEN pstate'[p] \in {"closing", "closed"} ELSE pstate'[p] = ph,
           \A q \in Tasks \ {p} : pstate'[q] = pstate[q]
    PROVE  poolPhase' = [poolPhase EXCEPT ![p] = ph]
  BY DEF poolPhase

\* _ensure_pool opens a pool when none is live, or does nothing visible.
LEMMA EnsurePoolKeepsPromise ==
    ASSUME IInv, NEW t \in Tasks, pc[t] \in {"idle", "lock"}, applied' = applied,
           \/ EnsurePool(t)
           \/ CreateOrDeclare(t) /\ holder = NoTask
    PROVE  Promise!Open(t) \/ UNCHANGED Promise!promiseVars
  <1>1. TypeOK /\ pstate[t] = "none"
    BY DEF IInv, PoolInv
  <1>2. /\ pc'[t] \in {"lock", "create", "ddl_acquire", "acquire"}
        /\ \A u \in Tasks \ {t} : pc'[u] = pc[u] /\ pstate'[u] = pstate[u]
        /\ pc'[t] = "create" => pool = NoTask /\ pstate'[t] = "opening"
        /\ pc'[t] # "create" => pstate'[t] = pstate[t]
    BY <1>1, EnsurePoolEffect
  <1>3. querying' = querying /\ tablesExist' = tablesExist
    <2>1. t \notin querying
      BY DEF querying
    <2>2. QED
      BY <1>1, <1>2, <2>1, QueryingAfter DEF tablesExist
  <1>4. CASE pc'[t] = "create"
    <2>1. holder = NoTask
      BY <1>2, <1>4, <1>1 DEF EnsurePool, LockFree, ReturnPool, Goto, TypeOK
    <2>2. \A q \in Tasks : pstate[q] \notin {"opening", "open"}
      BY <1>2, <1>4, <2>1, ConstantsAssumption DEF IInv, PoolInv, LockInv, Initialising
    <2>3. poolPhase' = [poolPhase EXCEPT ![t] = "opening"]
      BY <1>2, <1>4, PhaseAfter
    <2>4. poolPhase[t] = "none" /\ \A q \in Tasks : poolPhase[q] \notin {"opening", "open"}
      BY <1>1, <2>2 DEF poolPhase
    <2>5. QED
      BY <1>3, <2>3, <2>4 DEF Promise!Open, Promise!Live
  <1>5. CASE pc'[t] # "create"
    BY <1>2, <1>3, <1>5, Invisible
  <1>6. QED
    BY <1>4, <1>5

\* A step that moves t alone and leaves the pools and the schema as they are
\* starts or ends a statement, or does nothing visible.
LEMMA StatementKeepsPromise ==
    ASSUME IInv, NEW t \in Tasks, \A u \in Tasks \ {t} : pc'[u] = pc[u],
           pstate' = pstate, applied' = applied,
           pc'[t] \in {"query", "query2"} => applied = NumDDL
    PROVE  Promise!Serve(t) \/ Promise!Leave(t) \/ UNCHANGED Promise!promiseVars
  <1>1. poolPhase' = poolPhase /\ tablesExist' = tablesExist
    BY DEF poolPhase, tablesExist
  <1>2. querying' = IF pc'[t] \in {"query", "query2"} THEN querying \cup {t} ELSE querying \ {t}
    BY QueryingAfter DEF IInv
  <1>3. CASE pc'[t] \in {"query", "query2"}
    BY <1>1, <1>2, <1>3 DEF Promise!Serve, tablesExist
  <1>4. CASE pc'[t] \notin {"query", "query2"} /\ t \in querying
    BY <1>1, <1>2, <1>4 DEF Promise!Leave
  <1>5. CASE pc'[t] \notin {"query", "query2"} /\ t \notin querying
    BY <1>1, <1>2, <1>5 DEF Promise!promiseVars
  <1>6. QED
    BY <1>3, <1>4, <1>5

\* A step that moves t alone, neither to nor from a statement, and takes one
\* pool to another phase.
LEMMA PhaseKeepsPromise ==
    ASSUME IInv, NEW t \in Tasks, \A u \in Tasks \ {t} : pc'[u] = pc[u],
           pc[t] \notin {"query", "query2"}, pc'[t] \notin {"query", "query2"},
           applied' = applied,
           NEW p \in Tasks, \A q \in Tasks \ {p} : pstate'[q] = pstate[q],
           \/ pstate[p] = "opening" /\ pstate'[p] = "open"
           \/ pstate[p] \in {"opening", "open"} /\ pstate'[p] \in {"closing", "closed"}
    PROVE  Promise!Opened(p) \/ Promise!Retire(p)
  <1>1. querying' = querying /\ tablesExist' = tablesExist
    <2>1. t \notin querying
      BY DEF querying
    <2>2. QED
      BY <2>1, QueryingAfter DEF IInv, tablesExist
  <1>2. CASE pstate[p] = "opening" /\ pstate'[p] = "open"
    <2>1. poolPhase' = [poolPhase EXCEPT ![p] = "open"] /\ poolPhase[p] = "opening"
      BY <1>2, PhaseAfter DEF poolPhase
    <2>2. QED
      BY <1>1, <2>1 DEF Promise!Opened
  <1>3. CASE pstate[p] \in {"opening", "open"} /\ pstate'[p] \in {"closing", "closed"}
    <2>1. poolPhase' = [poolPhase EXCEPT ![p] = "retired"]
      BY <1>3, PhaseAfter
    <2>2. poolPhase[p] \in {"opening", "open"}
      BY <1>3 DEF poolPhase
    <2>3. QED
      BY <1>1, <2>1, <2>2 DEF Promise!Retire, Promise!Live
  <1>4. QED
    BY <1>2, <1>3

LEMMA InitPromise == Init => Promise!PromiseInit
  BY ConstantsAssumption
     DEF Init, Promise!PromiseInit, poolPhase, tablesExist, querying

LEMMA StepPromise == IInv /\ [Next]_vars => [Promise!PromiseNext]_(Promise!promiseVars)
  <1> SUFFICES ASSUME IInv, [Next]_vars
               PROVE  Promise!PromiseNext \/ UNCHANGED Promise!promiseVars
    OBVIOUS
  <1> USE DEF facade, adapter, lock, server, task
  <1>1. TypeOK
    BY DEF IInv
  <1>2. ASSUME NEW t \in Tasks, NEW o \in Verbs, NEW l \in Loops, CallVerb(t, o, l)
        PROVE  Promise!PromiseNext \/ UNCHANGED Promise!promiseVars
    <2>1. pc[t] = "idle" /\ applied' = applied
      BY <1>2 DEF CallVerb, MakeCall, Answer, BindLoop
    <2>2. CASE EnsurePool(t)
      BY <2>1, <2>2, EnsurePoolKeepsPromise DEF Promise!PromiseNext
    <2>3. CASE Answer(t, "runtime_error") \/ BindLoop(t, l)
      BY <1>1, <2>1, <2>3, StatementKeepsPromise
         DEF Answer, BindLoop, Goto, TypeOK, Promise!PromiseNext
    <2>4. QED
      BY <1>2, <2>2, <2>3 DEF CallVerb
  <1>3. ASSUME NEW t \in Tasks, NEW l \in Loops, Enter(t, l)
        PROVE  Promise!PromiseNext \/ UNCHANGED Promise!promiseVars
    BY <1>1, <1>3, StatementKeepsPromise
       DEF Enter, MakeCall, Answer, BindLoop, Goto, TypeOK, Promise!PromiseNext
  <1>4. ASSUME NEW t \in Tasks, NEW l \in Loops, Probe(t, l)
        PROVE  Promise!PromiseNext \/ UNCHANGED Promise!promiseVars
    BY <1>4, EnsurePoolKeepsPromise DEF Probe, MakeCall, Promise!PromiseNext
  <1>5. ASSUME NEW t \in Tasks, NEW l \in Loops, Close(t, l)
        PROVE  Promise!PromiseNext \/ UNCHANGED Promise!promiseVars
    <2>1. /\ pc[t] = "idle" /\ pc'[t] \in {"done", "closing"} /\ applied' = applied
          /\ \A u \in Tasks \ {t} : pc'[u] = pc[u]
      BY <1>1, <1>5 DEF Close, MakeCall, Answer, Goto, TypeOK
    <2>2. CASE pstate' = pstate
      BY <2>1, <2>2, StatementKeepsPromise DEF Promise!PromiseNext
    <2>3. CASE pool # NoTask /\ pstate' = [pstate EXCEPT ![pool] = "closing"]
      <3>1. pool \in Tasks /\ pstate[pool] = "open" /\ pstate'[pool] = "closing"
        BY <1>1, <2>3 DEF TypeOK, IInv, PoolInv
      <3>2. \A q \in Tasks \ {pool} : pstate'[q] = pstate[q]
        BY <1>1, <2>3 DEF TypeOK
      <3>3. QED
        BY <2>1, <3>1, <3>2, PhaseKeepsPromise DEF Promise!PromiseNext
    <2>4. QED
      BY <1>5, <2>2, <2>3 DEF Close, Answer
  <1>6. ASSUME NEW t \in Tasks, LockGranted(t)
        PROVE  Promise!PromiseNext \/ UNCHANGED Promise!promiseVars
    BY <1>6, EnsurePoolKeepsPromise DEF LockGranted, Promise!PromiseNext
  <1>7. ASSUME NEW t \in Tasks, PoolCreated(t) \/ PoolCreationFails(t)
        PROVE  Promise!PromiseNext \/ UNCHANGED Promise!promiseVars
    <2>1. /\ pc[t] = "create" /\ pc'[t] \notin {"query", "query2"} /\ applied' = applied
          /\ \A u \in Tasks \ {t} : pc'[u] = pc[u] /\ pstate'[u] = pstate[u]
          /\ pstate'[t] \in {"open", "closed"}
      BY <1>1, <1>7 DEF PoolCreated, PoolCreationFails, Leave, Goto, TypeOK
    <2>2. pstate[t] = "opening"
      BY <2>1 DEF IInv, PoolInv
    <2>3. QED
      BY <2>1, <2>2, PhaseKeepsPromise DEF Promise!PromiseNext
  <1>8. ASSUME NEW t \in Tasks, SchemaStatement(t)
        PROVE  Promise!PromiseNext \/ UNCHANGED Promise!promiseVars
    <2>1. /\ pc[t] = "ddl" /\ stmt[t] < NumDDL /\ poolPhase' = poolPhase /\ querying' = querying
          /\ applied' = IF stmt[t] + 1 > applied THEN stmt[t] + 1 ELSE applied
      BY <1>8 DEF SchemaStatement, DDLLeft, poolPhase, querying
    <2>2. stmt[t] \in Nat /\ applied \in 0..NumDDL /\ NumDDL \in Nat
      BY <1>1, ConstantsAssumption DEF TypeOK
    <2>3. CASE tablesExist' = tablesExist
      BY <2>1, <2>3 DEF Promise!promiseVars
    <2>4. CASE tablesExist' # tablesExist
      <3>1. tablesExist' = TRUE
        BY <2>1, <2>2, <2>4 DEF tablesExist
      <3>2. \E p \in Tasks : poolPhase[p] \in {"open", "retired"}
        <4>1. use[t] \in Tasks /\ pstate[use[t]] \in {"open", "closing", "closed"}
          BY <2>1 DEF IInv, UseInv
        <4>2. QED
          BY <4>1 DEF poolPhase
      <3>3. QED
        BY <2>1, <3>1, <3>2 DEF Promise!Migrate, Promise!PromiseNext
    <2>5. QED
      BY <2>3, <2>4
  <1>9. ASSUME NEW t \in Tasks,
               \/ SchemaConnection(t) \/ SchemaDone(t) \/ SchemaFails(t)
               \/ Acquire(t) \/ StatementFails(t) \/ StatementReturns(t) \/ SearchAgain(t)
        PROVE  Promise!PromiseNext \/ UNCHANGED Promise!promiseVars
    <2>1. /\ pstate' = pstate /\ applied' = applied
          /\ \A u \in Tasks \ {t} : pc'[u] = pc[u]
          /\ pc'[t] \in {"query", "query2"} => pc[t] \in {"acquire", "acquire2"}
      BY <1>1, <1>9
         DEF SchemaConnection, SchemaDone, SchemaFails, Acquire, StatementFails,
             StatementReturns, SearchAgain, Leave, Goto, TypeOK
    <2>2. pc[t] \in {"acquire", "acquire2"} => applied = NumDDL
      BY DEF IInv, SchemaInv
    <2>3. QED
      BY <2>1, <2>2, StatementKeepsPromise DEF Promise!PromiseNext
  <1>10. ASSUME NEW t \in Tasks, CloseEnds(t) \/ CloseRaises(t)
         PROVE  Promise!PromiseNext \/ UNCHANGED Promise!promiseVars
    <2>1. /\ pc[t] = "closing" /\ pc' = [pc EXCEPT ![t] = "done"] /\ applied' = applied
          /\ pstate' = [pstate EXCEPT ![use[t]] = "closed"]
      BY <1>10 DEF CloseEnds, CloseRaises, PoolClosed, Goto
    <2>2. use[t] \in Tasks /\ pstate[use[t]] \in {"closing", "closed"}
      BY <2>1 DEF IInv, ClosingInv
    <2>3. querying' = querying /\ tablesExist' = tablesExist
      BY <1>1, <2>1 DEF querying, tablesExist, TypeOK
    <2>4. \A p \in Tasks :
            pstate'[p] = pstate[p] \/ {pstate[p], pstate'[p]} = {"closing", "closed"}
      BY <1>1, <2>1, <2>2 DEF TypeOK
    <2>5. QED
      BY <2>3, <2>4, Invisible
  <1>11. ASSUME NEW t \in Tasks, Cancel(t)
         PROVE  Promise!PromiseNext \/ UNCHANGED Promise!promiseVars
    <2>1. /\ pc'[t] = "cancelled" /\ applied' = applied
          /\ \A u \in Tasks \ {t} : pc'[u] = pc[u]
      BY <1>1, <1>11 DEF Cancel, Leave, Goto, TypeOK
    <2>2. \A p \in Tasks :
            pstate'[p] = IF \/ pc[t] = "create" /\ p = t
                            \/ pc[t] = "closing" /\ p = use[t]
                           THEN "closed" ELSE pstate[p]
      BY <1>11 DEF Cancel
    <2>3. CASE pc[t] = "create"
      <3>1. pstate[t] = "opening"
        BY <2>3 DEF IInv, PoolInv
      <3>2. pstate'[t] = "closed" /\ \A q \in Tasks \ {t} : pstate'[q] = pstate[q]
        BY <2>2, <2>3
      <3>3. QED
        BY <2>1, <2>3, <3>1, <3>2, PhaseKeepsPromise DEF Promise!PromiseNext
    <2>4. CASE pc[t] = "closing"
      <3>1. pstate[use[t]] \in {"closing", "closed"}
        BY <2>4 DEF IInv, ClosingInv
      <3>2. querying' = querying /\ tablesExist' = tablesExist
        BY <2>1, <2>4 DEF querying, tablesExist
      <3>3. QED
        BY <2>2, <2>4, <3>1, <3>2, Invisible
    <2>5. CASE pc[t] \notin {"create", "closing"}
      <3>1. pstate' = pstate
        <4>1. pstate' = [p \in Tasks |-> pstate[p]]
          BY <1>11, <2>5 DEF Cancel
        <4>2. QED
          BY <1>1, <4>1 DEF TypeOK
      <3>2. QED
        BY <2>1, <3>1, StatementKeepsPromise DEF Promise!PromiseNext
    <2>6. QED
      BY <2>3, <2>4, <2>5
  <1>12. CASE UNCHANGED vars
    BY <1>12 DEF vars, poolPhase, tablesExist, querying, Promise!promiseVars
  <1>13. QED
    BY <1>2, <1>3, <1>4, <1>5, <1>6, <1>7, <1>8, <1>9, <1>10, <1>11, <1>12
       DEF Next, Start, Ensure, Run

\* The lock, the awaits and the cancellations of the adapter implement the
\* promise of a lazily opened pool.
THEOREM Refinement == Spec => PoolPromiseKept
  <1>1. Init => Promise!PromiseInit
    BY InitPromise
  <1>2. IInv /\ [Next]_vars => [Promise!PromiseNext]_(Promise!promiseVars)
    BY StepPromise
  <1>3. QED
    BY <1>1, <1>2, Invariance, PTL DEF Spec, PoolPromiseKept, Promise!PromiseSpec

=============================================================================
