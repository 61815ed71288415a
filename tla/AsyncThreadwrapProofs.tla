----------------------- MODULE AsyncThreadwrapProofs -----------------------
(***************************************************************************)
(* What holds of AsyncThreadwrap for any tasks and any number of workers:  *)
(* its safety properties and that it implements CallPromise.  Everything   *)
(* rests on the order of the work queue: nothing is queued behind a        *)
(* close(), so that nothing is left when its worker has taken it.          *)
(***************************************************************************)
EXTENDS AsyncThreadwrap, SequenceTheorems, TLAPS

-----------------------------------------------------------------------------
(* The work queue: a sequence that is served in order *)

\* A sequence that holds its elements once each holds the others, in order,
\* when the first is taken off: the work items behind it.
LEMMA WithoutHead ==
    ASSUME NEW S, NEW s \in Seq(S), s # <<>>,
           \A i, j \in 1..Len(s) : s[i] = s[j] => i = j
    PROVE  /\ Tail(s) \in Seq(S) /\ 1 \in 1..Len(s) /\ Head(s) = s[1]
           /\ \A i \in 1..Len(Tail(s)) :
                /\ Tail(s)[i] # s[1]
                /\ \E j \in 1..Len(s) : Tail(s)[i] = s[j]
           /\ \A i, j \in 1..Len(Tail(s)) : Tail(s)[i] = Tail(s)[j] => i = j
           /\ \A j \in 1..Len(s) \ {1} : \E i \in 1..Len(Tail(s)) : Tail(s)[i] = s[j]
           /\ Len(s) # 1 => Tail(s)[Len(Tail(s))] = s[Len(s)]
           /\ Len(s) = 1 => Tail(s) = <<>>
  <1>1. Len(s) \in Nat \ {0} /\ Head(s) = s[1]
    BY LenProperties, EmptySeq, HeadTailProperties
  <1>2. /\ Tail(s) \in Seq(S) /\ Len(Tail(s)) = Len(s) - 1
        /\ \A i \in 1..Len(Tail(s)) : Tail(s)[i] = s[i + 1]
    BY HeadTailProperties
  <1>3. ASSUME NEW j \in 1..Len(s) \ {1}
        PROVE  \E i \in 1..Len(Tail(s)) : Tail(s)[i] = s[j]
    <2>1. j - 1 \in 1..Len(Tail(s)) /\ (j - 1) + 1 = j
      BY <1>1, <1>2
    <2>2. QED BY <1>2, <2>1
  <1>4. \A i \in 1..Len(Tail(s)) : i + 1 \in 1..Len(s) /\ i + 1 # 1
    BY <1>1, <1>2
  <1>5. \A i \in 1..Len(Tail(s)) : Tail(s)[i] # s[1] /\ \E j \in 1..Len(s) : Tail(s)[i] = s[j]
    BY <1>1, <1>2, <1>4
  <1>6. \A i, j \in 1..Len(Tail(s)) : Tail(s)[i] = Tail(s)[j] => i = j
    <2>1. ASSUME NEW i \in 1..Len(Tail(s)), NEW j \in 1..Len(Tail(s)), Tail(s)[i] = Tail(s)[j]
          PROVE  i = j
      <3>1. i + 1 = j + 1
        BY <1>2, <1>4, <2>1
      <3>2. QED BY <1>1, <1>2, <3>1
    <2>2. QED BY <2>1
  <1>7. Len(s) # 1 => Tail(s)[Len(Tail(s))] = s[Len(s)]
    BY <1>1, <1>2
  <1>8. Len(s) = 1 => Tail(s) = <<>>
    <2>1. Tail(s) # <<>> => Len(Tail(s)) \in Nat \ {0}
      BY <1>2, EmptySeq
    <2>2. Len(s) = 1 => Len(Tail(s)) = 0
      BY <1>2
    <2>3. QED BY <2>1, <2>2
  <1>9. QED BY <1>1, <1>2, <1>3, <1>5, <1>6, <1>7, <1>8

\* An element that is new to such a sequence, at its end: a work item submitted.
LEMMA WithLast ==
    ASSUME NEW S, NEW s \in Seq(S), NEW e \in S, \A i \in 1..Len(s) : s[i] # e,
           \A i, j \in 1..Len(s) : s[i] = s[j] => i = j
    PROVE  /\ Append(s, e) \in Seq(S)
           /\ \A i, j \in 1..Len(Append(s, e)) : Append(s, e)[i] = Append(s, e)[j] => i = j
           /\ \A i \in 1..Len(Append(s, e)) :
                Append(s, e)[i] = e \/ \E j \in 1..Len(s) : Append(s, e)[i] = s[j]
           /\ \A j \in 1..Len(s) : \E i \in 1..Len(Append(s, e)) : Append(s, e)[i] = s[j]
           /\ Len(Append(s, e)) \in 1..Len(Append(s, e))
           /\ Append(s, e)[Len(Append(s, e))] = e
  <1>1. Len(s) \in Nat
    BY LenProperties
  <1>2. /\ Append(s, e) \in Seq(S) /\ Len(Append(s, e)) = Len(s) + 1
        /\ \A i \in 1..Len(s) : Append(s, e)[i] = s[i]
        /\ Append(s, e)[Len(s) + 1] = e
    BY AppendProperties
  <1>3. \A i \in 1..(Len(s) + 1) : i \in 1..Len(s) \/ i = Len(s) + 1
    BY <1>1
  <1>4. \A i \in 1..Len(s) : i \in 1..(Len(s) + 1)
    BY <1>1
  <1>5. Len(s) + 1 \in 1..(Len(s) + 1)
    BY <1>1
  <1>6. QED BY <1>2, <1>3, <1>4, <1>5

-----------------------------------------------------------------------------
(* The invariant *)

Ran == {"running", "returned", "raised"}

\* The queue holds the calls that are pending, and some that were cancelled,
\* once each.
QueueInv ==
    /\ \A i, j \in 1..Len(queue) : queue[i] = queue[j] => i = j
    /\ \A i \in 1..Len(queue) : fut[queue[i]] \in {"pending", "cancelled"}
    /\ \A t \in Tasks : fut[t] = "pending" =>
         pc[t] = "waiting" /\ \E i \in 1..Len(queue) : queue[i] = t

\* How a caller and its future go together.
CallInv ==
    \A t \in Tasks :
        /\ pc[t] = "idle" <=> op[t] = "none"
        /\ pc[t] \in {"idle", "runtime_error"} => fut[t] = "none"
        /\ pc[t] = "waiting" => fut[t] # "none"
        /\ pc[t] = "cancelled" => fut[t] \notin {"none", "pending"}
        /\ pc[t] \in {"done", "error"} /\ op[t] = "verb" => fut[t] \in {"returned", "raised"}
        /\ fut[t] # "none" => executor # "none"
        /\ has_close /\ fut[t] = "cancelled" => pc[t] = "cancelled"

\* At most one close() has a work item; it is the last one.
CloserInv ==
    /\ \A t, u \in Tasks :
         op[t] = "close" /\ op[u] = "close" /\ fut[t] # "none" /\ fut[u] # "none" => t = u
    /\ \A t \in Tasks : op[t] = "close" /\ fut[t] # "none" =>
         /\ has_close
         /\ fut[t] = "pending" => sync_closed = 0 /\ queue[Len(queue)] = t
         /\ fut[t] \in Ran => sync_closed = 1

\* What closed, the executor and the synchronous adapter say of each other.
ClosedInv ==
    /\ ~closed => sync_closed = 0 /\ executor # "down" /\ \A t \in Tasks : op[t] # "close"
    /\ sync_closed # 0 \/ executor = "down" => queue = <<>>
    /\ closed /\ executor = "up" =>
         has_close /\ \E t \in Tasks : op[t] = "close" /\ pc[t] \in {"waiting", "cancelled"}
    /\ closed /\ has_close =>
         sync_closed = 1 \/ \E t \in Tasks : op[t] = "close" /\ fut[t] \in {"pending", "cancelled"}

IInv == TypeOK /\ QueueInv /\ CallInv /\ CloserInv /\ ClosedInv

-----------------------------------------------------------------------------
(* The steps of a call *)

\* Submitting a call that has no future yet.
LEMMA SubmitQueue ==
    ASSUME TypeOK, QueueInv, CallInv, NEW t \in Tasks, pc[t] = "idle", Submit(t)
    PROVE  /\ queue' \in Seq(Tasks) /\ QueueInv' /\ queue'[Len(queue')] = t
           /\ fut' \in [Tasks -> {"none", "pending", "running", "returned", "raised", "cancelled"}]
           /\ pc' \in [Tasks -> {"idle", "waiting"} \cup Ended]
           /\ \A u \in Tasks : /\ fut'[u] = IF u = t THEN "pending" ELSE fut[u]
                               /\ pc'[u] = IF u = t THEN "waiting" ELSE pc[u]
  <1>1. fut[t] = "none"
    BY DEF CallInv
  <1>2. \A i \in 1..Len(queue) : queue[i] # t
    BY <1>1 DEF QueueInv
  <1>3. queue \in Seq(Tasks) /\ queue' = Append(queue, t)
    BY DEF TypeOK, Submit, Submitted
  <1>4. \A u \in Tasks : /\ fut'[u] = IF u = t THEN "pending" ELSE fut[u]
                         /\ pc'[u] = IF u = t THEN "waiting" ELSE pc[u]
    BY DEF TypeOK, Submit, Goto
  <1>5. /\ fut' \in [Tasks -> {"none", "pending", "running", "returned", "raised", "cancelled"}]
        /\ pc' \in [Tasks -> {"idle", "waiting"} \cup Ended]
    BY DEF TypeOK, Submit, Goto
  <1>6. /\ queue' \in Seq(Tasks)
        /\ \A i, j \in 1..Len(queue') : queue'[i] = queue'[j] => i = j
        /\ \A i \in 1..Len(queue') : queue'[i] = t \/ \E j \in 1..Len(queue) : queue'[i] = queue[j]
        /\ \A j \in 1..Len(queue) : \E i \in 1..Len(queue') : queue'[i] = queue[j]
        /\ Len(queue') \in 1..Len(queue') /\ queue'[Len(queue')] = t
    BY <1>2, <1>3, WithLast DEF QueueInv
  <1>7. \A i \in 1..Len(queue) : queue[i] \in Tasks
    BY <1>3, ElementOfSeq
  <1>8. QueueInv'
    <2>1. \A i \in 1..Len(queue') : fut'[queue'[i]] \in {"pending", "cancelled"}
      BY <1>2, <1>4, <1>6, <1>7 DEF QueueInv
    <2>2. ASSUME NEW u \in Tasks, fut'[u] = "pending"
          PROVE  pc'[u] = "waiting" /\ \E i \in 1..Len(queue') : queue'[i] = u
      <3>1. CASE u = t
        BY <1>4, <1>6, <3>1
      <3>2. CASE u # t
        BY <1>4, <1>6, <2>2, <3>2 DEF QueueInv
      <3>3. QED BY <3>1, <3>2
    <2>3. QED BY <1>6, <2>1, <2>2 DEF QueueInv
  <1>9. QED BY <1>4, <1>5, <1>6, <1>8

LEMMA CallVerbStep ==
    ASSUME IInv, NEW t \in Tasks, CallVerb(t)
    PROVE  IInv'
  <1> USE DEF IInv
  <1>1. pc[t] = "idle" /\ fut[t] = "none" /\ op[t] = "none"
    BY DEF CallVerb, CallInv
  <1>2. /\ op' \in [Tasks -> Operations \cup {"none"}]
        /\ \A u \in Tasks : op'[u] = IF u = t THEN "verb" ELSE op[u]
    BY DEF CallVerb, TypeOK, Operations
  <1>3. CASE /\ CheckOpen /\ executor # "down" /\ executor' = ExecutorEnsured
             /\ Submit(t) /\ UNCHANGED <<has_close, closed, sync_closed>>
    <2>1. /\ queue' \in Seq(Tasks) /\ QueueInv'
          /\ fut' \in [Tasks -> {"none", "pending", "running", "returned", "raised", "cancelled"}]
          /\ pc' \in [Tasks -> {"idle", "waiting"} \cup Ended]
          /\ \A u \in Tasks : /\ fut'[u] = IF u = t THEN "pending" ELSE fut[u]
                              /\ pc'[u] = IF u = t THEN "waiting" ELSE pc[u]
      BY <1>1, <1>3, SubmitQueue
    <2>2. executor' = "up"
      BY <1>3 DEF ExecutorEnsured, TypeOK
    <2>3. TypeOK'
      BY <1>2, <1>3, <2>1, <2>2 DEF TypeOK
    <2>4. CallInv'
      BY <1>1, <1>2, <1>3, <2>1, <2>2 DEF CallInv
    <2>5. ~closed /\ sync_closed = 0 /\ \A u \in Tasks : op'[u] # "close"
      BY <1>2, <1>3 DEF CheckOpen, ClosedInv
    <2>6. CloserInv' /\ ClosedInv'
      BY <1>3, <2>2, <2>5 DEF CloserInv, ClosedInv
    <2>7. QED BY <2>1, <2>3, <2>4, <2>6
  <1>4. CASE Rejected(t)
    <2>1. /\ pc' \in [Tasks -> {"idle", "waiting"} \cup Ended]
          /\ \A u \in Tasks : pc'[u] = IF u = t THEN "runtime_error" ELSE pc[u]
          /\ UNCHANGED <<has_close, closed, executor, queue, fut, sync_closed>>
      BY <1>4 DEF Rejected, Goto, TypeOK, Ended
    <2>2. TypeOK'
      BY <1>2, <2>1 DEF TypeOK
    <2>3. QueueInv'
      BY <1>1, <2>1 DEF QueueInv
    <2>4. CallInv'
      BY <1>1, <1>2, <2>1 DEF CallInv
    <2>5. CloserInv'
      BY <1>1, <1>2, <2>1 DEF CloserInv
    <2>6. ClosedInv'
      BY <1>1, <1>2, <2>1 DEF ClosedInv
    <2>7. QED BY <2>2, <2>3, <2>4, <2>5, <2>6
  <1>5. QED BY <1>3, <1>4 DEF CallVerb

\* shutdown() cancels the calls that are pending and no others.
LEMMA DropQueueEffect ==
    ASSUME TypeOK, QueueInv, DropQueue
    PROVE  /\ queue' = <<>> /\ queue' \in Seq(Tasks)
           /\ fut' \in [Tasks -> {"none", "pending", "running", "returned", "raised", "cancelled"}]
           /\ \A u \in Tasks : fut'[u] = IF fut[u] = "pending" THEN "cancelled" ELSE fut[u]
           /\ queue = <<>> => \A u \in Tasks : fut[u] # "pending"
  <1>1. \A u \in Tasks : /\ fut[u] = "pending" => Contains(queue, u)
                         /\ Contains(queue, u) => fut[u] \in {"pending", "cancelled"}
    BY DEF QueueInv, Contains
  <1>2. queue = <<>> => \A u \in Tasks : ~ Contains(queue, u)
    <2>1. Len(<<>>) = 0
      BY EmptySeq
    <2>2. QED BY <2>1 DEF Contains
  <1>3. <<>> \in Seq(Tasks)
    BY EmptySeq
  <1>4. QED BY <1>1, <1>2, <1>3 DEF DropQueue, TypeOK

LEMMA CloseStep ==
    ASSUME IInv, NEW t \in Tasks, Close(t)
    PROVE  IInv'
  <1> USE DEF IInv
  <1>1. pc[t] = "idle" /\ fut[t] = "none" /\ op[t] = "none" /\ closed' = TRUE
        /\ UNCHANGED has_close
    BY DEF Close, CallInv
  <1>2. /\ op' \in [Tasks -> Operations \cup {"none"}]
        /\ \A u \in Tasks : op'[u] = IF u = t THEN "close" ELSE op[u]
    BY DEF Close, TypeOK, Operations
  <1>3. Goto(t, "done") => /\ pc' \in [Tasks -> {"idle", "waiting"} \cup Ended]
                           /\ \A u \in Tasks : pc'[u] = IF u = t THEN "done" ELSE pc[u]
    BY DEF Goto, TypeOK, Ended
  <1>4. Len(<<>>) = 0 /\ <<>> \in Seq(Tasks)
    BY EmptySeq
  <1>5. CASE AlreadyClosed /\ Goto(t, "done") /\ UNCHANGED <<executor, queue, fut, sync_closed>>
    <2>1. closed
      BY <1>5 DEF AlreadyClosed
    <2>2. TypeOK'
      BY <1>1, <1>2, <1>3, <1>5 DEF TypeOK
    <2>3. QueueInv'
      BY <1>1, <1>3, <1>5 DEF QueueInv
    <2>4. CallInv'
      BY <1>1, <1>2, <1>3, <1>5 DEF CallInv
    <2>5. CloserInv'
      BY <1>1, <1>2, <1>5 DEF CloserInv
    <2>6. ClosedInv'
      <3>1. \A u \in Tasks : op[u] = "close" => u # t
        BY <1>1
      <3>2. QED BY <1>1, <1>2, <1>3, <1>5, <2>1, <3>1 DEF ClosedInv
    <2>7. QED BY <2>2, <2>3, <2>4, <2>5, <2>6
  <1>6. ASSUME ~ AlreadyClosed
        PROVE  /\ ~ closed /\ sync_closed = 0 /\ executor # "down"
               /\ \A u \in Tasks : op'[u] = "close" => u = t
    BY <1>2, <1>6 DEF AlreadyClosed, ClosedInv
  <1>7. CASE /\ ~AlreadyClosed /\ executor = "none"
             /\ sync_closed' = IF has_close THEN sync_closed + 1 ELSE sync_closed
             /\ Goto(t, "done") /\ UNCHANGED <<executor, queue, fut>>
    <2>1. sync_closed' = IF has_close THEN 1 ELSE 0
      BY <1>6, <1>7
    <2>2. queue = <<>>
      <3>1. \A u \in Tasks : fut[u] = "none"
        BY <1>7 DEF CallInv
      <3>2. \A i \in 1..Len(queue) : queue[i] \in Tasks
        BY ElementOfSeq DEF TypeOK
      <3>3. \A i \in 1..Len(queue) : FALSE
        BY <3>1, <3>2 DEF QueueInv
      <3>4. queue # <<>> => Len(queue) \in Nat \ {0}
        BY EmptySeq DEF TypeOK
      <3>5. QED BY <3>3, <3>4
    <2>3. TypeOK'
      BY <1>1, <1>2, <1>3, <1>7, <2>1 DEF TypeOK
    <2>4. QueueInv'
      BY <1>1, <1>3, <1>7 DEF QueueInv
    <2>5. CallInv'
      BY <1>1, <1>2, <1>3, <1>7 DEF CallInv
    <2>6. CloserInv'
      BY <1>1, <1>2, <1>6, <1>7 DEF CloserInv
    <2>7. ClosedInv'
      BY <1>1, <1>7, <2>1, <2>2 DEF ClosedInv
    <2>8. QED BY <2>3, <2>4, <2>5, <2>6, <2>7
  <1>8. CASE /\ ~AlreadyClosed /\ executor # "none" /\ has_close
             /\ Submit(t) /\ UNCHANGED <<executor, sync_closed>>
    <2>1. /\ queue' \in Seq(Tasks) /\ QueueInv' /\ queue'[Len(queue')] = t
          /\ fut' \in [Tasks -> {"none", "pending", "running", "returned", "raised", "cancelled"}]
          /\ pc' \in [Tasks -> {"idle", "waiting"} \cup Ended]
          /\ \A u \in Tasks : /\ fut'[u] = IF u = t THEN "pending" ELSE fut[u]
                              /\ pc'[u] = IF u = t THEN "waiting" ELSE pc[u]
      BY <1>1, <1>8, SubmitQueue
    <2>2. executor = "up" /\ sync_closed = 0
      BY <1>6, <1>8 DEF TypeOK
    <2>3. TypeOK'
      BY <1>1, <1>2, <1>8, <2>1 DEF TypeOK
    <2>4. CallInv'
      BY <1>1, <1>2, <1>8, <2>1 DEF CallInv
    <2>5. CloserInv'
      BY <1>1, <1>6, <1>8, <2>1, <2>2 DEF CloserInv, Ran
    <2>6. ClosedInv'
      BY <1>1, <1>2, <1>8, <2>1, <2>2 DEF ClosedInv
    <2>7. QED BY <2>1, <2>3, <2>4, <2>5, <2>6
  <1>9. CASE /\ ~AlreadyClosed /\ executor # "none" /\ ~has_close
             /\ executor' = "down" /\ DropQueue /\ Goto(t, "done") /\ UNCHANGED sync_closed
    <2>1. /\ queue' = <<>> /\ queue' \in Seq(Tasks)
          /\ fut' \in [Tasks -> {"none", "pending", "running", "returned", "raised", "cancelled"}]
          /\ \A u \in Tasks : fut'[u] = IF fut[u] = "pending" THEN "cancelled" ELSE fut[u]
      BY <1>9, DropQueueEffect
    <2>2. TypeOK'
      BY <1>1, <1>2, <1>3, <1>9, <2>1 DEF TypeOK
    <2>3. QueueInv'
      BY <1>4, <2>1 DEF QueueInv
    <2>4. CallInv'
      BY <1>1, <1>2, <1>3, <1>9, <2>1 DEF CallInv
    <2>5. CloserInv'
      BY <1>1, <1>6, <1>9, <2>1 DEF CloserInv
    <2>6. ClosedInv'
      BY <1>1, <1>9, <2>1 DEF ClosedInv
    <2>7. QED BY <2>2, <2>3, <2>4, <2>5, <2>6
  <1>10. QED BY <1>5, <1>7, <1>8, <1>9 DEF Close

LEMMA AnswerVerbStep ==
    ASSUME IInv, NEW t \in Tasks, AnswerVerb(t)
    PROVE  IInv'
  <1> USE DEF IInv
  <1>1. /\ pc[t] = "waiting" /\ op[t] = "verb"
        /\ UNCHANGED <<has_close, closed, executor, queue, fut, sync_closed, op>>
        /\ \/ fut[t] = "returned" /\ Goto(t, "done")
           \/ fut[t] = "raised" /\ Goto(t, "error")
           \/ fut[t] = "cancelled" /\ Goto(t, "cancelled")
    BY DEF AnswerVerb, Wakes
  <1>2. PICK w \in {"done", "error", "cancelled"} :
          /\ Goto(t, w)
          /\ w \in {"done", "error"} => fut[t] \in {"returned", "raised"}
          /\ w = "cancelled" => fut[t] = "cancelled"
    BY <1>1
  <1>3. /\ pc' \in [Tasks -> {"idle", "waiting"} \cup Ended]
        /\ \A u \in Tasks : pc'[u] = IF u = t THEN w ELSE pc[u]
    BY <1>2 DEF Goto, TypeOK, Ended
  <1>4. fut[t] # "pending"
    BY <1>1
  <1>5. TypeOK'
    BY <1>1, <1>3 DEF TypeOK
  <1>6. QueueInv'
    BY <1>1, <1>3, <1>4 DEF QueueInv
  <1>7. CallInv'
    BY <1>1, <1>2, <1>3 DEF CallInv
  <1>8. CloserInv' /\ ClosedInv'
    BY <1>1, <1>3 DEF CloserInv, ClosedInv
  <1>9. QED BY <1>5, <1>6, <1>7, <1>8

LEMMA CloseResumesStep ==
    ASSUME IInv, NEW t \in Tasks, CloseResumes(t)
    PROVE  IInv' /\ UNCHANGED fut /\ queue = <<>>
  <1> USE DEF IInv
  <1>1. /\ pc[t] = "waiting" /\ op[t] = "close" /\ fut[t] \in {"returned", "raised"}
        /\ executor' = "down" /\ DropQueue /\ Goto(t, "done")
        /\ UNCHANGED <<has_close, closed, sync_closed, op>>
    BY DEF CloseResumes
  <1>2. has_close /\ sync_closed = 1 /\ closed
    BY <1>1 DEF CloserInv, ClosedInv, Ran
  <1>3. queue = <<>> /\ queue' = <<>> /\ queue' \in Seq(Tasks)
    BY <1>1, <1>2, DropQueueEffect DEF ClosedInv
  <1>4. fut' \in [Tasks -> {"none", "pending", "running", "returned", "raised", "cancelled"}]
        /\ \A u \in Tasks : fut'[u] = fut[u] /\ fut[u] # "pending"
    BY <1>1, <1>3, DropQueueEffect
  <1>5. /\ pc' \in [Tasks -> {"idle", "waiting"} \cup Ended]
        /\ \A u \in Tasks : pc'[u] = IF u = t THEN "done" ELSE pc[u]
    BY <1>1 DEF Goto, TypeOK, Ended
  <1>6. fut' = fut
    BY <1>4 DEF TypeOK
  <1>7. TypeOK'
    BY <1>1, <1>3, <1>4, <1>5 DEF TypeOK
  <1>8. QueueInv'
    BY <1>3, <1>4, EmptySeq DEF QueueInv
  <1>9. CallInv'
    BY <1>1, <1>4, <1>5 DEF CallInv
  <1>10. CloserInv' /\ ClosedInv'
    BY <1>1, <1>2, <1>3, <1>4 DEF CloserInv, ClosedInv
  <1>11. QED BY <1>3, <1>6, <1>7, <1>8, <1>9, <1>10

LEMMA SyncCallEndsStep ==
    ASSUME IInv, NEW t \in Tasks, NEW outcome \in {"returned", "raised"}, SyncCallEnds(t, outcome)
    PROVE  IInv'
  <1> USE DEF IInv
  <1>1. /\ fut[t] = "running"
        /\ fut' \in [Tasks -> {"none", "pending", "running", "returned", "raised", "cancelled"}]
        /\ \A u \in Tasks : fut'[u] = IF u = t THEN outcome ELSE fut[u]
        /\ UNCHANGED <<has_close, closed, executor, queue, sync_closed, op, pc>>
    BY DEF SyncCallEnds, TypeOK
  <1>2. TypeOK'
    BY <1>1 DEF TypeOK
  <1>3. QueueInv'
    <2>1. \A i \in 1..Len(queue) : queue[i] \in Tasks
      BY ElementOfSeq DEF TypeOK
    <2>2. QED BY <1>1, <2>1 DEF QueueInv
  <1>4. CallInv'
    BY <1>1 DEF CallInv
  <1>5. CloserInv'
    BY <1>1 DEF CloserInv, Ran
  <1>6. ClosedInv'
    BY <1>1 DEF ClosedInv
  <1>7. QED BY <1>2, <1>3, <1>4, <1>5, <1>6

\* The queue without its head t.
LEMMA QueueServed ==
    ASSUME TypeOK, QueueInv, NEW t \in Tasks, Take(t)
    PROVE  /\ queue' \in Seq(Tasks) /\ 1 \in 1..Len(queue) /\ queue[1] = t
           /\ \A i \in 1..Len(queue') : queue'[i] # t /\ \E j \in 1..Len(queue) : queue'[i] = queue[j]
           /\ \A i, j \in 1..Len(queue') : queue'[i] = queue'[j] => i = j
           /\ \A j \in 1..Len(queue) \ {1} : \E i \in 1..Len(queue') : queue'[i] = queue[j]
           /\ Len(queue) # 1 => queue'[Len(queue')] = queue[Len(queue)]
           /\ Len(queue) = 1 => queue' = <<>>
  <1>1. queue # <<>> /\ Head(queue) = t /\ queue' = Tail(queue)
    BY DEF Take
  <1>2. queue \in Seq(Tasks) /\ \A i, j \in 1..Len(queue) : queue[i] = queue[j] => i = j
    BY DEF TypeOK, QueueInv
  <1> DEFINE rest == Tail(queue)
  <1>3. /\ rest \in Seq(Tasks) /\ 1 \in 1..Len(queue) /\ Head(queue) = queue[1]
        /\ \A i \in 1..Len(rest) :
             /\ rest[i] # queue[1]
             /\ \E j \in 1..Len(queue) : rest[i] = queue[j]
        /\ \A i, j \in 1..Len(rest) : rest[i] = rest[j] => i = j
        /\ \A j \in 1..Len(queue) \ {1} : \E i \in 1..Len(rest) : rest[i] = queue[j]
        /\ Len(queue) # 1 => rest[Len(rest)] = queue[Len(queue)]
        /\ Len(queue) = 1 => rest = <<>>
    BY <1>1, <1>2, WithoutHead
  <1> HIDE DEF rest
  <1>4. queue' = rest /\ queue[1] = t
    BY <1>1, <1>3 DEF rest
  <1>5. QED BY <1>3, <1>4

\* A worker runs the first call of the queue, or lets go of a cancelled one.
LEMMA TakeStep ==
    ASSUME IInv, NEW t \in Tasks, Take(t)
    PROVE  /\ IInv'
           /\ \/ /\ fut[t] = "pending" /\ sync_closed = 0
                 /\ \A u \in Tasks : fut'[u] = IF u = t THEN "running" ELSE fut[u]
              \/ UNCHANGED fut
  <1> USE DEF IInv
  <1>1. UNCHANGED <<has_close, closed, executor, op, pc>>
    BY DEF Take
  <1>2. /\ queue' \in Seq(Tasks) /\ 1 \in 1..Len(queue) /\ queue[1] = t
        /\ \A i \in 1..Len(queue') : queue'[i] # t /\ \E j \in 1..Len(queue) : queue'[i] = queue[j]
        /\ \A i, j \in 1..Len(queue') : queue'[i] = queue'[j] => i = j
        /\ \A j \in 1..Len(queue) \ {1} : \E i \in 1..Len(queue') : queue'[i] = queue[j]
        /\ Len(queue) # 1 => queue'[Len(queue')] = queue[Len(queue)]
        /\ Len(queue) = 1 => queue' = <<>>
    BY QueueServed
  <1>3. \A i \in 1..Len(queue) : queue[i] \in Tasks
    BY ElementOfSeq DEF TypeOK
  <1>4. fut[t] \in {"pending", "cancelled"}
    BY <1>2 DEF QueueInv
  <1>5. sync_closed = 0 /\ executor # "down"
    BY <1>2, EmptySeq DEF Take, ClosedInv
  <1>6. QueueInv'
    <2>1. \A u \in Tasks : u # t => fut'[u] = fut[u]
      BY DEF Take, TypeOK
    <2>2. fut'[t] # "pending"
      BY DEF Take, Runs, TypeOK
    <2>3. ASSUME NEW i \in 1..Len(queue')
          PROVE  fut'[queue'[i]] \in {"pending", "cancelled"}
      <3>1. queue'[i] # t /\ \E j \in 1..Len(queue) : queue'[i] = queue[j]
        BY <1>2
      <3>2. queue'[i] \in Tasks /\ fut[queue'[i]] \in {"pending", "cancelled"}
        BY <1>3, <3>1 DEF QueueInv
      <3>3. QED BY <2>1, <3>1, <3>2
    <2>4. ASSUME NEW u \in Tasks, fut'[u] = "pending"
          PROVE  pc'[u] = "waiting" /\ \E i \in 1..Len(queue') : queue'[i] = u
      <3>1. u # t /\ fut[u] = "pending"
        BY <2>1, <2>2, <2>4
      <3>2. PICK j \in 1..Len(queue) : queue[j] = u
        BY <3>1 DEF QueueInv
      <3>3. j # 1
        BY <1>2, <3>1, <3>2
      <3>4. QED BY <1>1, <1>2, <3>1, <3>2, <3>3 DEF QueueInv
    <2>5. QED BY <1>2, <2>3, <2>4 DEF QueueInv
  <1>7. ASSUME NEW u \in Tasks, op[u] = "close", fut[u] = "pending"
        PROVE  /\ u = t => queue' = <<>>
               /\ u # t => queue'[Len(queue')] = u
    <2>1. queue[Len(queue)] = u /\ Len(queue) \in 1..Len(queue)
      BY <1>2, <1>7, LenProperties DEF CloserInv, TypeOK
    <2>2. u = t => Len(queue) = 1
      BY <1>2, <2>1 DEF QueueInv
    <2>3. u # t => Len(queue) # 1
      BY <1>2, <2>1
    <2>4. QED BY <1>2, <2>1, <2>2, <2>3
  <1>8. CASE Runs(t)
    <2>1. /\ fut' \in [Tasks -> {"none", "pending", "running", "returned", "raised", "cancelled"}]
          /\ \A u \in Tasks : fut'[u] = IF u = t THEN "running" ELSE fut[u]
          /\ sync_closed' = IF op[t] = "close" THEN 1 ELSE 0
      BY <1>5, <1>8 DEF Take, TypeOK
    <2>2. fut[t] = "pending"
      BY <1>4, <1>8 DEF Runs
    <2>3. TypeOK'
      BY <1>1, <1>2, <2>1 DEF TypeOK
    <2>4. CallInv'
      BY <1>1, <2>1, <2>2 DEF CallInv
    <2>5. CloserInv'
      <3>1. ASSUME NEW u \in Tasks, op[u] = "close", fut'[u] = "pending"
            PROVE  sync_closed' = 0 /\ queue'[Len(queue')] = u
        <4>1. u # t /\ fut[u] = "pending"
          BY <2>1, <3>1
        <4>2. op[t] # "close"
          BY <2>2, <3>1, <4>1 DEF CloserInv
        <4>3. QED BY <1>7, <2>1, <3>1, <4>1, <4>2
      <3>2. \A u \in Tasks : op[u] = "close" /\ fut'[u] \in Ran => sync_closed' = 1
        BY <1>5, <2>1, <2>2 DEF CloserInv, Ran
      <3>3. \A u \in Tasks : fut'[u] # "none" <=> fut[u] # "none"
        BY <2>1, <2>2
      <3>4. QED BY <1>1, <3>1, <3>2, <3>3 DEF CloserInv
    <2>6. ClosedInv'
      <3>1. sync_closed' # 0 \/ executor' = "down" => queue' = <<>>
        BY <1>1, <1>5, <1>7, <2>1, <2>2
      <3>2. ASSUME closed, has_close
            PROVE  sync_closed' = 1 \/ \E u \in Tasks : op[u] = "close" /\ fut'[u] \in {"pending", "cancelled"}
        BY <1>5, <2>1, <3>2 DEF ClosedInv
      <3>3. QED BY <1>1, <2>1, <3>1, <3>2 DEF ClosedInv
    <2>7. QED BY <1>5, <1>6, <2>1, <2>2, <2>3, <2>4, <2>5, <2>6
  <1>9. CASE ~ Runs(t)
    <2>1. UNCHANGED <<fut, sync_closed>>
      BY <1>9 DEF Take
    <2>2. fut[t] # "pending"
      BY <1>9 DEF Runs
    <2>3. TypeOK'
      BY <1>1, <1>2, <2>1 DEF TypeOK
    <2>4. CallInv'
      BY <1>1, <2>1 DEF CallInv
    <2>5. CloserInv'
      BY <1>1, <1>7, <2>1, <2>2 DEF CloserInv
    <2>6. ClosedInv'
      BY <1>1, <1>5, <2>1 DEF ClosedInv
    <2>7. QED BY <1>6, <2>1, <2>3, <2>4, <2>5, <2>6
  <1>10. QED BY <1>8, <1>9

LEMMA CancelStep ==
    ASSUME IInv, NEW t \in Tasks, Cancel(t)
    PROVE  /\ IInv'
           /\ pc[t] = "waiting" /\ \A u \in Tasks : pc'[u] = IF u = t THEN "cancelled" ELSE pc[u]
           /\ \A u \in Tasks : fut'[u] = IF u = t /\ fut[u] = "pending" THEN "cancelled" ELSE fut[u]
  <1> USE DEF IInv
  <1>1. pc[t] = "waiting" /\ UNCHANGED <<has_close, closed, executor, queue, sync_closed, op>>
    BY DEF Cancel
  <1>2. /\ fut' \in [Tasks -> {"none", "pending", "running", "returned", "raised", "cancelled"}]
        /\ \A u \in Tasks : fut'[u] = IF u = t /\ fut[u] = "pending" THEN "cancelled" ELSE fut[u]
    BY DEF Cancel, TypeOK
  <1>3. /\ pc' \in [Tasks -> {"idle", "waiting"} \cup Ended]
        /\ \A u \in Tasks : pc'[u] = IF u = t THEN "cancelled" ELSE pc[u]
    BY DEF Cancel, Goto, TypeOK, Ended
  <1>4. \A i \in 1..Len(queue) : queue[i] \in Tasks
    BY ElementOfSeq DEF TypeOK
  <1>5. TypeOK'
    BY <1>1, <1>2, <1>3 DEF TypeOK
  <1>6. QueueInv'
    BY <1>1, <1>2, <1>3, <1>4 DEF QueueInv
  <1>7. CallInv'
    BY <1>1, <1>2, <1>3 DEF CallInv
  <1>8. CloserInv'
    BY <1>1, <1>2 DEF CloserInv, Ran
  <1>9. ClosedInv'
    BY <1>1, <1>2, <1>3 DEF ClosedInv
  <1>10. QED BY <1>1, <1>2, <1>3, <1>5, <1>6, <1>7, <1>8, <1>9

-----------------------------------------------------------------------------
(* Theorems *)

LEMMA InitInv ==
    ASSUME Init
    PROVE  IInv
  <1> USE DEF Init
  <1>1. <<>> \in Seq(Tasks) /\ Len(<<>>) = 0
    BY EmptySeq
  <1>2. TypeOK
    <2>1. /\ executor \in {"none", "up", "down"} /\ sync_closed \in 0..1 /\ queue \in Seq(Tasks)
          /\ fut \in [Tasks -> {"none", "pending", "running", "returned", "raised", "cancelled"}]
          /\ op \in [Tasks -> Operations \cup {"none"}]
          /\ pc \in [Tasks -> {"idle", "waiting"} \cup Ended]
      BY <1>1
    <2>2. has_close \in BOOLEAN /\ closed \in BOOLEAN
      BY Zenon
    <2>3. QED BY <2>1, <2>2, Zenon DEF TypeOK
  <1>3. QueueInv /\ CallInv /\ CloserInv /\ ClosedInv
    BY <1>1 DEF QueueInv, CallInv, CloserInv, ClosedInv
  <1>4. QED BY <1>2, <1>3 DEF IInv

LEMMA Inductive ==
    ASSUME IInv, [Next]_vars
    PROVE  IInv'
  <1>1. CASE UNCHANGED vars
    <2>1. TypeOK'
      BY <1>1 DEF vars, IInv, TypeOK
    <2>2. QueueInv'
      BY <1>1 DEF vars, IInv, QueueInv
    <2>3. CallInv'
      BY <1>1 DEF vars, IInv, CallInv
    <2>4. CloserInv' /\ ClosedInv'
      BY <1>1 DEF vars, IInv, CloserInv, ClosedInv
    <2>5. QED BY <2>1, <2>2, <2>3, <2>4 DEF IInv
  <1>2. ASSUME NEW t \in Tasks, Work(t)
        PROVE  IInv'
    BY <1>2, TakeStep, SyncCallEndsStep DEF Work
  <1>3. ASSUME NEW t \in Tasks, Resume(t)
        PROVE  IInv'
    BY <1>3, AnswerVerbStep, CloseResumesStep DEF Resume
  <1>4. QED BY <1>1, <1>2, <1>3, CallVerbStep, CloseStep, CancelStep DEF Next

\* The inductive invariant: the queue, the futures, the callers and close() go
\* together as its parts say (_run(), close()).
THEOREM Invariance == Spec => []IInv
  <1>1. Init => IInv
    BY InitInv
  <1>2. IInv /\ [Next]_vars => IInv'
    BY Inductive
  <1>3. QED BY <1>1, <1>2, PTL DEF Spec

\* Every variable has its type (AsyncThreadwrap!TypeOK).
THEOREM TypeCorrect == Spec => []TypeOK
  <1>1. IInv => TypeOK
    BY DEF IInv
  <1>2. QED BY <1>1, Invariance, PTL

\* Above an adapter with a close(), shutdown() cancels no call that anybody
\* still waits for, for any number of workers and calls (close()).
THEOREM NothingDropped == Spec => []ShutdownDropsNothing
  <1>1. IInv => ShutdownDropsNothing
    BY DEF IInv, CallInv, ShutdownDropsNothing
  <1>2. QED BY <1>1, Invariance, PTL

\* A closed adapter has let go of its executor and of the synchronous adapter,
\* unless its close() still waits or was cancelled (close()).
THEOREM Released == Spec => []CloseReleases
  <1>1. IInv => CloseReleases
    <2>1. SUFFICES ASSUME IInv, closed, \A t \in Tasks : op[t] = "close" => pc[t] = "done"
                   PROVE  executor # "up" /\ queue = <<>> /\ (has_close => sync_closed = 1)
      BY DEF CloseReleases
    <2>2. executor # "up"
      BY <2>1 DEF IInv, ClosedInv
    <2>3. \A t \in Tasks : op[t] = "close" => fut[t] # "pending"
      BY <2>1 DEF IInv, QueueInv
    <2>4. has_close => sync_closed = 1
      BY <2>1, <2>3 DEF IInv, CallInv, ClosedInv
    <2>5. queue = <<>>
      <3>1. CASE executor = "down"
        BY <2>1, <3>1 DEF IInv, ClosedInv
      <3>2. CASE executor = "none"
        <4>1. \A t \in Tasks : fut[t] = "none"
          BY <2>1, <3>2 DEF IInv, CallInv
        <4>2. \A i \in 1..Len(queue) : queue[i] \in Tasks
          BY <2>1, ElementOfSeq DEF IInv, TypeOK
        <4>3. \A i \in 1..Len(queue) : FALSE
          BY <2>1, <4>1, <4>2 DEF IInv, QueueInv
        <4>4. queue # <<>> => Len(queue) \in Nat \ {0}
          BY <2>1, EmptySeq DEF IInv, TypeOK
        <4>5. QED BY <4>3, <4>4
      <3>3. QED BY <2>1, <2>2, <3>1, <3>2 DEF IInv, TypeOK
    <2>6. QED BY <2>2, <2>4, <2>5
  <1>2. QED BY <1>1, Invariance, PTL

\* No call starts on a synchronous adapter that was closed before it (Take is
\* the worker of _run()).
THEOREM NothingStarts == Spec => NothingStartsOnClosedAdapter
  <1> DEFINE Starts == \A t \in Tasks :
                         fut[t] = "pending" /\ fut'[t] = "running" => sync_closed = 0
  <1>1. IInv /\ [Next]_vars => [Starts]_vars
    <2>1. SUFFICES ASSUME IInv, Next, NEW t \in Tasks,
                          fut[t] = "pending", fut'[t] = "running"
                   PROVE  sync_closed = 0
      OBVIOUS
    <2>2. queue # <<>>
      <3>1. Len(<<>>) = 0
        BY EmptySeq
      <3>2. \E i \in 1..Len(queue) : queue[i] = t
        BY <2>1 DEF IInv, QueueInv
      <3>3. QED BY <3>1, <3>2
    <2>3. QED BY <2>1, <2>2 DEF IInv, ClosedInv
  <1>2. QED BY <1>1, Invariance, PTL DEF Spec, NothingStartsOnClosedAdapter

-----------------------------------------------------------------------------
(***************************************************************************)
(* AsyncThreadwrap implements CallPromise, for any tasks and any number of *)
(* workers: what the queue, the workers, the event loop and close() do to  *)
(* a call is a step of the promise or is invisible to it.                  *)
(***************************************************************************)


\* Both sides of a call as functions of its three variables.
SidesOf(t) ==
    /\ runs[t] = IF op[t] # "verb" \/ fut[t] = "none" THEN "none"
                 ELSE IF fut[t] = "pending" THEN "asked"
                 ELSE IF fut[t] = "running" THEN "running"
                 ELSE IF fut[t] = "cancelled" THEN "withdrawn" ELSE "ended"
    /\ op[t] # "verb" => callers[t] = "none"
    /\ op[t] = "verb" /\ fut[t] = "cancelled" => callers[t] = "gone"
    /\ op[t] = "verb" /\ fut[t] # "cancelled" =>
         /\ pc[t] = "waiting" => callers[t] = "waiting"
         /\ pc[t] \in {"done", "error"} => callers[t] = "answered"
         /\ pc[t] = "cancelled" => callers[t] = "gone"
         /\ pc[t] = "runtime_error" => callers[t] = "refused"

LEMMA Sides ==
    ASSUME TypeOK, TypeOK', NEW t \in Tasks
    PROVE  SidesOf(t) /\ SidesOf(t)'
  <1>1. SidesOf(t)
    <2>1. runs[t] = RunSide(t) /\ callers[t] = CallerSide(t)
      BY DEF runs, callers
    <2>2. fut[t] \in {"none", "pending", "running", "returned", "raised", "cancelled"}
      BY DEF TypeOK
    <2>3. QED BY <2>1, <2>2 DEF SidesOf, RunSide, CallerSide, RunOf, CallerOf
  <1>2. SidesOf(t)'
    <2>1. runs'[t] = RunSide(t)' /\ callers'[t] = CallerSide(t)'
      BY DEF runs, callers
    <2>2. fut'[t] \in {"none", "pending", "running", "returned", "raised", "cancelled"}
      BY DEF TypeOK
    <2>3. QED BY <2>1, <2>2 DEF SidesOf, RunSide, CallerSide, RunOf, CallerOf
  <1>3. QED BY <1>1, <1>2

\* The whole of both sides, from what becomes of the call that moves.
LEMMA OneMoves ==
    ASSUME NEW t \in Tasks,
           \A u \in Tasks \ {t} : op'[u] = op[u] /\ fut'[u] = fut[u] /\ pc'[u] = pc[u]
    PROVE  /\ runs' = [runs EXCEPT ![t] = runs'[t]]
           /\ callers' = [callers EXCEPT ![t] = callers'[t]]
  <1>1. \A u \in Tasks \ {t} : RunSide(u)' = RunSide(u) /\ CallerSide(u)' = CallerSide(u)
    BY DEF RunSide, CallerSide
  <1>2. QED BY <1>1 DEF runs, callers

\* Submitting a call is asking for it, refusing it is refusing it.
LEMMA CallVerbPromise ==
    ASSUME IInv, IInv', NEW t \in Tasks, CallVerb(t)
    PROVE  Promise!Ask(t) \/ Promise!Refuse(t)
  <1> USE DEF IInv
  <1>1. pc[t] = "idle" /\ op[t] = "none" /\ fut[t] = "none" /\ op' = [op EXCEPT ![t] = "verb"]
    BY DEF CallVerb, CallInv
  <1>2. op'[t] = "verb" /\ \A u \in Tasks \ {t} : op'[u] = op[u]
    BY <1>1 DEF TypeOK
  <1>3. SidesOf(t) /\ SidesOf(t)'
    BY Sides
  <1>4. CASE Submit(t)
    <2>1. /\ fut'[t] = "pending" /\ pc'[t] = "waiting"
          /\ \A u \in Tasks \ {t} : fut'[u] = fut[u] /\ pc'[u] = pc[u]
      BY <1>4 DEF Submit, Goto, TypeOK
    <2>2. callers[t] = "none" /\ callers'[t] = "waiting" /\ runs'[t] = "asked"
      BY <1>1, <1>2, <1>3, <2>1 DEF SidesOf
    <2>3. QED BY <1>2, <2>1, <2>2, OneMoves DEF Promise!Ask
  <1>5. CASE Rejected(t)
    <2>1. /\ fut' = fut /\ pc'[t] = "runtime_error"
          /\ \A u \in Tasks \ {t} : pc'[u] = pc[u]
      BY <1>5 DEF Rejected, Goto, TypeOK
    <2>2. callers[t] = "none" /\ callers'[t] = "refused" /\ runs'[t] = "none" /\ runs[t] = "none"
      BY <1>1, <1>2, <1>3, <2>1 DEF SidesOf
    <2>3. runs' = [runs EXCEPT ![t] = "none"] /\ callers' = [callers EXCEPT ![t] = "refused"]
      BY <1>2, <2>1, <2>2, OneMoves
    <2>4. runs' = runs
      BY <2>2, <2>3 DEF runs
    <2>5. QED BY <2>2, <2>3, <2>4 DEF Promise!Refuse
  <1>6. QED BY <1>4, <1>5 DEF CallVerb

\* A step that leaves both sides of t as they are, and the other calls alone,
\* is invisible.
LEMMA Invisible ==
    ASSUME NEW t \in Tasks, runs'[t] = runs[t], callers'[t] = callers[t],
           \A u \in Tasks \ {t} : op'[u] = op[u] /\ fut'[u] = fut[u] /\ pc'[u] = pc[u]
    PROVE  UNCHANGED Promise!callVars
  <1>1. runs' = [runs EXCEPT ![t] = runs[t]] /\ callers' = [callers EXCEPT ![t] = callers[t]]
    BY OneMoves
  <1>2. QED BY <1>1 DEF runs, callers, Promise!callVars

\* close() is no call of the provider's; without a synchronous close() it
\* withdraws together all the calls that wait to begin.
LEMMA ClosePromise ==
    ASSUME IInv, IInv', NEW t \in Tasks, Close(t)
    PROVE  (\E C \in SUBSET Tasks : Promise!GiveUp(C)) \/ UNCHANGED Promise!callVars
  <1> USE DEF IInv
  <1>1. op[t] = "none" /\ fut[t] = "none" /\ op' = [op EXCEPT ![t] = "close"]
    BY DEF Close, CallInv
  <1>2. op'[t] = "close" /\ \A u \in Tasks \ {t} : op'[u] = op[u]
    BY <1>1 DEF TypeOK
  <1>3. \A u \in Tasks : SidesOf(u) /\ SidesOf(u)'
    BY Sides
  <1>4. \A u \in Tasks \ {t} : pc'[u] = pc[u]
    BY DEF Close, Submit, Goto, TypeOK
  <1>5. runs[t] = "none" /\ runs'[t] = "none" /\ callers[t] = "none" /\ callers'[t] = "none"
    BY <1>1, <1>2, <1>3 DEF SidesOf
  <1>6. CASE UNCHANGED fut \/ Submit(t)
    <2>1. \A u \in Tasks \ {t} : fut'[u] = fut[u]
      BY <1>6 DEF Submit, TypeOK
    <2>2. QED BY <1>2, <1>4, <1>5, <2>1, Invisible
  <1>7. CASE DropQueue
    <2> DEFINE C == {u \in Tasks : op[u] = "verb" /\ fut[u] = "pending"}
    <2>1. \A u \in Tasks : fut'[u] = IF fut[u] = "pending" THEN "cancelled" ELSE fut[u]
      BY <1>7, DropQueueEffect
    <2>2. \A u \in C : callers[u] = "waiting" /\ runs[u] = "asked"
                       /\ callers'[u] = "gone" /\ runs'[u] = "withdrawn"
      BY <1>1, <1>2, <1>3, <2>1 DEF SidesOf, QueueInv
    <2>3. \A u \in Tasks \ C : RunSide(u)' = RunSide(u) /\ CallerSide(u)' = CallerSide(u)
      BY <1>1, <1>2, <1>4, <2>1 DEF RunSide, CallerSide
    <2>4. \A u \in Tasks \ C : runs'[u] = runs[u] /\ callers'[u] = callers[u]
      BY <2>3 DEF runs, callers
    <2> HIDE DEF C
    <2>5. C \subseteq Tasks
      BY DEF C
    <2>6. callers' = [u \in Tasks |-> IF u \in C THEN "gone" ELSE callers[u]]
      <3>1. \A u \in Tasks : callers'[u] = IF u \in C THEN "gone" ELSE callers[u]
        BY <2>2, <2>4
      <3>2. callers' = [u \in Tasks |-> callers'[u]]
        BY DEF callers
      <3>3. QED BY <3>1, <3>2
    <2>7. runs' = [u \in Tasks |-> IF u \in C /\ runs[u] = "asked" THEN "withdrawn" ELSE runs[u]]
      <3>1. \A u \in Tasks : runs'[u] = IF u \in C /\ runs[u] = "asked" THEN "withdrawn" ELSE runs[u]
        BY <2>2, <2>4
      <3>2. runs' = [u \in Tasks |-> runs'[u]]
        BY DEF runs
      <3>3. QED BY <3>1, <3>2
    <2>8. QED BY <2>2, <2>5, <2>6, <2>7 DEF Promise!GiveUp
  <1>8. QED BY <1>6, <1>7 DEF Close

\* A worker begins the call at the head of the queue, or lets go of one that
\* was withdrawn.
LEMMA TakePromise ==
    ASSUME IInv, IInv', NEW t \in Tasks, Take(t)
    PROVE  Promise!Begin(t) \/ UNCHANGED Promise!callVars
  <1>1. op' = op /\ pc' = pc
    BY DEF Take
  <1>2. CASE UNCHANGED fut
    BY <1>1, <1>2 DEF runs, callers, RunSide, CallerSide, Promise!callVars
  <1>3. CASE fut[t] = "pending" /\ \A u \in Tasks : fut'[u] = IF u = t THEN "running" ELSE fut[u]
    <2>1. SidesOf(t) /\ SidesOf(t)'
      BY Sides DEF IInv
    <2>2. pc[t] = "waiting"
      BY <1>3 DEF IInv, QueueInv
    <2>3. CASE op[t] = "verb"
      <3>1. runs[t] = "asked" /\ runs'[t] = "running" /\ callers'[t] = callers[t]
        BY <1>1, <1>3, <2>1, <2>2, <2>3 DEF SidesOf
      <3>2. runs' = [runs EXCEPT ![t] = "running"] /\ callers' = [callers EXCEPT ![t] = callers[t]]
        BY <1>1, <1>3, <3>1, OneMoves
      <3>3. QED BY <3>1, <3>2 DEF Promise!Begin, callers
    <2>4. CASE op[t] # "verb"
      <3>1. runs'[t] = runs[t] /\ callers'[t] = callers[t]
        BY <1>1, <2>1, <2>4 DEF SidesOf
      <3>2. QED BY <1>1, <1>3, <3>1, Invisible
    <2>5. QED BY <2>3, <2>4
  <1>4. QED BY <1>2, <1>3, TakeStep

LEMMA SyncCallEndsPromise ==
    ASSUME IInv, IInv', NEW t \in Tasks, NEW outcome \in {"returned", "raised"},
           SyncCallEnds(t, outcome)
    PROVE  Promise!End(t) \/ UNCHANGED Promise!callVars
  <1>1. /\ op' = op /\ pc' = pc /\ fut[t] = "running" /\ fut'[t] = outcome
        /\ \A u \in Tasks \ {t} : fut'[u] = fut[u]
    BY DEF SyncCallEnds, IInv, TypeOK
  <1>2. SidesOf(t) /\ SidesOf(t)'
    BY Sides DEF IInv
  <1>3. CallerSide(t)' = CallerSide(t)
    BY <1>1 DEF CallerSide
  <1>4. callers'[t] = callers[t]
    BY <1>3 DEF callers
  <1>5. CASE op[t] = "verb"
    <2>1. runs[t] = "running" /\ runs'[t] = "ended"
      BY <1>1, <1>2, <1>5 DEF SidesOf
    <2>2. runs' = [runs EXCEPT ![t] = "ended"] /\ callers' = [callers EXCEPT ![t] = callers[t]]
      BY <1>1, <1>4, <2>1, OneMoves
    <2>3. QED BY <2>1, <2>2 DEF Promise!End, callers
  <1>6. CASE op[t] # "verb"
    <2>1. runs'[t] = runs[t]
      BY <1>1, <1>2, <1>6 DEF SidesOf
    <2>2. QED BY <1>1, <1>4, <2>1, Invisible
  <1>7. QED BY <1>5, <1>6

\* An awaiter is answered when its call has ended; one whose future shutdown()
\* cancelled was given up already.
LEMMA AnswerVerbPromise ==
    ASSUME IInv, IInv', NEW t \in Tasks, AnswerVerb(t)
    PROVE  Promise!Answer(t) \/ UNCHANGED Promise!callVars
  <1>1. /\ pc[t] = "waiting" /\ op[t] = "verb" /\ op' = op /\ fut' = fut
        /\ \/ fut[t] \in {"returned", "raised"} /\ pc'[t] \in {"done", "error"}
           \/ fut[t] = "cancelled"
        /\ \A u \in Tasks \ {t} : pc'[u] = pc[u]
    BY DEF AnswerVerb, Wakes, Goto, IInv, TypeOK
  <1>2. SidesOf(t) /\ SidesOf(t)'
    BY Sides DEF IInv
  <1>3. runs'[t] = runs[t]
    BY <1>1, <1>2 DEF SidesOf
  <1>4. CASE fut[t] \in {"returned", "raised"} /\ pc'[t] \in {"done", "error"}
    <2>1. runs[t] = "ended" /\ callers[t] = "waiting" /\ callers'[t] = "answered"
      BY <1>1, <1>2, <1>4 DEF SidesOf
    <2>2. runs' = [runs EXCEPT ![t] = runs[t]] /\ callers' = [callers EXCEPT ![t] = "answered"]
      BY <1>1, <1>3, <2>1, OneMoves
    <2>3. QED BY <2>1, <2>2 DEF Promise!Answer, runs
  <1>5. CASE fut[t] = "cancelled"
    <2>1. callers'[t] = callers[t]
      BY <1>1, <1>2, <1>5 DEF SidesOf
    <2>2. QED BY <1>1, <1>3, <2>1, Invisible
  <1>6. QED BY <1>1, <1>4, <1>5

LEMMA CloseResumesPromise ==
    ASSUME IInv, IInv', NEW t \in Tasks, CloseResumes(t)
    PROVE  UNCHANGED Promise!callVars
  <1>1. /\ op[t] = "close" /\ op' = op /\ fut' = fut
        /\ \A u \in Tasks \ {t} : pc'[u] = pc[u]
    BY CloseResumesStep DEF CloseResumes, Goto, IInv, TypeOK
  <1>2. SidesOf(t) /\ SidesOf(t)'
    BY Sides DEF IInv
  <1>3. runs'[t] = runs[t] /\ callers'[t] = callers[t]
    BY <1>1, <1>2 DEF SidesOf
  <1>4. QED BY <1>1, <1>3, Invisible

\* A cancelled awaiter gives its call up, and withdraws it if no worker has
\* taken it.
LEMMA CancelPromise ==
    ASSUME IInv, IInv', NEW t \in Tasks, Cancel(t)
    PROVE  Promise!GiveUp({t}) \/ UNCHANGED Promise!callVars
  <1>1. /\ pc[t] = "waiting" /\ pc'[t] = "cancelled" /\ op' = op
        /\ fut'[t] = IF fut[t] = "pending" THEN "cancelled" ELSE fut[t]
        /\ \A u \in Tasks \ {t} : fut'[u] = fut[u] /\ pc'[u] = pc[u]
    BY CancelStep DEF Cancel
  <1>2. SidesOf(t) /\ SidesOf(t)'
    BY Sides DEF IInv
  <1>3. CASE op[t] = "verb" /\ fut[t] # "cancelled"
    <2>1. callers[t] = "waiting" /\ callers'[t] = "gone"
      BY <1>1, <1>2, <1>3 DEF SidesOf
    <2>2. fut[t] # "none" /\ runs'[t] = IF runs[t] = "asked" THEN "withdrawn" ELSE runs[t]
      <3>1. fut[t] # "none"
        BY <1>1 DEF IInv, CallInv
      <3>2. QED BY <1>1, <1>2, <1>3, <3>1 DEF SidesOf
    <2>3. /\ runs' = [runs EXCEPT ![t] = runs'[t]]
          /\ callers' = [callers EXCEPT ![t] = "gone"]
      BY <1>1, <2>1, OneMoves
    <2>4. callers' = [u \in Tasks |-> IF u \in {t} THEN "gone" ELSE callers[u]]
      BY <2>3 DEF callers
    <2>5. runs' = [u \in Tasks |-> IF u \in {t} /\ runs[u] = "asked" THEN "withdrawn" ELSE runs[u]]
      <3>1. \A u \in Tasks : runs'[u] = IF u \in {t} /\ runs[u] = "asked" THEN "withdrawn" ELSE runs[u]
        BY <2>2, <2>3 DEF runs
      <3>2. runs' = [u \in Tasks |-> runs'[u]]
        BY DEF runs
      <3>3. QED BY <3>1, <3>2
    <2>6. QED BY <2>1, <2>4, <2>5 DEF Promise!GiveUp
  <1>4. CASE op[t] # "verb" \/ fut[t] = "cancelled"
    <2>1. runs'[t] = runs[t] /\ callers'[t] = callers[t]
      BY <1>1, <1>2, <1>4 DEF SidesOf
    <2>2. QED BY <1>1, <2>1, Invisible
  <1>5. QED BY <1>3, <1>4

LEMMA InitPromise ==
    ASSUME Init
    PROVE  Promise!PromiseInit
  BY DEF Init, Promise!PromiseInit, runs, callers, RunSide, CallerSide

LEMMA StepPromise ==
    ASSUME IInv, [Next]_vars
    PROVE  [Promise!PromiseNext]_(Promise!callVars)
  <1>1. IInv'
    BY Inductive
  <1>2. CASE UNCHANGED vars
    BY <1>2 DEF vars, runs, callers, RunSide, CallerSide, Promise!callVars
  <1>3. ASSUME NEW t \in Tasks, CallVerb(t)
        PROVE  Promise!PromiseNext
    BY <1>1, <1>3, CallVerbPromise DEF Promise!PromiseNext
  <1>4. ASSUME NEW t \in Tasks, Close(t)
        PROVE  Promise!PromiseNext \/ UNCHANGED Promise!callVars
    BY <1>1, <1>4, ClosePromise DEF Promise!PromiseNext
  <1>5. ASSUME NEW t \in Tasks, Cancel(t)
        PROVE  Promise!PromiseNext \/ UNCHANGED Promise!callVars
    BY <1>1, <1>5, CancelPromise DEF Promise!PromiseNext
  <1>6. ASSUME NEW t \in Tasks, Work(t)
        PROVE  Promise!PromiseNext \/ UNCHANGED Promise!callVars
    BY <1>1, <1>6, TakePromise, SyncCallEndsPromise DEF Work, Promise!PromiseNext
  <1>7. ASSUME NEW t \in Tasks, Resume(t)
        PROVE  Promise!PromiseNext \/ UNCHANGED Promise!callVars
    BY <1>1, <1>7, AnswerVerbPromise, CloseResumesPromise DEF Resume, Promise!PromiseNext
  <1>8. QED BY <1>2, <1>3, <1>4, <1>5, <1>6, <1>7 DEF Next

\* The executor, the event loop and close() implement what the best-effort
\* tier promises about a call (C-CAN-4).
THEOREM Refinement == Spec => CallPromiseKept
  <1>1. Init => Promise!PromiseInit
    BY InitPromise
  <1>2. IInv /\ [Next]_vars => [Promise!PromiseNext]_(Promise!callVars)
    BY StepPromise
  <1>3. QED BY <1>1, <1>2, Invariance, PTL DEF Spec, CallPromiseKept, Promise!PromiseSpec

=============================================================================
