------------------------- MODULE SupermemoryProofs -------------------------
(***************************************************************************)
(* What holds of Supermemory for any calls and documents, any timeout and  *)
(* delays and any latency of the service.                                  *)
(***************************************************************************)
EXTENDS Supermemory, FiniteSetTheorems, TLAPS

\* The types, but for how far the time that is left may go below zero.
PcType == {"idle", "sent", "served", "asleep"} \cup Ended

Types ==
    /\ stage \in [Docs -> {"none", "hidden", "ingesting", "settled", "gone"}]
    /\ op \in [Calls -> {"none", "add", "get", "delete", "wait"}]
    /\ pc \in [Calls -> PcType]
    /\ pending \in [Calls -> SUBSET Docs] /\ todo \in [Calls -> SUBSET Docs]
    /\ cur \in [Calls -> Docs \cup {NoDoc}]
    /\ ans \in [Calls -> Answers \cup {"none"}]
    /\ left \in [Calls -> Int]
    /\ nap \in [Calls -> 0..Longer(MaxDelay, DeleteDelay)]
    /\ flight \in [Calls -> 0..Latency]
    /\ attempt \in [Calls -> 0..Timeout]
    /\ overdue \in [Calls -> 0..MaxOverdue]
    /\ due \in [Calls -> SUBSET Docs]

\* What a call asks about, in which order, and what it has to bring about.
AskOf(c) ==
    /\ pc[c] = "idle" => due[c] = {}
    /\ Running(c) =>
         /\ op[c] # "none" /\ cur[c] \in Docs /\ pending[c] # {}
         /\ op[c] \in {"get", "add", "delete"} => pending[c] = {cur[c]} /\ todo[c] = {}
         /\ op[c] = "wait" => pending[c] \subseteq due[c]
         /\ op[c] = "delete" => due[c] \subseteq {cur[c]}
    /\ InFlight(c) =>
         /\ cur[c] \in pending[c]
         /\ todo[c] \subseteq pending[c] \ {cur[c]}

\* How many documents a cycle has asked about before the current one.
Before(c) == Cardinality(due[c]) - Cardinality(todo[c]) - 1

\* The clock: no sleep of poll_until reaches past the deadline, and a cycle that
\* begins before the deadline takes one latency for each document.
TimeOf(c) ==
    /\ ~Running(c) => left[c] = Timeout /\ nap[c] = 0
    /\ pc[c] = "idle" => flight[c] = 0 /\ attempt[c] = 0 /\ overdue[c] = 0
    /\ left[c] <= Timeout
    /\ InFlight(c) => attempt[c] + left[c] <= Timeout
    /\ pc[c] = "asleep" => attempt[c] + left[c] <= Timeout + nap[c]
    /\ op[c] = "delete" /\ pc[c] = "asleep" => left[c] - nap[c] >= 1 - DeleteDelay
    /\ op[c] = "delete" /\ InFlight(c) => left[c] + flight[c] >= 1 - DeleteDelay
    /\ op[c] # "delete" /\ pc[c] = "asleep" => left[c] >= nap[c]
    /\ op[c] = "wait" /\ InFlight(c) => left[c] + flight[c] >= - (Before(c) * Latency)
    /\ op[c] \in {"get", "add"} /\ InFlight(c) => left[c] + flight[c] >= 0

\* What the stages of the documents tell of the answers, and of the calls that
\* have returned.  Documents only move on.
There(d) == stage[d] \notin {"none", "hidden"}

AnswerOf(c) ==
    /\ Running(c) => \A d \in pending[c] : stage[d] # "none"
    /\ op[c] = "wait" /\ Running(c) => \A d \in due[c] \ pending[c] : There(d)
    /\ pc[c] = "served" /\ op[c] # "delete" =>
         /\ ans[c] \in {"404", "409", "in_progress", "record", "tombstone", "failure"}
         /\ ans[c] \in {"record", "tombstone"} => There(cur[c])
         /\ ans[c] = "tombstone" => stage[cur[c]] = "gone"
    /\ op[c] = "delete" /\ Running(c) => \A d \in due[c] : There(d)
    /\ op[c] = "delete" /\ pc[c] = "served" /\ Deleted(ans[c]) =>
         \A d \in due[c] : stage[d] = "gone"
    /\ op[c] = "wait" /\ pc[c] = "returned" => \A d \in due[c] : There(d)
    /\ op[c] = "delete" /\ pc[c] = "returned" => \A d \in due[c] : stage[d] = "gone"

\* A poll has been waiting for a document that is there only since its request
\* was served.
OverdueOf(c) ==
    Polls(c) =>
        /\ stage[cur[c]] \in {"hidden", "ingesting"} => overdue[c] = 0
        /\ pc[c] = "served" /\ ans[c] \in {"404", "409"} /\ stage[cur[c]] = "settled" =>
             overdue[c] <= flight[c]

AskInv     == \A c \in Calls : AskOf(c)
TimeInv    == \A c \in Calls : TimeOf(c)
AnswerInv  == \A c \in Calls : AnswerOf(c)
OverdueInv == \A c \in Calls : OverdueOf(c)

IInv == Types /\ AskInv /\ TimeInv /\ AnswerInv /\ OverdueInv

-----------------------------------------------------------------------------
(* Numbers *)

LEMMA PowerOfTwo ==
    ASSUME NEW n \in Nat
    PROVE  2^n \in Nat \ {0}
  <1>1. IsFiniteSet(1..n) /\ Cardinality(1..n) = n
    BY FS_Interval
  <1>2. IsFiniteSet(SUBSET (1..n)) /\ Cardinality(SUBSET (1..n)) = 2^n
    BY <1>1, FS_SUBSET
  <1>3. Cardinality(SUBSET (1..n)) \in Nat /\ Cardinality(SUBSET (1..n)) # 0
    BY <1>2, FS_CardinalityType, FS_EmptySet
  <1>4. QED BY <1>2, <1>3

LEMMA DelayBounds ==
    ASSUME NEW x \in Nat \ {0}, NEW n \in Nat
    PROVE  Delay(x, n) \in 1..MaxDelay /\ Delay(x, n) <= x
  <1> DEFINE p == 2^n
  <1>1. p \in Nat \ {0}
    BY PowerOfTwo
  <1> HIDE DEF p
  <1>2. BaseDelay \in Nat \ {0} /\ MaxDelay \in Nat \ {0}
    BY IngestAssumption DEF IngestAssumption
  <1>3. BaseDelay * p \in Nat \ {0}
    BY <1>1, <1>2
  <1>4. Shorter(MaxDelay, BaseDelay * p) \in 1..MaxDelay
    BY <1>2, <1>3 DEF Shorter
  <1>5. /\ Shorter(Shorter(MaxDelay, BaseDelay * p), x) \in 1..MaxDelay
        /\ Shorter(Shorter(MaxDelay, BaseDelay * p), x) <= x
    BY <1>2, <1>4 DEF Shorter
  <1>6. QED BY <1>5 DEF Delay, p

LEMMA LongerBounds ==
    ASSUME NEW x \in Int, NEW y \in Int
    PROVE  Longer(x, y) \in {x, y} /\ x <= Longer(x, y) /\ y <= Longer(x, y)
  BY DEF Longer

LEMMA Products ==
    ASSUME NEW k \in Int, NEW m \in Int, NEW n \in Nat
    PROVE  /\ (k + 1) * n = k * n + n
           /\ k <= m => k * n <= m * n
  OBVIOUS

-----------------------------------------------------------------------------
(* What a step leaves alone *)

\* Nothing of call c changes.
Same(c) ==
    /\ pc'[c] = pc[c] /\ op'[c] = op[c] /\ due'[c] = due[c]
    /\ pending'[c] = pending[c] /\ todo'[c] = todo[c] /\ cur'[c] = cur[c] /\ ans'[c] = ans[c]
    /\ left'[c] = left[c] /\ nap'[c] = nap[c] /\ flight'[c] = flight[c]
    /\ attempt'[c] = attempt[c] /\ overdue'[c] = overdue[c]

\* The step of a call changes nothing of another.
LEMMA OthersStay ==
    ASSUME Types, NEW c \in Calls, Call(c) \/ Step(c), NEW d \in Calls \ {c}
    PROVE  Same(d)
  <1> USE DEF Types
  <1>1. ASSUME NEW how, Return(c, how), UNCHANGED <<op, due>>
        PROVE  Same(d)
    BY <1>1 DEF Return, Goto, Same
  <1>2. CASE Again(c) /\ UNCHANGED <<op, due>>
    <2>1. CASE Expired(left[c], attempt[c])
      BY <1>1, <1>2, <2>1 DEF Again
    <2>2. CASE ~ Expired(left[c], attempt[c])
      BY <1>2, <2>2 DEF Again, Goto, Same
    <2>3. QED BY <2>1, <2>2
  <1>3. ASSUME NEW e \in Docs, Send(c, e), UNCHANGED <<op, due, left, nap, overdue, attempt>>,
               todo'[d] = todo[d], pending'[d] = pending[d]
        PROVE  Same(d)
    BY <1>3 DEF Send, Goto, Same
  <1>4. ASSUME NEW what, NEW docs, Begin(c, what, docs), due'[d] = due[d]
        PROVE  Same(d)
    BY <1>4 DEF Begin, timers, Goto, Same
  <1>5. CASE BlockingAdd(c)
    BY <1>4, <1>5 DEF BlockingAdd
  <1>6. CASE Add(c)
    BY <1>6 DEF Add, timers, Goto, Same
  <1>7. CASE Get(c)
    BY <1>4, <1>7 DEF Get
  <1>8. CASE Delete(c)
    BY <1>4, <1>8 DEF Delete
  <1>9. CASE Wait(c)
    BY <1>4, <1>9 DEF Wait
  <1>10. CASE ServeGet(c)
    BY <1>10 DEF ServeGet, timers, Goto, Same
  <1>11. CASE ServeDelete(c)
    BY <1>11 DEF ServeDelete, timers, Goto, Same
  <1>12. CASE Wake(c)
    <2>1. PICK e \in pending[c] : /\ Send(c, e)
                                  /\ todo' = [todo EXCEPT ![c] = pending[c] \ {e}]
      BY <1>12 DEF Wake
    <2>2. UNCHANGED <<op, due, left, nap, overdue, attempt, pending>>
      BY <1>12 DEF Wake
    <2>3. QED BY <1>3, <2>1, <2>2
  <1>13. CASE ReceiveGet(c)
    BY <1>1, <1>2, <1>13 DEF ReceiveGet
  <1>14. CASE ReceiveDelete(c)
    <2>1. CASE \E how \in Ended : Return(c, how)
      BY <1>1, <1>14, <2>1 DEF ReceiveDelete
    <2>2. CASE ~ \E how \in Ended : Return(c, how)
      BY <1>14, <2>2 DEF ReceiveDelete, Ended, Goto, Same
    <2>3. QED BY <2>1, <2>2
  <1>15. CASE ReceiveWait(c)
    <2>1. CASE (\E how \in Ended : Return(c, how)) \/ Again(c)
      BY <1>1, <1>2, <1>15, <2>1 DEF ReceiveWait
    <2>2. CASE ~ ((\E how \in Ended : Return(c, how)) \/ Again(c))
      <3>1. PICK e \in todo[c] : Send(c, e) /\ todo' = [todo EXCEPT ![c] = @ \ {e}]
        BY <1>15, <2>2 DEF ReceiveWait, Ended
      <3>2. /\ pending' = [pending EXCEPT ![c] = PendingAfter(c)]
            /\ UNCHANGED <<left, nap, overdue, attempt, op, due>>
        BY <1>15, <2>2 DEF ReceiveWait, Ended
      <3>3. QED BY <1>3, <3>1, <3>2
    <2>3. QED BY <2>1, <2>2
  <1>16. QED BY <1>5, <1>6, <1>7, <1>8, <1>9, <1>10, <1>11, <1>12, <1>13, <1>14, <1>15
            DEF Call, Step

\* Documents only move on.
LEMMA StageMoves ==
    ASSUME Types, Next
    PROVE  /\ stage' \in [Docs -> {"none", "hidden", "ingesting", "settled", "gone"}]
           /\ \A d \in Docs :
                /\ There(d) => There(d)'
                /\ stage[d] = "gone" => stage'[d] = "gone"
                /\ stage[d] # "none" => stage'[d] # "none"
                /\ stage'[d] \in {"hidden", "ingesting"} /\ stage[d] # "none" =>
                     stage[d] \in {"hidden", "ingesting"}
                /\ stage'[d] = "settled" /\ stage[d] # "none" =>
                     stage[d] \in {"hidden", "ingesting", "settled"}
  <1> USE DEF Types, There
  <1>1. CASE stage' = stage
    BY <1>1
  <1>2. ASSUME NEW d \in Docs, Progress(d)
        PROVE  /\ stage[d] \in {"hidden", "ingesting"}
               /\ \E s \in {"ingesting", "settled"} : stage' = [stage EXCEPT ![d] = s]
               /\ stage[d] = "ingesting" => stage' = [stage EXCEPT ![d] = "settled"]
    BY <1>2 DEF Progress
  <1>3. ASSUME NEW c \in Calls, BlockingAdd(c) \/ Add(c)
        PROVE  \E d \in Docs : stage[d] = "none" /\ \E s \in {"hidden", "ingesting"} :
                                 stage' = [stage EXCEPT ![d] = s]
    BY <1>3 DEF BlockingAdd, Add, Known
  <1>4. ASSUME NEW c \in Calls, ServeDelete(c), stage' # stage
        PROVE  /\ stage[cur[c]] \in {"ingesting", "settled"}
               /\ stage' = [stage EXCEPT ![cur[c]] = "gone"]
    BY <1>4 DEF ServeDelete
  <1>5. \/ \E d \in Docs : Progress(d)
        \/ \E c \in Calls : BlockingAdd(c) \/ Add(c)
        \/ \E c \in Calls : ServeDelete(c)
        \/ stage' = stage
    BY DEF Next, Call, Step, Tick, Get, Delete, Wait, ServeGet, Wake, ReceiveGet, ReceiveDelete,
           ReceiveWait
  <1>6. QED BY <1>1, <1>2, <1>3, <1>4, <1>5

\* A call of which nothing changes keeps its part of the invariant.
LEMMA Stays ==
    ASSUME IInv, Next, NEW c \in Calls, Same(c)
    PROVE  AskOf(c)' /\ TimeOf(c)' /\ AnswerOf(c)' /\ OverdueOf(c)'
  <1> USE DEF IInv
  <1>1. AskOf(c) /\ TimeOf(c) /\ AnswerOf(c) /\ OverdueOf(c)
    BY DEF AskInv, TimeInv, AnswerInv, OverdueInv
  <1>2. /\ due[c] \subseteq Docs /\ pending[c] \subseteq Docs /\ flight[c] \in Nat
        /\ Running(c) => cur[c] \in Docs
        /\ Polls(c) => stage[cur[c]] # "none"
    BY <1>1, SupermemoryAssumption DEF Types, AskOf, AnswerOf, Polls, SupermemoryAssumption
  <1>3. AskOf(c)'
    BY <1>1 DEF Same, AskOf, Running, InFlight
  <1>4. TimeOf(c)'
    BY <1>1 DEF Same, TimeOf, Running, InFlight, Before
  <1>5. AnswerOf(c)'
    BY <1>1, <1>2, StageMoves DEF Same, AnswerOf, Running, There, Deleted
  <1>6. OverdueOf(c)'
    BY <1>1, <1>2, StageMoves DEF Same, OverdueOf, Polls, Running
  <1>7. QED BY <1>3, <1>4, <1>5, <1>6

-----------------------------------------------------------------------------
(* Types *)

\* The variables other than those of the service and the calls' own inputs.
LEMMA ReturnTypes ==
    ASSUME Types, NEW c \in Calls, NEW how \in Ended, Return(c, how), UNCHANGED <<stage, op, due>>
    PROVE  Types'
  <1> USE DEF Types
  <1>1. /\ Timeout \in Int /\ 0 \in 0..Timeout /\ 0 \in 0..Latency /\ 0 \in 0..MaxOverdue
        /\ 0 \in 0..Longer(MaxDelay, DeleteDelay)
    BY IngestAssumption, SupermemoryAssumption, LongerBounds
       DEF IngestAssumption, SupermemoryAssumption
  <1>2. pc' \in [Calls -> PcType]
    BY DEF Return, Goto, PcType
  <1>3. QED BY <1>1, <1>2 DEF Return

LEMMA AgainTypes ==
    ASSUME IInv, NEW c \in Calls, pc[c] = "served", op[c] # "delete", Again(c),
           UNCHANGED <<stage, op, due>>
    PROVE  Types'
  <1> USE DEF IInv
  <1>1. CASE Expired(left[c], attempt[c])
    <2>1. PICK how \in Ended : Return(c, how)
      BY <1>1 DEF Again, Ended
    <2>2. QED BY <2>1, ReturnTypes
  <1>2. CASE ~ Expired(left[c], attempt[c])
    <2>1. left[c] \in Nat \ {0} /\ attempt[c] \in Nat /\ attempt[c] + left[c] <= Timeout
      BY <1>2, IngestAssumption DEF Expired, Types, TimeInv, TimeOf, InFlight, IngestAssumption
    <2>2. Delay(left[c], attempt[c]) \in 0..Longer(MaxDelay, DeleteDelay)
      <3>1. MaxDelay \in Nat /\ DeleteDelay \in Nat
        BY IngestAssumption, SupermemoryAssumption DEF IngestAssumption, SupermemoryAssumption
      <3>2. MaxDelay <= Longer(MaxDelay, DeleteDelay) /\ Longer(MaxDelay, DeleteDelay) \in Nat
        BY <3>1, LongerBounds
      <3>3. Delay(left[c], attempt[c]) \in 1..MaxDelay
        BY <2>1, DelayBounds
      <3>4. QED BY <3>1, <3>2, <3>3
    <2>3. attempt[c] + 1 \in 0..Timeout
      BY <2>1, IngestAssumption DEF IngestAssumption
    <2>4. PendingAfter(c) \subseteq Docs
      BY DEF PendingAfter, Types
    <2>5. pc' \in [Calls -> PcType]
      BY <1>2 DEF Again, Goto, Types, PcType
    <2>6. /\ nap' \in [Calls -> 0..Longer(MaxDelay, DeleteDelay)]
          /\ attempt' \in [Calls -> 0..Timeout]
          /\ pending' \in [Calls -> SUBSET Docs]
      BY <1>2, <2>2, <2>3, <2>4 DEF Again, Types
    <2>7. UNCHANGED <<todo, cur, ans, left, flight, overdue>>
      BY <1>2 DEF Again
    <2>8. QED BY <2>5, <2>6, <2>7 DEF Types
  <1>3. QED BY <1>1, <1>2

LEMMA SendTypes ==
    ASSUME Types, NEW c \in Calls, NEW d \in Docs, Send(c, d),
           todo' \in [Calls -> SUBSET Docs], pending' \in [Calls -> SUBSET Docs],
           UNCHANGED <<stage, op, due, left, nap, overdue, attempt>>
    PROVE  Types'
  <1> USE DEF Types
  <1>1. pc' \in [Calls -> PcType] /\ 0 \in 0..Latency
    BY SupermemoryAssumption DEF Send, Goto, PcType, SupermemoryAssumption
  <1>2. QED BY <1>1 DEF Send

LEMMA BeginTypes ==
    ASSUME Types, Next, NEW c \in Calls, NEW what \in {"add", "get", "delete", "wait"},
           NEW docs \in SUBSET Docs, Begin(c, what, docs), due' \in [Calls -> SUBSET Docs]
    PROVE  Types'
  <1> USE DEF Types
  <1>1. pc' \in [Calls -> PcType]
    BY DEF Begin, Goto, PcType
  <1>2. stage' \in [Docs -> {"none", "hidden", "ingesting", "settled", "gone"}]
    BY StageMoves
  <1>3. op' \in [Calls -> {"none", "add", "get", "delete", "wait"}]
    BY DEF Begin
  <1>4. /\ pending' \in [Calls -> SUBSET Docs] /\ todo' \in [Calls -> SUBSET Docs]
        /\ cur' \in [Calls -> Docs \cup {NoDoc}]
    BY DEF Begin
  <1>5. UNCHANGED <<ans, left, nap, flight, overdue, attempt>>
    BY DEF Begin, timers
  <1>6. QED BY <1>1, <1>2, <1>3, <1>4, <1>5

LEMMA TypesStep ==
    ASSUME IInv, Next
    PROVE  Types'
  <1> USE DEF IInv
  <1>1. stage' \in [Docs -> {"none", "hidden", "ingesting", "settled", "gone"}]
    BY StageMoves
  <1>2. ASSUME NEW c \in Calls, Call(c)
        PROVE  Types'
    <2>1. CASE BlockingAdd(c)
      <3>1. PICK d \in Docs : Begin(c, "add", {d})
        BY <2>1 DEF BlockingAdd
      <3>2. QED BY <2>1, <3>1, BeginTypes DEF BlockingAdd, Types
    <2>2. CASE Add(c)
      <3>1. pc' \in [Calls -> PcType] /\ op' \in [Calls -> {"none", "add", "get", "delete", "wait"}]
        BY <2>2 DEF Add, Goto, Types, PcType, Ended
      <3>2. QED BY <1>1, <2>2, <3>1 DEF Add, Types, timers
    <2>3. CASE Get(c)
      <3>1. PICK d \in Docs : Begin(c, "get", {d})
        BY <2>3 DEF Get, Known
      <3>2. QED BY <2>3, <3>1, BeginTypes DEF Get, Types
    <2>4. CASE Delete(c)
      <3>1. PICK d \in Docs : Begin(c, "delete", {d}) /\ due' = [due EXCEPT ![c] = {d} \cap Visible]
        BY <2>4 DEF Delete, Known
      <3>2. due' \in [Calls -> SUBSET Docs]
        BY <3>1 DEF Types
      <3>3. QED BY <3>1, <3>2, BeginTypes
    <2>5. CASE Wait(c)
      <3>1. PICK docs \in SUBSET Known : Begin(c, "wait", docs) /\ due' = [due EXCEPT ![c] = docs]
        BY <2>5 DEF Wait
      <3>2. docs \in SUBSET Docs
        BY DEF Known
      <3>3. due' \in [Calls -> SUBSET Docs]
        BY <3>1, <3>2 DEF Types
      <3>4. QED BY <3>1, <3>2, <3>3, BeginTypes
    <2>6. QED BY <1>2, <2>1, <2>2, <2>3, <2>4, <2>5 DEF Call
  <1>3. ASSUME NEW c \in Calls, ServeGet(c) \/ ServeDelete(c)
        PROVE  Types'
    <2>1. pc' \in [Calls -> PcType]
      BY <1>3 DEF ServeGet, ServeDelete, Goto, Types, PcType
    <2>2. ans' \in [Calls -> Answers \cup {"none"}]
      <3>1. CASE ServeGet(c)
        <4>1. AskOf(c) /\ AnswerOf(c)
          BY DEF AskInv, AnswerInv
        <4>2. stage[cur[c]] \in {"hidden", "ingesting", "settled", "gone"}
          BY <3>1, <4>1 DEF ServeGet, AskOf, AnswerOf, InFlight, Running, Types
        <4>3. GetAnswers(stage[cur[c]]) \subseteq Answers
          BY <4>2 DEF GetAnswers, Answers
        <4>4. QED BY <3>1, <4>3 DEF ServeGet, Types
      <3>2. CASE ServeDelete(c)
        BY <3>2 DEF ServeDelete, Types, Answers
      <3>3. QED BY <1>3, <3>1, <3>2
    <2>3. QED BY <1>1, <1>3, <2>1, <2>2 DEF ServeGet, ServeDelete, Types, timers
  <1>4. ASSUME NEW c \in Calls, Wake(c)
        PROVE  Types'
    <2>1. PICK d \in pending[c] : Send(c, d) /\ todo' = [todo EXCEPT ![c] = pending[c] \ {d}]
      BY <1>4 DEF Wake
    <2>2. d \in Docs /\ todo' \in [Calls -> SUBSET Docs]
      BY <2>1 DEF Types
    <2>3. QED BY <1>4, <2>1, <2>2, SendTypes DEF Wake, Types
  <1>5. ASSUME NEW c \in Calls, ReceiveGet(c)
        PROVE  Types'
    <2>1. CASE \E how \in Ended : Return(c, how)
      BY <1>5, <2>1, ReturnTypes DEF ReceiveGet
    <2>2. CASE ~ \E how \in Ended : Return(c, how)
      BY <1>5, <2>2, AgainTypes DEF ReceiveGet, Ended
    <2>3. QED BY <2>1, <2>2
  <1>6. ASSUME NEW c \in Calls, ReceiveDelete(c)
        PROVE  Types'
    <2>1. CASE \E how \in Ended : Return(c, how)
      BY <1>6, <2>1, ReturnTypes DEF ReceiveDelete
    <2>2. CASE ~ \E how \in Ended : Return(c, how)
      <3>1. pc' \in [Calls -> PcType]
        BY <1>6, <2>2 DEF ReceiveDelete, Ended, Goto, Types, PcType
      <3>2. DeleteDelay \in 0..Longer(MaxDelay, DeleteDelay)
        BY LongerBounds, IngestAssumption, SupermemoryAssumption
           DEF IngestAssumption, SupermemoryAssumption
      <3>3. QED BY <1>6, <2>2, <3>1, <3>2 DEF ReceiveDelete, Ended, Types
    <2>3. QED BY <2>1, <2>2
  <1>7. ASSUME NEW c \in Calls, ReceiveWait(c)
        PROVE  Types'
    <2>1. CASE \E how \in Ended : Return(c, how)
      BY <1>7, <2>1, ReturnTypes DEF ReceiveWait
    <2>2. CASE Again(c)
      BY <1>7, <2>2, AgainTypes DEF ReceiveWait
    <2>3. CASE ~ (\E how \in Ended : Return(c, how)) /\ ~ Again(c)
      <3>1. /\ pending' = [pending EXCEPT ![c] = PendingAfter(c)]
            /\ UNCHANGED <<stage, op, due, left, nap, overdue, attempt>>
        BY <1>7, <2>3 DEF ReceiveWait, Ended
      <3>2. PICK d \in todo[c] : Send(c, d) /\ todo' = [todo EXCEPT ![c] = @ \ {d}]
        BY <1>7, <2>3 DEF ReceiveWait, Ended
      <3>3. /\ d \in Docs /\ todo' \in [Calls -> SUBSET Docs]
            /\ pending' \in [Calls -> SUBSET Docs]
        BY <3>1, <3>2 DEF PendingAfter, Types
      <3>4. QED BY <3>1, <3>2, <3>3, SendTypes DEF Types
    <2>4. QED BY <2>1, <2>2, <2>3
  <1>8. CASE Tick
    <2>1. left' \in [Calls -> Int]
      BY <1>8 DEF Tick, Types
    <2>2. flight' \in [Calls -> 0..Latency]
      BY <1>8, SupermemoryAssumption DEF Tick, Types, SupermemoryAssumption
    <2>3. nap' \in [Calls -> 0..Longer(MaxDelay, DeleteDelay)]
      BY <1>8, LongerBounds, IngestAssumption, SupermemoryAssumption
         DEF Tick, Types, IngestAssumption, SupermemoryAssumption
    <2>4. overdue' \in [Calls -> 0..MaxOverdue]
      BY <1>8, SupermemoryAssumption DEF Tick, Types, Shorter, SupermemoryAssumption
    <2>5. QED BY <1>8, <2>1, <2>2, <2>3, <2>4 DEF Tick, Types
  <1>9. CASE \E d \in Docs : Progress(d)
    BY <1>1, <1>9 DEF Progress, Types, timers
  <1>10. QED BY <1>2, <1>3, <1>4, <1>5, <1>6, <1>7, <1>8, <1>9 DEF Next, Step

-----------------------------------------------------------------------------
(* The steps of a call *)

CallInv(c) == AskOf(c) /\ TimeOf(c) /\ AnswerOf(c) /\ OverdueOf(c)

LEMMA Parts ==
    ASSUME IInv, NEW c \in Calls
    PROVE  Types /\ CallInv(c)
  BY DEF IInv, AskInv, TimeInv, AnswerInv, OverdueInv, CallInv

\* A call that has ended owes nothing but what it returned for.
LEMMA Ends ==
    ASSUME IInv, NEW c \in Calls, NEW how \in Ended, Return(c, how), UNCHANGED <<stage, op, due>>,
           how = "returned" => /\ op[c] = "wait" => \A d \in due[c] : There(d)
                               /\ op[c] = "delete" => \A d \in due[c] : stage[d] = "gone"
    PROVE  CallInv(c)'
  <1>1. Types
    BY DEF IInv
  <1>2. pc'[c] = how /\ left'[c] = Timeout /\ nap'[c] = 0
    BY <1>1 DEF Return, Goto, Types
  <1>3. how \notin {"idle", "sent", "served", "asleep"}
    BY DEF Ended
  <1>4. AskOf(c)' /\ OverdueOf(c)'
    BY <1>2, <1>3 DEF AskOf, OverdueOf, Polls, Running, InFlight
  <1>5. TimeOf(c)'
    BY <1>2, <1>3, IngestAssumption DEF TimeOf, Running, InFlight, IngestAssumption
  <1>6. AnswerOf(c)'
    BY <1>2, <1>3 DEF AnswerOf, Running, There
  <1>7. QED BY <1>4, <1>5, <1>6 DEF CallInv

\* What wait_for_ingest() no longer asks about is there.
LEMMA AfterAnswer ==
    ASSUME IInv, NEW c \in Calls, pc[c] = "served", op[c] = "wait", ans[c] # "failure"
    PROVE  /\ PendingAfter(c) \subseteq pending[c] /\ pending[c] \ {cur[c]} \subseteq PendingAfter(c)
           /\ \A d \in due[c] \ PendingAfter(c) : There(d)
  <1>1. AnswerOf(c)
    BY Parts DEF CallInv
  <1>2. PendingAfter(c) # pending[c] => There(cur[c])
    BY <1>1 DEF AnswerOf, PendingAfter
  <1>3. \A d \in due[c] \ pending[c] : There(d)
    BY <1>1 DEF AnswerOf, Running
  <1>4. PendingAfter(c) \subseteq pending[c] /\ pending[c] \ {cur[c]} \subseteq PendingAfter(c)
    BY DEF PendingAfter
  <1>5. QED BY <1>2, <1>3, <1>4

\* A poll that found nothing: the sleep ends before the deadline.
LEMMA Sleeps ==
    ASSUME IInv, NEW c \in Calls, pc[c] = "served", op[c] # "delete", Again(c),
           ans[c] # "failure", ~ Expired(left[c], attempt[c]), PendingAfter(c) # {},
           UNCHANGED <<stage, op, due>>
    PROVE  CallInv(c)'
  <1>1. Types /\ AskOf(c) /\ TimeOf(c) /\ AnswerOf(c) /\ OverdueOf(c)
    BY Parts DEF CallInv
  <1>2. /\ pc'[c] = "asleep" /\ nap'[c] = Delay(left[c], attempt[c])
        /\ attempt'[c] = attempt[c] + 1 /\ pending'[c] = PendingAfter(c)
        /\ UNCHANGED <<todo, cur, ans, left, flight, overdue>>
    <2>1. /\ Goto(c, "asleep")
          /\ nap' = [nap EXCEPT ![c] = Delay(left[c], attempt[c])]
          /\ attempt' = [attempt EXCEPT ![c] = @ + 1]
          /\ pending' = [pending EXCEPT ![c] = PendingAfter(c)]
          /\ UNCHANGED <<todo, cur, ans, left, flight, overdue>>
      BY DEF Again
    <2>2. DOMAIN pc = Calls /\ DOMAIN nap = Calls /\ DOMAIN attempt = Calls /\ DOMAIN pending = Calls
      BY <1>1 DEF Types
    <2>3. pc'[c] = "asleep"
      BY <2>1, <2>2, <1>1 DEF Goto, Types
    <2>4. nap'[c] = Delay(left[c], attempt[c])
      BY <2>1, <2>2
    <2>5. attempt'[c] = attempt[c] + 1 /\ pending'[c] = PendingAfter(c)
      BY <2>1, <2>2
    <2>6. QED BY <2>1, <2>3, <2>4, <2>5
  <1>3. left[c] \in Nat \ {0} /\ attempt[c] \in Nat /\ Timeout \in Nat
    BY <1>1, IngestAssumption DEF Expired, Types, IngestAssumption
  <1>4. /\ nap'[c] \in Nat \ {0} /\ nap'[c] <= left[c]
    <2>1. Delay(left[c], attempt[c]) \in 1..MaxDelay /\ Delay(left[c], attempt[c]) <= left[c]
      BY <1>3, DelayBounds
    <2>2. MaxDelay \in Nat
      BY IngestAssumption DEF IngestAssumption
    <2>3. QED BY <1>2, <2>1, <2>2
  <1>5. PendingAfter(c) \subseteq pending[c] /\ (op[c] # "wait" => PendingAfter(c) = pending[c])
    BY DEF PendingAfter
  <1>6. AskOf(c)'
    BY <1>1, <1>2, <1>5 DEF AskOf, Running, InFlight
  <1>7. TimeOf(c)'
    BY <1>1, <1>2, <1>3, <1>4 DEF TimeOf, Running, InFlight
  <1>8. AnswerOf(c)'
    <2>1. op[c] = "wait" => \A d \in due[c] \ PendingAfter(c) : There(d)
      BY AfterAnswer
    <2>2. QED BY <1>1, <1>2, <1>5, <2>1 DEF AnswerOf, Running, There
  <1>9. OverdueOf(c)'
    BY <1>1, <1>2 DEF OverdueOf, Polls, Running
  <1>10. QED BY <1>6, <1>7, <1>8, <1>9 DEF CallInv

\* The next request of a cycle: one latency more for it.
LEMMA Sends ==
    ASSUME IInv, NEW c \in Calls, pc[c] = "served", op[c] = "wait", ans[c] # "failure",
           NEW d \in todo[c], Send(c, d), todo' = [todo EXCEPT ![c] = @ \ {d}],
           pending' = [pending EXCEPT ![c] = PendingAfter(c)],
           UNCHANGED <<stage, op, due, left, nap, overdue, attempt>>
    PROVE  CallInv(c)'
  <1>1. Types /\ AskOf(c) /\ TimeOf(c) /\ AnswerOf(c)
    BY Parts DEF CallInv
  <1>2. /\ pc'[c] = "sent" /\ cur'[c] = d /\ flight'[c] = 0
        /\ todo'[c] = todo[c] \ {d} /\ pending'[c] = PendingAfter(c)
    BY <1>1 DEF Send, Goto, Types
  <1>3. /\ PendingAfter(c) \subseteq pending[c] /\ pending[c] \ {cur[c]} \subseteq PendingAfter(c)
        /\ \A e \in due[c] \ PendingAfter(c) : There(e)
    BY AfterAnswer
  <1>4. d \in Docs /\ d \in PendingAfter(c) /\ todo[c] \subseteq PendingAfter(c)
    BY <1>1, <1>3 DEF AskOf, InFlight, Types
  <1>5. AskOf(c)'
    BY <1>1, <1>2, <1>3, <1>4 DEF AskOf, Running, InFlight
  <1>6. AnswerOf(c)'
    BY <1>1, <1>2, <1>3 DEF AnswerOf, Running, There
  <1>7. OverdueOf(c)'
    BY DEF OverdueOf, Polls
  <1>8. Before(c)' = Before(c) + 1 /\ Before(c) \in Int
    <2>1. IsFiniteSet(todo[c]) /\ IsFiniteSet(due[c])
      BY <1>1, FS_Subset, SupermemoryAssumption DEF Types, SupermemoryAssumption
    <2>2. Cardinality(todo[c] \ {d}) = Cardinality(todo[c]) - 1
      BY <2>1, FS_RemoveElement
    <2>3. Cardinality(todo[c]) \in Nat /\ Cardinality(due[c]) \in Nat
      BY <2>1, FS_CardinalityType
    <2>4. QED BY <1>2, <2>2, <2>3 DEF Before
  <1>9. TimeOf(c)'
    <2>1. left[c] \in Int /\ flight[c] \in Int /\ flight[c] <= Latency /\ Latency \in Nat
      BY <1>1, SupermemoryAssumption DEF Types, SupermemoryAssumption
    <2>2. Before(c)' * Latency = Before(c) * Latency + Latency
      BY <1>8, <2>1, Products
    <2>3. Before(c) * Latency \in Int
      BY <1>8, <2>1
    <2>4. left[c] + flight[c] >= - (Before(c) * Latency)
      BY <1>1 DEF TimeOf, InFlight
    <2>5. left'[c] + flight'[c] >= - (Before(c)' * Latency)
      BY <1>2, <2>1, <2>2, <2>3, <2>4
    <2>6. QED BY <1>1, <1>2, <2>5 DEF TimeOf, Running, InFlight
  <1>10. QED BY <1>5, <1>6, <1>7, <1>9 DEF CallInv

\* A new cycle, of get() or wait_for_ingest(), or delete() again.
LEMMA Wakes ==
    ASSUME IInv, NEW c \in Calls, Wake(c)
    PROVE  CallInv(c)'
  <1>1. Types /\ AskOf(c) /\ TimeOf(c) /\ AnswerOf(c) /\ OverdueOf(c)
    BY Parts DEF CallInv
  <1>2. PICK d \in pending[c] : Send(c, d) /\ todo' = [todo EXCEPT ![c] = pending[c] \ {d}]
    BY DEF Wake
  <1>3. /\ pc[c] = "asleep" /\ nap[c] = 0
        /\ UNCHANGED <<stage, op, pending, left, nap, overdue, attempt, due>>
    BY DEF Wake
  <1>4. /\ pc'[c] = "sent" /\ cur'[c] = d /\ flight'[c] = 0
        /\ todo'[c] = pending[c] \ {d}
    BY <1>1, <1>2 DEF Send, Goto, Types
  <1>5. d \in Docs /\ (op[c] # "wait" => d = cur[c] /\ pending[c] \ {d} = {})
    BY <1>1, <1>3 DEF AskOf, Running, Types
  <1>6. AskOf(c)'
    BY <1>1, <1>3, <1>4, <1>5 DEF AskOf, Running, InFlight
  <1>7. AnswerOf(c)'
    BY <1>1, <1>3, <1>4, <1>5 DEF AnswerOf, Running, There
  <1>8. OverdueOf(c)'
    BY <1>1, <1>3, <1>4, <1>5 DEF OverdueOf, Polls, Running
  <1>9. op[c] = "wait" => Before(c)' \in Nat
    <2>1. SUFFICES ASSUME op[c] = "wait" PROVE Before(c)' \in Nat
      OBVIOUS
    <2>2. pending[c] \subseteq due[c]
      BY <1>1, <1>3, <2>1 DEF AskOf, Running
    <2>3. IsFiniteSet(due[c]) /\ IsFiniteSet(pending[c])
      BY <1>1, FS_Subset, SupermemoryAssumption DEF Types, SupermemoryAssumption
    <2>4. Cardinality(pending[c]) <= Cardinality(due[c])
      BY <2>2, <2>3, FS_Subset
    <2>5. Cardinality(pending[c] \ {d}) = Cardinality(pending[c]) - 1
      BY <2>3, FS_RemoveElement
    <2>6. Cardinality(pending[c]) \in Nat /\ Cardinality(due[c]) \in Nat
      BY <2>3, FS_CardinalityType
    <2>7. QED BY <1>3, <1>4, <2>4, <2>5, <2>6 DEF Before
  <1>10. TimeOf(c)'
    <2>1. /\ left[c] \in Int /\ attempt[c] \in Int
          /\ Latency \in Nat /\ Timeout \in Int /\ DeleteDelay \in Int
      BY <1>1, IngestAssumption, SupermemoryAssumption
         DEF Types, IngestAssumption, SupermemoryAssumption
    <2>2. op[c] = "wait" => Before(c)' * Latency \in Nat
      BY <1>9, <2>1
    <2>3. op[c] # "delete" => left[c] >= 0
      BY <1>1, <1>3 DEF TimeOf
    <2>4. op[c] = "wait" => left'[c] + flight'[c] >= - (Before(c)' * Latency)
      BY <1>3, <1>4, <2>1, <2>2, <2>3
    <2>5. QED BY <1>1, <1>3, <1>4, <2>1, <2>3, <2>4 DEF TimeOf, Running, InFlight
  <1>11. QED BY <1>6, <1>7, <1>8, <1>10 DEF CallInv

\* The first request of a call.
LEMMA Begins ==
    ASSUME IInv, NEW c \in Calls, NEW what \in {"add", "get", "delete", "wait"},
           NEW docs \in SUBSET Docs, Begin(c, what, docs),
           what # "wait" => \E d \in docs : docs = {d},
           what = "wait" => due'[c] = docs,
           what = "delete" => due'[c] \subseteq docs /\ \A d \in due'[c] : There(d)',
           \A d \in docs : stage'[d] # "none"
    PROVE  CallInv(c)'
  <1>1. Types /\ AskOf(c) /\ TimeOf(c)
    BY Parts DEF CallInv
  <1>2. PICK d \in docs : /\ cur' = [cur EXCEPT ![c] = d]
                          /\ todo' = [todo EXCEPT ![c] = docs \ {d}]
    BY DEF Begin
  <1>3. /\ pc[c] = "idle" /\ pc'[c] = "sent" /\ op'[c] = what /\ pending'[c] = docs
        /\ cur'[c] = d /\ todo'[c] = docs \ {d}
        /\ UNCHANGED <<left, nap, flight, attempt, overdue>>
    BY <1>1, <1>2 DEF Begin, timers, Goto, Types
  <1>4. d \in Docs /\ (what # "wait" => docs = {d})
    OBVIOUS
  <1>5. AskOf(c)'
    BY <1>3, <1>4 DEF AskOf, Running, InFlight
  <1>6. AnswerOf(c)'
    BY <1>3, <1>4 DEF AnswerOf, Running, There
  <1>7. OverdueOf(c)'
    BY <1>1, <1>3 DEF OverdueOf, TimeOf
  <1>8. what = "wait" => Before(c)' = 0
    <2>1. SUFFICES ASSUME what = "wait" PROVE Before(c)' = 0
      OBVIOUS
    <2>2. IsFiniteSet(docs)
      BY FS_Subset, SupermemoryAssumption DEF SupermemoryAssumption
    <2>3. Cardinality(docs) \in Nat /\ Cardinality(docs \ {d}) = Cardinality(docs) - 1
      BY <2>2, FS_CardinalityType, FS_RemoveElement
    <2>4. QED BY <1>3, <2>1, <2>3 DEF Before
  <1>9. TimeOf(c)'
    <2>1. left[c] = Timeout /\ nap[c] = 0 /\ flight[c] = 0 /\ attempt[c] = 0
      BY <1>1, <1>3 DEF TimeOf, Running
    <2>2. Timeout \in Nat \ {0} /\ Latency \in Nat /\ DeleteDelay \in Nat \ {0}
      BY IngestAssumption, SupermemoryAssumption DEF IngestAssumption, SupermemoryAssumption
    <2>3. what = "wait" => Before(c)' * Latency = 0
      BY <1>8, <2>2
    <2>4. QED BY <1>3, <2>1, <2>2, <2>3 DEF TimeOf, Running, InFlight
  <1>10. QED BY <1>5, <1>6, <1>7, <1>9 DEF CallInv

LEMMA CallStep ==
    ASSUME IInv, Next, NEW c \in Calls, Call(c)
    PROVE  CallInv(c)'
  <1>1. Types /\ AskOf(c) /\ TimeOf(c)
    BY Parts DEF CallInv
  <1>2. CASE BlockingAdd(c)
    <2>1. PICK d \in Docs, s \in {"hidden", "ingesting"} :
            stage' = [stage EXCEPT ![d] = s] /\ Begin(c, "add", {d})
      BY <1>2 DEF BlockingAdd
    <2>2. stage'[d] # "none"
      BY <1>1, <2>1 DEF Types
    <2>3. QED BY <2>1, <2>2, Begins
  <1>3. CASE Add(c)
    <2>1. /\ pc[c] = "idle" /\ pc'[c] \in {"queued", "raised"} /\ op'[c] = "add"
          /\ UNCHANGED <<left, nap, flight, attempt, overdue>>
      BY <1>1, <1>3 DEF Add, timers, Goto, Types
    <2>2. AskOf(c)' /\ AnswerOf(c)' /\ OverdueOf(c)'
      BY <2>1 DEF AskOf, AnswerOf, OverdueOf, Polls, Running, InFlight
    <2>3. TimeOf(c)'
      BY <1>1, <2>1 DEF TimeOf, Running, InFlight
    <2>4. QED BY <2>2, <2>3 DEF CallInv
  <1>4. CASE Get(c)
    <2>1. PICK d \in Known : Begin(c, "get", {d}) /\ stage' = stage
      BY <1>4 DEF Get
    <2>2. d \in Docs /\ stage'[d] # "none"
      BY <2>1 DEF Known
    <2>3. QED BY <2>1, <2>2, Begins
  <1>5. CASE Delete(c)
    <2>1. PICK d \in Known : /\ Begin(c, "delete", {d}) /\ stage' = stage
                             /\ due' = [due EXCEPT ![c] = {d} \cap Visible]
      BY <1>5 DEF Delete
    <2>2. d \in Docs /\ stage'[d] # "none"
      BY <2>1 DEF Known
    <2>3. due'[c] \subseteq {d} /\ \A e \in due'[c] : There(e)'
      BY <1>1, <2>1 DEF Types, Visible, There
    <2>4. QED BY <2>1, <2>2, <2>3, Begins
  <1>6. CASE Wait(c)
    <2>1. PICK docs \in SUBSET Known : /\ Begin(c, "wait", docs) /\ stage' = stage
                                       /\ due' = [due EXCEPT ![c] = docs]
      BY <1>6 DEF Wait
    <2>2. docs \in SUBSET Docs /\ \A d \in docs : stage'[d] # "none"
      BY <2>1 DEF Known
    <2>3. due'[c] = docs
      BY <1>1, <2>1 DEF Types
    <2>4. QED BY <2>1, <2>2, <2>3, Begins
  <1>7. QED BY <1>2, <1>3, <1>4, <1>5, <1>6 DEF Call

\* The service answers.
LEMMA Serves ==
    ASSUME IInv, Next, NEW c \in Calls, ServeGet(c) \/ ServeDelete(c)
    PROVE  CallInv(c)'
  <1>1. Types /\ AskOf(c) /\ TimeOf(c) /\ AnswerOf(c) /\ OverdueOf(c)
    BY Parts DEF CallInv, IInv
  <1>2. /\ pc[c] = "sent" /\ pc'[c] = "served"
        /\ UNCHANGED <<op, pending, todo, cur, left, nap, flight, overdue, attempt, due>>
    BY <1>1 DEF ServeGet, ServeDelete, timers, Goto, Types
  <1>3. AskOf(c)'
    BY <1>1, <1>2 DEF AskOf, Running, InFlight
  <1>4. TimeOf(c)'
    BY <1>1, <1>2 DEF TimeOf, Running, InFlight, Before
  <1>5. /\ pending[c] \subseteq Docs /\ due[c] \subseteq Docs
        /\ cur[c] \in Docs /\ cur[c] \in pending[c] /\ stage[cur[c]] # "none"
    BY <1>1, <1>2 DEF AskOf, AnswerOf, Running, InFlight, Types
  <1>6. CASE ServeGet(c)
    <2>1. op[c] # "delete" /\ stage' = stage /\ ans'[c] \in GetAnswers(stage[cur[c]])
      BY <1>1, <1>6 DEF ServeGet, Types
    <2>2. stage[cur[c]] \in {"hidden", "ingesting", "settled", "gone"}
      BY <1>1, <1>5 DEF Types
    <2>3. /\ ans'[c] \in {"404", "409", "in_progress", "record", "tombstone", "failure"}
          /\ ans'[c] \in {"record", "tombstone"} => There(cur[c])
          /\ ans'[c] = "tombstone" => stage[cur[c]] = "gone"
          /\ stage[cur[c]] = "settled" => ans'[c] \in {"record", "failure"}
      BY <2>1, <2>2 DEF GetAnswers, There
    <2>4. AnswerOf(c)'
      BY <1>1, <1>2, <2>1, <2>3 DEF AnswerOf, Running, There
    <2>5. OverdueOf(c)'
      BY <1>1, <1>2, <2>1, <2>3 DEF OverdueOf, Polls, Running
    <2>6. QED BY <1>3, <1>4, <2>4, <2>5 DEF CallInv
  <1>7. CASE ServeDelete(c)
    <2>1. op[c] = "delete"
      BY <1>7 DEF ServeDelete
    <2>2. due[c] \subseteq {cur[c]}
      BY <1>1, <1>2, <2>1 DEF AskOf, Running
    <2>3. \A d \in due[c] : There(d) /\ There(d)'
      BY <1>1, <1>2, <1>5, <2>1, StageMoves DEF AnswerOf, Running
    <2>4. \A d \in pending[c] : stage'[d] # "none"
      BY <1>1, <1>2, <1>5, StageMoves DEF AnswerOf, Running
    <2>5. Deleted(ans'[c]) => \A d \in due[c] : stage'[d] = "gone"
      <3>1. CASE stage' = [stage EXCEPT ![cur[c]] = "gone"]
        BY <1>1, <1>5, <2>2, <3>1 DEF Types
      <3>2. CASE stage' # [stage EXCEPT ![cur[c]] = "gone"]
        <4>1. /\ stage[cur[c]] # "settled" /\ stage' = stage
              /\ ans'[c] \in {"failure", IF stage[cur[c]] = "ingesting" THEN "409" ELSE "404"}
          BY <1>1, <1>7, <3>2 DEF ServeDelete, Types
        <4>2. Deleted(ans'[c]) => stage[cur[c]] # "ingesting"
          BY <4>1 DEF Deleted
        <4>3. stage[cur[c]] \in {"none", "hidden", "ingesting", "settled", "gone"}
          BY <1>1, <1>5 DEF Types
        <4>4. QED BY <2>2, <2>3, <4>1, <4>2, <4>3 DEF There
      <3>3. QED BY <3>1, <3>2
    <2>6. AnswerOf(c)'
      BY <1>2, <2>1, <2>3, <2>4, <2>5 DEF AnswerOf, Running, Deleted, There
    <2>7. OverdueOf(c)'
      BY <1>2, <2>1 DEF OverdueOf, Polls
    <2>8. QED BY <1>3, <1>4, <2>6, <2>7 DEF CallInv
  <1>8. QED BY <1>6, <1>7

\* Again() in a call other than delete().
LEMMA PollsAgain ==
    ASSUME IInv, NEW c \in Calls, pc[c] = "served", op[c] # "delete", ans[c] # "failure", Again(c),
           PendingAfter(c) # {}, UNCHANGED <<stage, op, due>>
    PROVE  CallInv(c)'
  <1>1. CASE Expired(left[c], attempt[c])
    <2>1. PICK how \in {"queued", "timeout"} : Return(c, how)
      BY <1>1 DEF Again
    <2>2. how \in Ended /\ how # "returned"
      BY DEF Ended
    <2>3. QED BY <2>1, <2>2, Ends
  <1>2. CASE ~ Expired(left[c], attempt[c])
    BY <1>2, Sleeps
  <1>3. QED BY <1>1, <1>2

LEMMA Receives ==
    ASSUME IInv, NEW c \in Calls, ReceiveGet(c) \/ ReceiveDelete(c) \/ ReceiveWait(c)
    PROVE  CallInv(c)'
  <1>1. Types /\ AskOf(c) /\ TimeOf(c) /\ AnswerOf(c) /\ OverdueOf(c)
    BY Parts DEF CallInv
  <1>2. pc[c] = "served" /\ UNCHANGED <<stage, op, due>>
    BY DEF ReceiveGet, ReceiveDelete, ReceiveWait
  <1>3. {"returned", "raised"} \subseteq Ended
    BY DEF Ended
  <1>4. CASE Return(c, "raised")
    BY <1>2, <1>3, <1>4, Ends
  <1>5. CASE ReceiveGet(c)
    <2>1. op[c] \in {"get", "add"}
      BY <1>5 DEF ReceiveGet
    <2>2. CASE Return(c, "returned")
      BY <1>2, <1>3, <2>1, <2>2, Ends
    <2>3. CASE ans[c] \in {"404", "409", "tombstone"} /\ Again(c)
      <3>1. PendingAfter(c) # {}
        BY <1>1, <1>2, <2>1 DEF PendingAfter, AskOf, Running
      <3>2. QED BY <1>2, <2>1, <2>3, <3>1, PollsAgain
    <2>4. QED BY <1>4, <1>5, <2>2, <2>3 DEF ReceiveGet
  <1>6. CASE ReceiveDelete(c)
    <2>1. op[c] = "delete"
      BY <1>6 DEF ReceiveDelete
    <2>2. CASE Deleted(ans[c]) /\ Return(c, "returned")
      <3>1. \A d \in due[c] : stage[d] = "gone"
        BY <1>1, <1>2, <2>1, <2>2 DEF AnswerOf
      <3>2. QED BY <1>2, <1>3, <2>1, <2>2, <3>1, Ends
    <2>3. CASE ~ Return(c, "returned") /\ ~ Return(c, "raised")
      <3>1. /\ left[c] > 0 /\ Goto(c, "asleep") /\ nap' = [nap EXCEPT ![c] = DeleteDelay]
            /\ UNCHANGED <<pending, todo, cur, ans, left, flight, overdue, attempt>>
        BY <1>6, <2>3 DEF ReceiveDelete
      <3>2. pc'[c] = "asleep" /\ nap'[c] = DeleteDelay
        BY <1>1, <3>1 DEF Goto, Types
      <3>3. /\ left[c] \in Int /\ attempt[c] \in Int /\ Timeout \in Int
            /\ DeleteDelay \in Nat \ {0}
        BY <1>1, IngestAssumption, SupermemoryAssumption
           DEF Types, IngestAssumption, SupermemoryAssumption
      <3>4. AskOf(c)'
        BY <1>1, <1>2, <3>1, <3>2 DEF AskOf, Running, InFlight
      <3>5. TimeOf(c)'
        BY <1>1, <1>2, <2>1, <3>1, <3>2, <3>3 DEF TimeOf, Running, InFlight
      <3>6. AnswerOf(c)'
        BY <1>1, <1>2, <2>1, <3>1, <3>2 DEF AnswerOf, Running, There
      <3>7. OverdueOf(c)'
        BY <1>2, <2>1 DEF OverdueOf, Polls
      <3>8. QED BY <3>4, <3>5, <3>6, <3>7 DEF CallInv
    <2>4. CASE ~ Deleted(ans[c]) /\ Return(c, "returned")
      <3>1. Return(c, "raised") \/ Goto(c, "asleep")
        BY <1>6, <2>4 DEF ReceiveDelete
      <3>2. pc' # [pc EXCEPT ![c] = "asleep"]
        BY <1>1, <2>4 DEF Return, Goto, Types
      <3>3. QED BY <1>4, <3>1, <3>2 DEF Goto
    <2>5. QED BY <1>4, <2>2, <2>3, <2>4
  <1>7. CASE ReceiveWait(c)
    <2>1. op[c] = "wait"
      BY <1>7 DEF ReceiveWait
    <2>2. CASE ans[c] # "failure" /\ AllSettled(c) /\ Return(c, "returned")
      <3>1. \A d \in due[c] : There(d)
        BY <1>2, <2>1, <2>2, AfterAnswer DEF AllSettled
      <3>2. QED BY <1>2, <1>3, <2>1, <2>2, <3>1, Ends
    <2>3. CASE ans[c] # "failure" /\ ~AllSettled(c) /\ todo[c] = {} /\ Again(c)
      BY <1>2, <2>1, <2>3, PollsAgain DEF AllSettled
    <2>4. CASE /\ ans[c] # "failure"
               /\ pending' = [pending EXCEPT ![c] = PendingAfter(c)]
               /\ \E d \in todo[c] : Send(c, d) /\ todo' = [todo EXCEPT ![c] = @ \ {d}]
               /\ UNCHANGED <<left, nap, overdue, attempt>>
      BY <1>2, <2>1, <2>4, Sends
    <2>5. QED BY <1>4, <1>7, <2>2, <2>3, <2>4 DEF ReceiveWait
  <1>8. QED BY <1>5, <1>6, <1>7

\* The clock.
LEMMA Ticks ==
    ASSUME IInv, Tick, NEW c \in Calls
    PROVE  CallInv(c)'
  <1>1. Types /\ AskOf(c) /\ TimeOf(c) /\ AnswerOf(c) /\ OverdueOf(c)
    BY Parts DEF CallInv
  <1>2. UNCHANGED <<stage, op, pc, pending, todo, cur, ans, attempt, due>>
    BY DEF Tick
  <1>3. /\ left'[c] = IF Running(c) THEN left[c] - 1 ELSE left[c]
        /\ flight'[c] = IF InFlight(c) THEN flight[c] + 1 ELSE flight[c]
        /\ nap'[c] = IF pc[c] = "asleep" THEN nap[c] - 1 ELSE nap[c]
        /\ overdue'[c] = IF Overdue(c) THEN Shorter(overdue[c] + 1, MaxOverdue) ELSE overdue[c]
    BY DEF Tick
  <1>4. /\ left[c] \in Int /\ flight[c] \in Int /\ nap[c] \in Int /\ overdue[c] \in Int
        /\ attempt[c] \in Int /\ Timeout \in Int /\ MaxOverdue \in Int /\ Latency \in Int
        /\ DeleteDelay \in Int
    BY <1>1, IngestAssumption, SupermemoryAssumption, LongerBounds
       DEF Types, IngestAssumption, SupermemoryAssumption
  <1>5. AskOf(c)'
    BY <1>1, <1>2 DEF AskOf, Running, InFlight
  <1>6. AnswerOf(c)'
    BY <1>1, <1>2 DEF AnswerOf, Running, There
  <1>7. OverdueOf(c)'
    BY <1>1, <1>2, <1>3, <1>4 DEF OverdueOf, Overdue, Polls, Running, InFlight, Shorter
  <1>8. TimeOf(c)'
    BY <1>1, <1>2, <1>3, <1>4 DEF TimeOf, Overdue, Polls, Running, InFlight, Before
  <1>9. QED BY <1>5, <1>6, <1>7, <1>8 DEF CallInv

-----------------------------------------------------------------------------
(* The invariant *)

LEMMA InitInv == Init => IInv
  <1> SUFFICES ASSUME Init PROVE IInv
    OBVIOUS
  <1> USE DEF Init
  <1>1. Timeout \in Nat /\ Latency \in Nat /\ MaxOverdue \in Nat /\ Longer(MaxDelay, DeleteDelay) \in Nat
    BY IngestAssumption, SupermemoryAssumption, LongerBounds
       DEF IngestAssumption, SupermemoryAssumption
  <1>2. Types
    BY <1>1 DEF Types, PcType
  <1>3. AskInv /\ AnswerInv /\ OverdueInv
    BY DEF AskInv, AskOf, AnswerInv, AnswerOf, OverdueInv, OverdueOf, Polls, Running, InFlight
  <1>4. TimeInv
    BY <1>1 DEF TimeInv, TimeOf, Running, InFlight
  <1>5. QED BY <1>2, <1>3, <1>4 DEF IInv

LEMMA Inductive == IInv /\ [Next]_vars => IInv'
  <1> SUFFICES ASSUME IInv, [Next]_vars PROVE IInv'
    OBVIOUS
  <1>1. CASE Next
    <2>1. Types' /\ Types
      BY <1>1, TypesStep DEF IInv
    <2>2. ASSUME NEW c \in Calls
          PROVE  CallInv(c)'
      <3>1. CASE Tick
        BY <3>1, Ticks
      <3>2. CASE Call(c)
        BY <1>1, <3>2, CallStep
      <3>3. CASE Step(c)
        BY <1>1, <3>3, Serves, Wakes, Receives DEF Step
      <3>4. CASE Same(c)
        BY <1>1, <3>4, Stays DEF CallInv
      <3>5. ASSUME NEW d \in Docs, Progress(d)
            PROVE  Same(c)
        BY <3>5 DEF Progress, timers, Same
      <3>6. ASSUME NEW d \in Calls \ {c}, Call(d) \/ Step(d)
            PROVE  Same(c)
        BY <2>1, <3>6, OthersStay
      <3>7. QED BY <1>1, <3>1, <3>2, <3>3, <3>4, <3>5, <3>6 DEF Next
    <2>3. QED BY <2>1, <2>2 DEF IInv, AskInv, TimeInv, AnswerInv, OverdueInv, CallInv
  <1>2. CASE UNCHANGED vars
    <2> USE <1>2 DEF IInv, vars, timers
    <2>1. Types'
      BY DEF Types
    <2>2. AskInv' /\ AnswerInv' /\ OverdueInv'
      BY DEF AskInv, AskOf, AnswerInv, AnswerOf, OverdueInv, OverdueOf, Polls, Running, InFlight,
             There, Deleted
    <2>3. TimeInv'
      BY DEF TimeInv, TimeOf, Running, InFlight, Before
    <2>4. QED BY <2>1, <2>2, <2>3
  <1>3. QED BY <1>1, <1>2

\* The inductive invariant holds in every reachable state.
THEOREM Invariance == Spec => []IInv
  BY InitInv, Inductive, PTL DEF Spec

-----------------------------------------------------------------------------
(* What follows *)

LEMMA WaitInTime ==
    ASSUME IInv, NEW c \in Calls, Running(c), op[c] = "wait"
    PROVE  left[c] >= - (Cardinality(due[c]) * Latency)
  <1>1. Types /\ TimeOf(c)
    BY Parts DEF CallInv
  <1>2. /\ left[c] \in Int /\ nap[c] \in Nat /\ flight[c] \in Nat /\ flight[c] <= Latency
        /\ Latency \in Nat
    BY <1>1, LongerBounds, IngestAssumption, SupermemoryAssumption
       DEF Types, IngestAssumption, SupermemoryAssumption
  <1>3. IsFiniteSet(due[c]) /\ IsFiniteSet(todo[c])
    BY <1>1, FS_Subset, SupermemoryAssumption DEF Types, SupermemoryAssumption
  <1>4. Cardinality(due[c]) \in Nat /\ Cardinality(todo[c]) \in Nat
    BY <1>3, FS_CardinalityType
  <1>5. CASE pc[c] = "asleep"
    <2>1. Cardinality(due[c]) * Latency \in Nat
      BY <1>2, <1>4
    <2>2. QED BY <1>1, <1>2, <1>5, <2>1 DEF TimeOf
  <1>6. CASE InFlight(c)
    <2>1. Before(c) \in Int /\ Before(c) + 1 <= Cardinality(due[c])
      BY <1>4 DEF Before
    <2>2. /\ (Before(c) + 1) * Latency = Before(c) * Latency + Latency
          /\ (Before(c) + 1) * Latency <= Cardinality(due[c]) * Latency
      BY <1>2, <1>4, <2>1, Products
    <2>3. Before(c) * Latency \in Int /\ Cardinality(due[c]) * Latency \in Int
      BY <1>2, <1>4, <2>1
    <2>4. left[c] + flight[c] >= - (Before(c) * Latency)
      BY <1>1, <1>6 DEF TimeOf
    <2>5. QED BY <1>2, <2>2, <2>3, <2>4
  <1>7. QED BY <1>5, <1>6 DEF Running, InFlight

LEMMA OtherInTime ==
    ASSUME IInv, NEW c \in Calls, Running(c), op[c] # "wait"
    PROVE  left[c] >= IF op[c] = "delete" THEN 1 - DeleteDelay - Latency ELSE - Latency
  <1>1. Types /\ AskOf(c) /\ TimeOf(c)
    BY Parts DEF CallInv
  <1>2. /\ left[c] \in Int /\ nap[c] \in Nat /\ flight[c] \in Nat /\ flight[c] <= Latency
        /\ Latency \in Nat /\ DeleteDelay \in Nat
    BY <1>1, LongerBounds, IngestAssumption, SupermemoryAssumption
       DEF Types, IngestAssumption, SupermemoryAssumption
  <1>3. op[c] \in {"get", "add", "delete"}
    BY <1>1 DEF Types, AskOf
  <1>4. QED BY <1>1, <1>2, <1>3 DEF TimeOf, Running, InFlight

\* get(), blocking add(), wait_for_ingest() and delete() overrun their deadline
\* by no more than the requests of a cycle and, in delete(), its last sleep.
THEOREM Timely == Spec => []TimelyEnd
  <1>1. IInv => TimelyEnd
    BY WaitInTime, OtherInTime DEF TimelyEnd
  <1>2. QED BY <1>1, Invariance, PTL

\* The variables keep their types: in particular no deadline is overrun by more
\* than Overrun.
THEOREM TypeCorrect == Spec => []TypeOK
  <1>1. ASSUME IInv, NEW c \in Calls
        PROVE  left[c] \in (-Overrun)..Timeout
    <2>1. Types /\ TimeOf(c)
      BY <1>1, Parts DEF CallInv
    <2>2. Cardinality(Docs) \in Nat
      BY SupermemoryAssumption, FS_CardinalityType DEF SupermemoryAssumption
    <2>3. /\ Timeout \in Nat /\ Latency \in Nat /\ DeleteDelay \in Nat
          /\ Cardinality(Docs) * Latency \in Nat
      BY <2>2, IngestAssumption, SupermemoryAssumption DEF IngestAssumption, SupermemoryAssumption
    <2>4. /\ Overrun \in Nat
          /\ Cardinality(Docs) * Latency <= Overrun /\ DeleteDelay + Latency <= Overrun
      BY <2>3, LongerBounds DEF Overrun
    <2>5. left[c] \in Int /\ left[c] <= Timeout
      BY <2>1 DEF Types, TimeOf
    <2>6. CASE ~Running(c)
      BY <2>1, <2>3, <2>4, <2>6 DEF TimeOf
    <2>7. CASE Running(c) /\ op[c] = "wait"
      <3>1. IsFiniteSet(due[c]) /\ Cardinality(due[c]) <= Cardinality(Docs)
        BY <2>1, FS_Subset, SupermemoryAssumption DEF Types, SupermemoryAssumption
      <3>2. Cardinality(due[c]) \in Nat
        BY <3>1, FS_CardinalityType
      <3>3. Cardinality(due[c]) * Latency <= Cardinality(Docs) * Latency
        BY <2>2, <2>3, <3>1, <3>2, Products
      <3>4. Cardinality(due[c]) * Latency \in Nat
        BY <2>3, <3>2
      <3>5. left[c] >= - (Cardinality(due[c]) * Latency)
        BY <1>1, <2>7, WaitInTime
      <3>6. QED BY <2>3, <2>4, <2>5, <3>3, <3>4, <3>5
    <2>8. CASE Running(c) /\ op[c] # "wait"
      <3>1. left[c] >= IF op[c] = "delete" THEN 1 - DeleteDelay - Latency ELSE - Latency
        BY <1>1, <2>8, OtherInTime
      <3>2. QED BY <2>3, <2>4, <2>5, <3>1
    <2>9. QED BY <2>6, <2>7, <2>8
  <1>2. IInv => left \in [Calls -> (-Overrun)..Timeout]
    BY <1>1 DEF IInv, Types
  <1>3. IInv => TypeOK
    BY <1>2 DEF IInv, Types, TypeOK, PcType
  <1>4. QED BY <1>3, Invariance, PTL

\* A wait_for_ingest() that has returned has seen each of its documents there,
\* and they stay there or were deleted since.
THEOREM WaitIsVisible == Spec => []WaitMeansVisible
  <1>1. IInv => WaitMeansVisible
    BY DEF IInv, AnswerInv, AnswerOf, There, WaitMeansVisible
  <1>2. QED BY <1>1, Invariance, PTL

\* A delete() that has returned leaves nothing behind that was visible when it
\* began, refusals while the document is being ingested included.
THEOREM DeleteWorks == Spec => []DeleteIsReal
  <1>1. IInv => DeleteIsReal
    BY DEF IInv, AnswerInv, AnswerOf, DeleteIsReal
  <1>2. QED BY <1>1, Invariance, PTL

\* get() and blocking add() report a timeout only for a document that came
\* after, or one request's time before, the deadline.
THEOREM NothingMissed == Spec => NoMissedAnswer
  <1> DEFINE Missed(c) == Overdue(c) /\ pc'[c] \in {"timeout", "queued"}
             Soon(c) == overdue[c] <= Latency - left[c]
  <1>1. ASSUME IInv, Next, NEW c \in Calls, Missed(c)
        PROVE  Soon(c)
    <2>1. Types /\ AskOf(c) /\ AnswerOf(c) /\ OverdueOf(c)
      BY <1>1, Parts DEF CallInv
    <2>2. pc[c] \in {"sent", "served", "asleep"} /\ op[c] \in {"get", "add"}
      BY <1>1 DEF Overdue, Polls, Running
    <2>3. pc'[c] # pc[c]
      BY <1>1, <2>2
    <2>4. ~ Same(c)
      BY <2>3 DEF Same
    <2>5. \A d \in Calls \ {c} : ~ Call(d) /\ ~ Step(d)
      BY <2>1, <2>4, OthersStay
    <2>6. ~ Tick /\ \A d \in Docs : ~ Progress(d)
      BY <2>3 DEF Tick, Progress
    <2>7. ~ Call(c)
      BY <2>2 DEF Call, BlockingAdd, Add, Get, Delete, Wait, Begin
    <2>8. ReceiveGet(c)
      <3>1. Step(c)
        BY <1>1, <2>5, <2>6, <2>7 DEF Next
      <3>2. ~ ServeGet(c) /\ ~ ServeDelete(c) /\ ~ Wake(c)
        BY <1>1, <2>1 DEF ServeGet, ServeDelete, Wake, Send, Goto, Types
      <3>3. QED BY <2>2, <3>1, <3>2 DEF Step, ReceiveDelete, ReceiveWait
    <2>9. ~ Return(c, "returned") /\ ~ Return(c, "raised")
      BY <1>1, <2>1 DEF Return, Goto, Types
    <2>10. ans[c] \in {"404", "409", "tombstone"} /\ Again(c) /\ pc[c] = "served"
      BY <2>8, <2>9 DEF ReceiveGet
    <2>11. Expired(left[c], attempt[c])
      BY <1>1, <2>1, <2>10 DEF Again, Goto, Types
    <2>12. stage[cur[c]] = "settled"
      BY <1>1 DEF Overdue
    <2>13. overdue[c] <= flight[c]
      BY <1>1, <2>1, <2>2, <2>10, <2>12 DEF OverdueOf, AnswerOf, Overdue
    <2>14. /\ overdue[c] \in Int /\ flight[c] \in Int /\ flight[c] <= Latency
           /\ left[c] \in Int /\ Latency \in Int
      BY <2>1, SupermemoryAssumption DEF Types, SupermemoryAssumption
    <2>15. QED BY <2>11, <2>13, <2>14 DEF Expired
  <1>2. ASSUME UNCHANGED vars, NEW c \in Calls
        PROVE  ~ Missed(c)
    BY <1>2 DEF vars, Overdue, Polls, Running
  <1>3. IInv /\ [Next]_vars => [\A c \in Calls : Missed(c) => Soon(c)]_vars
    BY <1>1, <1>2
  <1>4. QED BY <1>3, Invariance, PTL DEF Spec, NoMissedAnswer

=============================================================================
