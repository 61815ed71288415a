---------------------------- MODULE Supermemory ----------------------------
(***************************************************************************)
(* SupermemoryAdapter (adapters/supermemory.py): worker threads that poll  *)
(* documents on their way through the service's ingestion, with the clock. *)
(*                                                                         *)
(* A request is sent, served and received in three steps, so that the      *)
(* answer may be out of date, or the deadline past, when it is looked at.  *)
(* Tick advances the clock of everybody.  No request takes longer than     *)
(* Latency (the timeout of the httpx client), and a thread wakes up when   *)
(* its sleep is over.  list(), search() and context() are one request each *)
(* and are left out, like a redirect, which is followed once.              *)
(***************************************************************************)
EXTENDS Ingest, FiniteSets

CONSTANTS Calls,        \* calls, one thread each
          Docs,
          Latency,      \* the longest a request takes
          DeleteDelay,  \* delete(): min(2, max(0.5, timeout / 20))
          MaxOverdue    \* bound: how far overdue is counted

ASSUME SupermemoryAssumption ==
    /\ IsFiniteSet(Docs)
    /\ Latency \in Nat /\ DeleteDelay \in Nat \ {0} /\ MaxOverdue \in Nat

VARIABLES
    stage,    \* where each document is
    op, pc,   \* what each call does, and where it is or how it ended
    pending,  \* the documents it still asks about
    todo,     \* those it has not asked about in this cycle
    cur,      \* the document of the request it has sent
    ans,      \* the answer it has been sent
    left,     \* the time to its deadline
    nap,      \* what is left of its sleep
    flight,   \* how long its request has taken
    attempt,
    overdue,  \* history: for how long it has been waiting for a document that
              \* is there
    due       \* history: what the call is to bring about: the documents given
              \* to wait_for_ingest(), or to delete() if visible by then

timers == <<left, nap, flight, overdue>>
vars   == <<stage, op, pc, pending, todo, cur, ans, timers, attempt, due>>

NoDoc   == "no document"
Answers == {"404", "409", "in_progress", "record", "tombstone", "deleted", "failure"}
Ended   == {"returned", "timeout", "queued", "raised"}

Longer(x, y) == IF x < y THEN y ELSE x

\* By how much a call may overrun its deadline.
Overrun == Longer(Cardinality(Docs) * Latency, DeleteDelay + Latency)

TypeOK ==
    /\ stage \in [Docs -> {"none", "hidden", "ingesting", "settled", "gone"}]
    /\ op \in [Calls -> {"none", "add", "get", "delete", "wait"}]
    /\ pc \in [Calls -> {"idle", "sent", "served", "asleep"} \cup Ended]
    /\ pending \in [Calls -> SUBSET Docs] /\ todo \in [Calls -> SUBSET Docs]
    /\ cur \in [Calls -> Docs \cup {NoDoc}]
    /\ ans \in [Calls -> Answers \cup {"none"}]
    /\ left \in [Calls -> (-Overrun)..Timeout]
    /\ nap \in [Calls -> 0..Longer(MaxDelay, DeleteDelay)]
    /\ flight \in [Calls -> 0..Latency]
    /\ attempt \in [Calls -> 0..Timeout]
    /\ overdue \in [Calls -> 0..MaxOverdue]
    /\ due \in [Calls -> SUBSET Docs]

\* Some documents are there from an earlier run of the program.
Init ==
    /\ stage \in [Docs -> {"none", "ingesting", "settled"}]
    /\ overdue = [c \in Calls |-> 0]
    /\ op = [c \in Calls |-> "none"]
    /\ pc = [c \in Calls |-> "idle"]
    /\ pending = [c \in Calls |-> {}] /\ todo = [c \in Calls |-> {}]
    /\ cur = [c \in Calls |-> NoDoc]
    /\ ans = [c \in Calls |-> "none"]
    /\ left = [c \in Calls |-> Timeout]
    /\ nap = [c \in Calls |-> 0]
    /\ flight = [c \in Calls |-> 0]
    /\ attempt = [c \in Calls |-> 0]
    /\ due = [c \in Calls |-> {}]

-----------------------------------------------------------------------------
(* The service and the clock *)

Goto(c, where) == pc' = [pc EXCEPT ![c] = where]

InFlight(c) == pc[c] \in {"sent", "served"}
Running(c)  == pc[c] \in {"sent", "served", "asleep"}
Polls(c)    == Running(c) /\ op[c] \in {"get", "add"}
Overdue(c)  == Polls(c) /\ stage[cur[c]] = "settled"

\* A document becomes visible, and its ingestion ends, well or badly.
Progress(d) ==
    /\ \/ stage[d] = "hidden" /\ stage' = [stage EXCEPT ![d] = "ingesting"]
       \/ stage[d] \in {"hidden", "ingesting"} /\ stage' = [stage EXCEPT ![d] = "settled"]
    /\ UNCHANGED <<op, pc, pending, todo, cur, ans, timers, attempt, due>>

Tick ==
    /\ \A c \in Calls : /\ InFlight(c) => flight[c] < Latency
                        /\ pc[c] = "asleep" => nap[c] > 0
    /\ overdue' = [c \in Calls |-> IF Overdue(c) THEN Shorter(overdue[c] + 1, MaxOverdue)
                                    ELSE overdue[c]]
    /\ left' = [c \in Calls |-> IF Running(c) THEN left[c] - 1 ELSE left[c]]
    /\ flight' = [c \in Calls |-> IF InFlight(c) THEN flight[c] + 1 ELSE flight[c]]
    /\ nap' = [c \in Calls |-> IF pc[c] = "asleep" THEN nap[c] - 1 ELSE nap[c]]
    /\ UNCHANGED <<stage, op, pc, pending, todo, cur, ans, attempt, due>>

\* What GET and DELETE answer.  A document that is being ingested is refused
\* or shown with its status, and "chunking" is not one of those that
\* wait_for_ingest() tells from a finished record; a deleted one is unknown or
\* shown as deleted.
GetAnswers(s) ==
    {"failure"} \cup
    CASE s = "hidden" -> {"404"}
      [] s = "ingesting" -> {"409", "in_progress", "record"}
      [] s = "settled" -> {"record"}
      [] s = "gone" -> {"404", "tombstone"}

ServeGet(c) ==
    /\ pc[c] = "sent" /\ op[c] # "delete"
    /\ \E a \in GetAnswers(stage[cur[c]]) : ans' = [ans EXCEPT ![c] = a]
    /\ Goto(c, "served")
    /\ UNCHANGED <<stage, op, pending, todo, cur, timers, attempt, due>>

ServeDelete(c) ==
    /\ pc[c] = "sent" /\ op[c] = "delete"
    /\ \/ /\ stage[cur[c]] \in {"ingesting", "settled"}
          /\ stage' = [stage EXCEPT ![cur[c]] = "gone"]
          /\ \E a \in {"deleted", "failure"} : ans' = [ans EXCEPT ![c] = a]
       \/ /\ stage[cur[c]] # "settled"
          /\ \E a \in {"failure", IF stage[cur[c]] = "ingesting" THEN "409" ELSE "404"} :
               ans' = [ans EXCEPT ![c] = a]
          /\ UNCHANGED stage
    /\ Goto(c, "served")
    /\ UNCHANGED <<op, pending, todo, cur, timers, attempt, due>>

-----------------------------------------------------------------------------
(* Calls *)

\* The first request of the call, with a fresh deadline.
Begin(c, what, docs) ==
    /\ pc[c] = "idle"
    /\ op' = [op EXCEPT ![c] = what]
    /\ pending' = [pending EXCEPT ![c] = docs]
    /\ \E d \in docs :
         /\ cur' = [cur EXCEPT ![c] = d]
         /\ todo' = [todo EXCEPT ![c] = docs \ {d}]
    /\ Goto(c, "sent")
    /\ UNCHANGED <<ans, timers, attempt>>

Known   == {d \in Docs : stage[d] # "none"}
Visible == {d \in Docs : stage[d] \in {"ingesting", "settled"}}

\* add() that waits for the ingestion of what it added.
BlockingAdd(c) ==
    \E d \in Docs \ Known :
        /\ \E s \in {"hidden", "ingesting"} : stage' = [stage EXCEPT ![d] = s]
        /\ Begin(c, "add", {d})
        /\ UNCHANGED due

\* The plain add(): one request, which may fail and yet arrive.
Add(c) ==
    /\ pc[c] = "idle"
    /\ op' = [op EXCEPT ![c] = "add"]
    /\ \E d \in Docs \ Known, s \in {"hidden", "ingesting"} :
         stage' = [stage EXCEPT ![d] = s]
    /\ Goto(c, "queued") \/ Goto(c, "raised")
    /\ UNCHANGED <<pending, todo, cur, ans, timers, attempt, due>>

Get(c) ==
    \E d \in Known : Begin(c, "get", {d}) /\ UNCHANGED <<stage, due>>

Delete(c) ==
    \E d \in Known :
        /\ Begin(c, "delete", {d})
        /\ due' = [due EXCEPT ![c] = {d} \cap Visible]
        /\ UNCHANGED stage

Wait(c) ==
    \E docs \in SUBSET Known :
        /\ docs # {}
        /\ Begin(c, "wait", docs)
        /\ due' = [due EXCEPT ![c] = docs]
        /\ UNCHANGED stage

-----------------------------------------------------------------------------
(* The poll loop *)

Send(c, d) ==
    /\ Goto(c, "sent")
    /\ cur' = [cur EXCEPT ![c] = d]
    /\ ans' = [ans EXCEPT ![c] = "none"]
    /\ flight' = [flight EXCEPT ![c] = 0]

\* The call ends, and its locals are gone.
Return(c, how) ==
    /\ Goto(c, how)
    /\ pending' = [pending EXCEPT ![c] = {}]
    /\ todo' = [todo EXCEPT ![c] = {}]
    /\ cur' = [cur EXCEPT ![c] = NoDoc]
    /\ ans' = [ans EXCEPT ![c] = "none"]
    /\ left' = [left EXCEPT ![c] = Timeout]
    /\ nap' = [nap EXCEPT ![c] = 0]
    /\ flight' = [flight EXCEPT ![c] = 0]
    /\ attempt' = [attempt EXCEPT ![c] = 0]
    /\ overdue' = [overdue EXCEPT ![c] = 0]

\* What there is to ask about again: get() asks about its document until it has
\* it, wait_for_ingest() about those that are not there yet.
PendingAfter(c) ==
    IF op[c] = "wait" /\ ans[c] \notin {"404", "409", "in_progress"}
    THEN pending[c] \ {cur[c]}
    ELSE pending[c]

\* The poll found nothing.
Again(c) ==
    IF Expired(left[c], attempt[c])
    THEN Return(c, IF op[c] = "add" THEN "queued" ELSE "timeout")
    ELSE /\ Goto(c, "asleep")
         /\ nap' = [nap EXCEPT ![c] = Delay(left[c], attempt[c])]
         /\ attempt' = [attempt EXCEPT ![c] = @ + 1]
         /\ pending' = [pending EXCEPT ![c] = PendingAfter(c)]
         /\ UNCHANGED <<todo, cur, ans, left, flight, overdue>>

\* The sleep is over: a new cycle.
Wake(c) ==
    /\ pc[c] = "asleep" /\ nap[c] = 0
    /\ \E d \in pending[c] :
         /\ Send(c, d)
         /\ todo' = [todo EXCEPT ![c] = pending[c] \ {d}]
    /\ UNCHANGED <<stage, op, pending, left, nap, overdue, attempt, due>>

\* get() returns whatever record is not a tombstone.
ReceiveGet(c) ==
    /\ pc[c] = "served" /\ op[c] \in {"get", "add"}
    /\ \/ ans[c] \in {"record", "in_progress"} /\ Return(c, "returned")
       \/ ans[c] \in {"404", "409", "tombstone"} /\ Again(c)
       \/ ans[c] = "failure" /\ Return(c, "raised")
    /\ UNCHANGED <<stage, op, due>>

DeletedWhateverTheAnswer(a) == a # "failure"
Deleted(a) == a \in {"deleted", "404"}

\* delete() has a loop of its own, whose sleep may reach past the deadline.
ReceiveDelete(c) ==
    /\ pc[c] = "served" /\ op[c] = "delete"
    /\ \/ Deleted(ans[c]) /\ Return(c, "returned")
       \/ /\ ~Deleted(ans[c]) /\ ans[c] = "409" /\ left[c] > 0
          /\ Goto(c, "asleep")
          /\ nap' = [nap EXCEPT ![c] = DeleteDelay]
          /\ UNCHANGED <<pending, todo, cur, ans, left, flight, overdue, attempt>>
       \/ /\ ~Deleted(ans[c]) /\ (ans[c] = "409" => left[c] <= 0)
          /\ Return(c, "raised")
    /\ UNCHANGED <<stage, op, due>>

AllAsked(c) == todo[c] = {}
AllSettled(c) == todo[c] = {} /\ PendingAfter(c) = {}

ReceiveWait(c) ==
    /\ pc[c] = "served" /\ op[c] = "wait"
    /\ \/ ans[c] = "failure" /\ Return(c, "raised")
       \/ ans[c] # "failure" /\ AllSettled(c) /\ Return(c, "returned")
       \/ ans[c] # "failure" /\ ~AllSettled(c) /\ todo[c] = {} /\ Again(c)
       \/ /\ ans[c] # "failure"
          /\ pending' = [pending EXCEPT ![c] = PendingAfter(c)]
          /\ \E d \in todo[c] :
               /\ Send(c, d)
               /\ todo' = [todo EXCEPT ![c] = @ \ {d}]
          /\ UNCHANGED <<left, nap, overdue, attempt>>
    /\ UNCHANGED <<stage, op, due>>

-----------------------------------------------------------------------------

Call(c) == BlockingAdd(c) \/ Add(c) \/ Get(c) \/ Delete(c) \/ Wait(c)

Step(c) ==
    \/ ServeGet(c) \/ ServeDelete(c) \/ Wake(c)
    \/ ReceiveGet(c) \/ ReceiveDelete(c) \/ ReceiveWait(c)

Next ==
    \/ \E c \in Calls : Call(c) \/ Step(c)
    \/ \E d \in Docs : Progress(d)
    \/ Tick

Spec == Init /\ [][Next]_vars

-----------------------------------------------------------------------------
(* Properties *)

\* No call outlives its deadline by more than the request it is in (each
\* document's one, in a last cycle of wait_for_ingest) and, in delete(), its
\* last sleep.
TimelyEnd ==
    \A c \in Calls :
        Running(c) =>
            left[c] >= CASE op[c] = "wait" -> - (Cardinality(due[c]) * Latency)
                         [] op[c] = "delete" -> 1 - DeleteDelay - Latency
                         [] OTHER -> - Latency

\* poll_until polls once more when the deadline has come: get() does not report
\* a timeout for a document that was there a request's time before the deadline.
NoMissedAnswer ==
    [][\A c \in Calls :
         Overdue(c) /\ pc'[c] \in {"timeout", "queued"} =>
             overdue[c] <= Latency - left[c]]_vars

\* When wait_for_ingest() returns, every document it was given is there for the
\* service, or was until somebody deleted it, although they are asked about one
\* at a time, over several cycles.
WaitMeansVisible ==
    \A c \in Calls :
        op[c] = "wait" /\ pc[c] = "returned" =>
            \A d \in due[c] : stage[d] \notin {"none", "hidden"}

\* The comment in delete(): it blocks until ingestion completes, so that no
\* document leaks.  What was visible when it began is gone when it returns.
DeleteIsReal ==
    \A c \in Calls :
        op[c] = "delete" /\ pc[c] = "returned" => \A d \in due[c] : stage[d] = "gone"

=============================================================================
