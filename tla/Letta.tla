------------------------------- MODULE Letta -------------------------------
(***************************************************************************)
(* LettaAdapter (adapters/letta.py) under AsyncThreadwrapAdapter: worker   *)
(* threads that share the adapter's two dictionaries and the Letta service *)
(* behind it.                                                              *)
(*                                                                         *)
(* A thread runs one call.  Its steps are the upstream requests and the    *)
(* accesses to the dictionaries; between two of them any other thread may  *)
(* run.  A request can fail with or without having taken effect.           *)
(*                                                                         *)
(* Agents are numbered in order of creation.  A memory is named by the     *)
(* call that added it; its passages are <<call, 1>>, <<call, 2>>, ..., all *)
(* on the agent that call used.  An OMP id is an agent and a passage, and  *)
(* the passage determines both.  What a passage says, the filters and the  *)
(* paging of list() are left out.                                          *)
(***************************************************************************)
EXTENDS Naturals, Sequences, FiniteSets

CONSTANTS Calls,        \* calls, one thread each
          Users,
          MaxPassages,  \* bound: passages one text is chunked into
          MaxTroubles   \* bound: requests that fail, agents deleted behind the
                        \* adapter's back and restarts, taken together

ASSUME LettaAssumption ==
    /\ MaxPassages \in Nat \ {0}
    /\ MaxTroubles \in Nat

Passages == Calls \X (1..MaxPassages)

VARIABLES
    \* the service
    owner,        \* owner[n]: the user agent n was created for
    gone,         \* agents that were deleted
    store,        \* passages that exist
    \* the adapter
    agent_cache,  \* _agent_cache: the agent of each user, 0 for none
    known,        \* _passages_by_id: how many passages of a memory are
                  \* remembered, 0 for no entry
    troubles,     \* what went wrong outside the adapter so far
    \* the calls
    op, user,     \* what each call does, and for which user
    pc,           \* where it is, or how it ended
    agent,        \* agent_id, 0 while unset
    chunks,       \* passages the service made for an add()
    ids, todo,    \* passage_ids of a delete(), and those still to be deleted
    seen          \* "deleted" for deleted_any, "failed" for last_exc

service == <<owner, gone, store>>
adapter == <<agent_cache, known>>
locals  == <<op, user, agent, chunks, ids, todo, seen>>
vars    == <<service, adapter, troubles, locals, pc>>

Agents == 1..Len(owner)
Reads  == {"list", "search"}
Ended  == {"done", "error", "not_found", "raw_not_found", "raw_error", "key_error", "killed"}

TypeOK ==
    /\ owner \in Seq(Users)
    /\ gone \subseteq Agents
    /\ store \subseteq Passages
    /\ agent_cache \in [Users -> {0} \cup Agents]
    /\ known \in [Calls -> 0..MaxPassages]
    /\ troubles \in 0..MaxTroubles
    /\ op \in [Calls -> {"none", "add", "delete"} \cup Reads]
    /\ user \in [Calls -> Users]
    /\ pc \in [Calls -> {"idle", "lookup", "create_agent", "cached", "ask", "ask_again",
                         "invalidate", "remember", "deleting", "forget"} \cup Ended]
    /\ agent \in [Calls -> {0} \cup Agents]
    /\ chunks \in [Calls -> 0..MaxPassages]
    /\ ids \in [Calls -> Seq(Passages)]
    /\ todo \in [Calls -> Seq(Passages)]
    /\ seen \in [Calls -> SUBSET {"deleted", "failed"}]

Init ==
    /\ owner = <<>>
    /\ gone = {}
    /\ store = {}
    /\ agent_cache = [u \in Users |-> 0]
    /\ known = [c \in Calls |-> 0]
    /\ troubles = 0
    /\ op = [c \in Calls |-> "none"]
    /\ user \in [Calls -> Users]
    /\ pc = [c \in Calls |-> "idle"]
    /\ agent = [c \in Calls |-> 0]
    /\ chunks = [c \in Calls |-> 0]
    /\ ids = [c \in Calls |-> <<>>]
    /\ todo = [c \in Calls |-> <<>>]
    /\ seen = [c \in Calls |-> {}]

Goto(c, where) == pc' = [pc EXCEPT ![c] = where]

Trouble == troubles < MaxTroubles /\ troubles' = troubles + 1

\* The passages on an agent.
OnAgent(n) == {p \in store : agent[p[1]] = n}

-----------------------------------------------------------------------------
(* _agent_for *)

LookupNext(c) == IF agent_cache[user[c]] = 0 THEN "create_agent" ELSE "cached"

Lookup(c) ==
    /\ pc[c] = "lookup"
    /\ Goto(c, LookupNext(c))
    /\ UNCHANGED <<troubles, service, adapter, locals>>

\* agents.create, and the write to the cache: nobody knows the agent before.
CacheKeyShared(c) == CHOOSE u \in Users : TRUE
CacheKey(c) == user[c]

CreateAgent(c) ==
    /\ pc[c] = "create_agent"
    /\ owner' = Append(owner, user[c])
    /\ agent_cache' = [agent_cache EXCEPT ![CacheKey(c)] = Len(owner) + 1]
    /\ Goto(c, "cached")
    /\ UNCHANGED <<troubles, gone, store, known, locals>>

\* The request fails; the service may have created an agent nobody will use.
CreateAgentFails(c) ==
    /\ Trouble
    /\ pc[c] = "create_agent"
    /\ owner' \in {owner, Append(owner, user[c])}
    /\ Goto(c, "error")
    /\ UNCHANGED <<gone, store, adapter, locals>>

\* `return self._agent_cache[user_id]`: another thread may have emptied the
\* entry since the test, and a KeyError leaves the adapter.
ReadCache(c) ==
    /\ pc[c] = "cached"
    /\ \/ /\ agent_cache[user[c]] # 0
          /\ agent' = [agent EXCEPT ![c] = agent_cache[user[c]]]
          /\ Goto(c, IF agent[c] = 0 THEN "ask" ELSE "ask_again")
       \/ /\ agent_cache[user[c]] = 0
          /\ Goto(c, "key_error")
          /\ UNCHANGED agent
    /\ UNCHANGED <<troubles, service, adapter, op, user, chunks, ids, todo, seen>>

-----------------------------------------------------------------------------
(* add() *)

\* add(), list(), search() and context() begin by looking the agent up.
Begin(c, what) ==
    /\ pc[c] = "idle"
    /\ op' = [op EXCEPT ![c] = what]
    /\ Goto(c, LookupNext(c))
    /\ UNCHANGED <<troubles, service, adapter, user, agent, chunks, ids, todo, seen>>

Asks(c, what) == pc[c] = "ask" /\ op[c] = what

\* passages.create: the service chunks the text.
Create(c) ==
    /\ agent[c] \notin gone
    /\ \E n \in 1..MaxPassages :
         /\ chunks' = [chunks EXCEPT ![c] = n]
         /\ store' = store \cup {<<c, i>> : i \in 1..n}

CreatePassages(c) ==
    /\ Asks(c, "add")
    /\ \/ /\ Create(c)
          /\ Goto(c, "remember")
       \/ /\ agent[c] \in gone
          /\ Goto(c, "not_found")
          /\ UNCHANGED <<store, chunks>>
    /\ UNCHANGED <<troubles, owner, gone, adapter, op, user, agent, ids, todo, seen>>

CreatePassagesFails(c) ==
    /\ Trouble
    /\ Asks(c, "add")
    /\ Create(c) \/ UNCHANGED <<store, chunks>>
    /\ Goto(c, "error")
    /\ UNCHANGED <<owner, gone, adapter, op, user, agent, ids, todo, seen>>

RememberFirst(c) == 1
RememberOneMore(c) == chunks[c] + 1
Remembered(c) == chunks[c]

Remember(c) ==
    /\ pc[c] = "remember"
    /\ known' = [known EXCEPT ![c] = Remembered(c)]
    /\ Goto(c, "done")
    /\ UNCHANGED <<troubles, service, agent_cache, locals>>

-----------------------------------------------------------------------------
(* list(), search() and context() *)

ReadPassages(c) ==
    /\ pc[c] \in {"ask", "ask_again"} /\ op[c] \in Reads
    /\ agent[c] \notin gone
    /\ Goto(c, "done")
    /\ UNCHANGED <<troubles, service, adapter, op, user, agent, chunks, ids, todo, seen>>

\* Only list() retries, and the error of its second request is not translated.
ReadNotFound(c) ==
    /\ pc[c] \in {"ask", "ask_again"} /\ op[c] \in Reads
    /\ agent[c] \in gone
    /\ \/ op[c] = "search" /\ Goto(c, "not_found")
       \/ op[c] = "list" /\ pc[c] = "ask" /\ Goto(c, "invalidate")
       \/ pc[c] = "ask_again" /\ Goto(c, "raw_not_found")
    /\ UNCHANGED <<troubles, service, adapter, locals>>

ReadFails(c) ==
    /\ Trouble
    /\ pc[c] \in {"ask", "ask_again"} /\ op[c] \in Reads
    /\ Goto(c, IF pc[c] = "ask" THEN "error" ELSE "raw_error")
    /\ UNCHANGED <<service, adapter, locals>>

\* _invalidate_agent drops the entry whichever agent it names by now.
CacheKept(u) == agent_cache
CacheWithout(u) == [agent_cache EXCEPT ![u] = 0]

Invalidate(c) ==
    /\ pc[c] = "invalidate"
    /\ agent_cache' = CacheWithout(user[c])
    /\ Goto(c, "lookup")
    /\ UNCHANGED <<troubles, service, known, locals>>

-----------------------------------------------------------------------------
(* delete() *)

\* The id is that of any passage there ever was: add() returns the first of a
\* memory, list() and search() show each as a memory of its own.
Targets == {p \in Passages : p[2] <= chunks[p[1]]}

IdsOf(p) ==
    IF p[2] = 1 /\ known[p[1]] # 0
    THEN [i \in 1..known[p[1]] |-> <<p[1], i>>]
    ELSE <<p>>

Delete(c) ==
    /\ pc[c] = "idle"
    /\ \E p \in Targets :
         /\ ids' = [ids EXCEPT ![c] = IdsOf(p)]
         /\ todo' = [todo EXCEPT ![c] = IdsOf(p)]
    /\ op' = [op EXCEPT ![c] = "delete"]
    /\ Goto(c, "deleting")
    /\ UNCHANGED <<troubles, service, adapter, user, agent, chunks, seen>>

StopsAtFirst(c, how) == IF how = "deleted" THEN <<>> ELSE Tail(todo[c])

\* One request deletes the passage, or finds it gone already.
Rest(c, how) == Tail(todo[c])

DeletePassage(c, how) ==
    /\ pc[c] = "deleting"
    /\ seen' = [seen EXCEPT ![c] = @ \cup {how}]
    /\ todo' = [todo EXCEPT ![c] = Rest(c, how)]
    /\ Goto(c, IF Rest(c, how) = <<>> THEN "forget" ELSE "deleting")
    /\ \/ how = "deleted" /\ store' = store \ {Head(todo[c])} /\ UNCHANGED troubles
       \/ how = "failed"  /\ store' \in {store, store \ {Head(todo[c])}} /\ Trouble
    /\ UNCHANGED <<owner, gone, adapter, op, user, agent, chunks, ids>>

\* The entry of the id is dropped, whatever became of the passages; one
\* deleted passage makes the call a success.
Forget(c) ==
    /\ pc[c] = "forget"
    /\ known' = [known EXCEPT ![ids[c][1][1]] = IF ids[c][1][2] = 1 THEN 0 ELSE @]
    /\ Goto(c, IF "deleted" \in seen[c] THEN "done" ELSE "error")
    /\ UNCHANGED <<troubles, service, agent_cache, locals>>

-----------------------------------------------------------------------------
(* What happens to the adapter *)

\* Somebody deletes an agent: its passages go with it.
AgentDeleted(n) ==
    /\ Trouble
    /\ gone' = gone \cup {n}
    /\ store' = store \ OnAgent(n)
    /\ UNCHANGED <<owner, adapter, locals, pc>>

\* The process dies with its threads and both dictionaries.
Restart ==
    /\ Trouble
    /\ agent_cache' = [u \in Users |-> 0]
    /\ known' = [c \in Calls |-> 0]
    /\ pc' = [c \in Calls |-> IF pc[c] \in {"idle"} \cup Ended THEN pc[c] ELSE "killed"]
    /\ UNCHANGED <<service, locals>>

Step(c) ==
    \/ Lookup(c) \/ CreateAgent(c) \/ CreateAgentFails(c) \/ ReadCache(c)
    \/ CreatePassages(c) \/ CreatePassagesFails(c) \/ Remember(c)
    \/ ReadPassages(c) \/ ReadNotFound(c) \/ ReadFails(c) \/ Invalidate(c)
    \/ DeletePassage(c, "deleted") \/ DeletePassage(c, "failed") \/ Forget(c)

Next ==
    \/ \E c \in Calls : Step(c) \/ Delete(c) \/ \E what \in {"add"} \cup Reads : Begin(c, what)
    \/ \E n \in Agents \ gone : AgentDeleted(n)
    \/ Restart

Spec == Init /\ [][Next]_vars

-----------------------------------------------------------------------------
(* Properties *)

\* Cross-user scoping: whatever two threads do to the cache, no call ever uses
\* the agent of another user, or finds there what was added for one.
OwnAgentOnly ==
    \A c \in Calls :
        agent[c] # 0 =>
            /\ owner[agent[c]] = user[c]
            /\ \A p \in OnAgent(agent[c]) : user[p[1]] = user[c]

\* FR-113: what is remembered of a memory covers every passage of it that the
\* service still has, also while another thread deletes it.
KnownIsComplete ==
    \A p \in store : known[p[1]] # 0 => p[2] <= known[p[1]]

\* FR-114: a delete() that reports success, and met no failure on the way, has
\* left none of the passages behind it went out to delete, and no add() or
\* list() of another thread brings one back.
DeleteComplete ==
    \A c \in Calls :
        op[c] = "delete" /\ pc[c] = "done" /\ "failed" \notin seen[c] =>
            \A i \in DOMAIN ids[c] : ids[c][i] \notin store

\* The agents of a user that were deleted, and the other list() calls of the
\* user that have got as far as an agent.
Lost(u) == {n \in gone : owner[n] = u}
Rivals(c) == {d \in Calls \ {c} : op[d] = "list" /\ user[d] = user[c] /\ agent[d] # 0}

\* _agent_for(), "invalidate-and-retry on NotFound": a list() that is the only
\* one of its user gets over the deletion of the agent.  It reports a missing
\* agent only when a second one has been deleted as well; and no call fails
\* with a KeyError but one whose user has lost an agent while another list() of
\* that user was there to drop the entry between the two accesses to the cache.
ListSurvivesAlone ==
    \A c \in Calls :
        /\ pc[c] = "raw_not_found" => Cardinality(Lost(user[c])) > 1
        /\ pc[c] = "key_error" => Lost(user[c]) # {} /\ Rivals(c) # {}

=============================================================================
