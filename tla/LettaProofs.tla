---------------------------- MODULE LettaProofs ----------------------------
(***************************************************************************)
(* What holds of Letta for any calls, users and lengths of texts, however  *)
(* many requests fail, agents are deleted and restarts happen.             *)
(***************************************************************************)
EXTENDS Letta, SequenceTheorems, FiniteSetTheorems, TLAPS

\* The agents the adapter and its calls know belong to the right user.
AgentInv ==
    /\ \A u \in Users : agent_cache[u] # 0 => owner[agent_cache[u]] = u
    /\ \A c \in Calls : agent[c] # 0 => owner[agent[c]] = user[c]

\* A memory is stored once, by its own call, and remembered as it was stored.
PassageInv ==
    /\ \A p \in store : p[2] <= chunks[p[1]]
    /\ \A c \in Calls : /\ chunks[c] # 0 => pc[c] \in {"remember"} \cup Ended
                        /\ known[c] # 0 => known[c] = chunks[c]

\* What a delete() found and has not deleted is still to do; it is nothing
\* that an add() is yet to store.
DeleteOf(c) ==
    /\ pc[c] \in {"deleting", "forget"} => op[c] = "delete" /\ ids[c] # <<>>
    /\ pc[c] = "deleting" => todo[c] # <<>>
    /\ op[c] = "delete" =>
         /\ pc[c] \in {"deleting", "forget"} \cup Ended
         /\ pc[c] \in {"forget", "done"} => todo[c] = <<>>
         /\ \A i \in 1..Len(ids[c]) :
              /\ ids[c][i][2] <= chunks[ids[c][i][1]]
              /\ "failed" \notin seen[c] /\ ids[c][i] \in store =>
                   \E j \in 1..Len(todo[c]) : todo[c][j] = ids[c][i]

DeleteInv == \A c \in Calls : DeleteOf(c)

\* A list() asks again only with another agent than the one it found deleted.
ListOf(c) ==
    /\ pc[c] = "idle" => agent[c] = 0
    /\ pc[c] \in {"ask", "ask_again", "invalidate"} => agent[c] # 0
    /\ pc[c] = "invalidate" => agent[c] \in gone
    /\ pc[c] \in {"lookup", "create_agent", "cached"} /\ agent[c] # 0 =>
         agent[c] \in gone /\ agent_cache[user[c]] # agent[c]
    /\ pc[c] = "ask_again" => \E n \in gone : n # agent[c] /\ owner[n] = user[c]
    /\ pc[c] = "raw_not_found" =>
         \E n, m \in gone : n # m /\ owner[n] = user[c] /\ owner[m] = user[c]

ListInv == \A c \in Calls : ListOf(c)

\* A call finds the entry it tested gone only when another list() of its user
\* was there to drop it, because an agent of the user was deleted.
Raced(c) == Lost(user[c]) # {} /\ Rivals(c) # {}

RaceOf(c) ==
    /\ pc[c] = "invalidate" => op[c] = "list"
    /\ pc[c] = "key_error" => Raced(c)
    /\ pc[c] = "cached" /\ agent_cache[user[c]] = 0 => Raced(c)

RaceInv == \A c \in Calls : RaceOf(c)

IInv == TypeOK /\ AgentInv /\ PassageInv /\ DeleteInv /\ ListInv /\ RaceInv

-----------------------------------------------------------------------------
(* Types *)

\* The ids of a delete() are passages of one memory, and are some.
LEMMA IdsOfTypes ==
    ASSUME TypeOK, NEW p \in Targets
    PROVE  /\ IdsOf(p) \in Seq(Passages) /\ IdsOf(p) # <<>>
           /\ \A i \in 1..Len(IdsOf(p)) : IdsOf(p)[i][1] = p[1]
           /\ known[p[1]] \in {0, chunks[p[1]]} =>
                \A i \in 1..Len(IdsOf(p)) : IdsOf(p)[i][2] <= chunks[p[1]]
  <1>1. p[1] \in Calls /\ p[2] \in 1..MaxPassages /\ p \in Passages /\ p[2] <= chunks[p[1]]
    BY DEF Targets, Passages
  <1>2. Len(<<>>) = 0
    BY EmptySeq
  <1>3. CASE p[2] = 1 /\ known[p[1]] # 0
    <2> DEFINE s == [i \in 1..known[p[1]] |-> <<p[1], i>>]
    <2>1. known[p[1]] \in Nat \ {0} /\ known[p[1]] <= MaxPassages
      BY <1>1, <1>3, LettaAssumption DEF TypeOK, LettaAssumption
    <2>2. \A i \in 1..known[p[1]] : <<p[1], i>> \in Passages
      BY <1>1, <2>1, LettaAssumption DEF Passages, LettaAssumption
    <2>3. s \in Seq(Passages)
      BY <2>1, <2>2, IsASeq
    <2>4. Len(s) = known[p[1]]
      BY <2>1, <2>3, LenProperties
    <2>5. IdsOf(p) = s
      BY <1>3 DEF IdsOf
    <2>6. \A i \in 1..known[p[1]] : s[i] = <<p[1], i>>
      OBVIOUS
    <2> HIDE DEF s
    <2>7. \A i \in 1..Len(s) : s[i][1] = p[1] /\ s[i][2] = i
      BY <2>4, <2>6
    <2>8. known[p[1]] = chunks[p[1]] => \A i \in 1..Len(s) : i <= chunks[p[1]]
      BY <2>1, <2>4
    <2>9. QED BY <1>2, <1>3, <2>1, <2>3, <2>4, <2>5, <2>7, <2>8
  <1>4. CASE ~ (p[2] = 1 /\ known[p[1]] # 0)
    <2>1. IdsOf(p) = <<p>>
      BY <1>4 DEF IdsOf
    <2>2. <<p>> \in Seq(Passages) /\ Len(<<p>>) = 1 /\ <<p>>[1] = p
      BY <1>1
    <2>3. QED BY <1>1, <1>2, <2>1, <2>2
  <1>5. QED BY <1>3, <1>4

PcType == {"idle", "lookup", "create_agent", "cached", "ask", "ask_again", "invalidate",
           "remember", "deleting", "forget"} \cup Ended

\* A step that moves a call and leaves everything else but troubles alone.
LEMMA MoveTypes ==
    ASSUME TypeOK, NEW c \in Calls, NEW w \in PcType, Goto(c, w),
           UNCHANGED <<service, adapter, locals>>, UNCHANGED troubles \/ Trouble
    PROVE  TypeOK'
  <1>1. pc' \in [Calls -> PcType]
    BY DEF TypeOK, PcType, Goto
  <1>2. troubles' \in 0..MaxTroubles
    BY LettaAssumption DEF TypeOK, Trouble, LettaAssumption
  <1>3. QED BY <1>1, <1>2 DEF TypeOK, PcType, service, adapter, locals, Agents

\* A new agent keeps the old ones.
LEMMA AppendOwner ==
    ASSUME TypeOK, NEW u \in Users, owner' = Append(owner, u)
    PROVE  /\ owner' \in Seq(Users) /\ Agents \subseteq Agents' /\ Len(owner) + 1 \in Agents'
           /\ \A n \in Agents : owner'[n] = owner[n]
           /\ owner'[Len(owner) + 1] = u
           /\ Len(owner) \in Nat
  <1>1. owner \in Seq(Users)
    BY DEF TypeOK
  <1>2. /\ owner' \in Seq(Users) /\ Len(owner') = Len(owner) + 1 /\ Len(owner) \in Nat
        /\ \A i \in 1..Len(owner) : owner'[i] = owner[i]
        /\ owner'[Len(owner) + 1] = u
    BY <1>1, AppendProperties, LenProperties
  <1>3. QED BY <1>2 DEF Agents

\* The types hold after each step of a call.
LEMMA StepTypes ==
    ASSUME IInv, NEW c \in Calls, Step(c)
    PROVE  TypeOK'
  <1> USE DEF IInv
  <1>1. CASE Lookup(c)
    <2>1. LookupNext(c) \in PcType
      BY DEF LookupNext, PcType
    <2>2. QED BY <1>1, <2>1, MoveTypes DEF Lookup
  <1>2. CASE CreateAgent(c) \/ CreateAgentFails(c)
    <2>1. user[c] \in Users
      BY DEF TypeOK
    <2>2. PICK w \in {"cached", "error"} : Goto(c, w)
      BY <1>2 DEF CreateAgent, CreateAgentFails
    <2>3. pc' \in [Calls -> PcType]
      BY <2>2 DEF Goto, TypeOK, PcType, Ended
    <2>4. troubles' \in 0..MaxTroubles
      BY <1>2, LettaAssumption DEF CreateAgent, CreateAgentFails, Trouble, TypeOK, LettaAssumption
    <2>5. UNCHANGED <<gone, store, known, locals>>
      BY <1>2 DEF CreateAgent, CreateAgentFails, adapter
    <2>6. CASE owner' = Append(owner, user[c])
      <3>1. /\ owner' \in Seq(Users) /\ Agents \subseteq Agents' /\ Len(owner) + 1 \in Agents'
        BY <2>1, <2>6, AppendOwner
      <3>2. agent_cache' \in [Users -> {0} \cup Agents']
        BY <1>2, <2>1, <3>1 DEF CreateAgent, CreateAgentFails, CacheKey, adapter, TypeOK
      <3>3. agent' \in [Calls -> {0} \cup Agents'] /\ gone' \subseteq Agents'
        BY <2>5, <3>1 DEF TypeOK, locals
      <3>4. QED BY <2>3, <2>4, <2>5, <3>1, <3>2, <3>3 DEF TypeOK, PcType, locals
    <2>7. CASE UNCHANGED <<owner, agent_cache>>
      BY <2>3, <2>4, <2>5, <2>7 DEF TypeOK, PcType, locals, Agents
    <2>8. QED BY <1>2, <2>6, <2>7 DEF CreateAgent, CreateAgentFails, adapter
  <1>3. CASE ReadCache(c)
    <2>1. pc' \in [Calls -> PcType]
      BY <1>3 DEF ReadCache, Goto, TypeOK, PcType, Ended
    <2>2. agent' \in [Calls -> {0} \cup Agents]
      BY <1>3 DEF ReadCache, TypeOK
    <2>3. QED BY <1>3, <2>1, <2>2 DEF ReadCache, TypeOK, PcType, Agents, service, adapter
  <1>4. CASE CreatePassages(c) \/ CreatePassagesFails(c)
    <2>1. pc' \in [Calls -> PcType]
      BY <1>4 DEF CreatePassages, CreatePassagesFails, Goto, TypeOK, PcType, Ended
    <2>2. troubles' \in 0..MaxTroubles
      BY <1>4, LettaAssumption DEF CreatePassages, CreatePassagesFails, Trouble, TypeOK,
                                   LettaAssumption
    <2>3. store' \subseteq Passages /\ chunks' \in [Calls -> 0..MaxPassages]
      <3>1. CASE Create(c)
        <4>1. PICK n \in 1..MaxPassages : /\ chunks' = [chunks EXCEPT ![c] = n]
                                          /\ store' = store \cup {<<c, i>> : i \in 1..n}
          BY <3>1 DEF Create
        <4>2. \A i \in 1..n : <<c, i>> \in Passages
          BY LettaAssumption DEF Passages, LettaAssumption
        <4>3. n \in 0..MaxPassages
          BY LettaAssumption DEF LettaAssumption
        <4>4. QED BY <4>1, <4>2, <4>3 DEF TypeOK
      <3>2. CASE UNCHANGED <<store, chunks>>
        BY <3>2 DEF TypeOK
      <3>3. QED BY <1>4, <3>1, <3>2 DEF CreatePassages, CreatePassagesFails
    <2>4. QED BY <1>4, <2>1, <2>2, <2>3 DEF CreatePassages, CreatePassagesFails, TypeOK, PcType,
                                            Agents, adapter
  <1>5. CASE Remember(c)
    <2>1. pc' \in [Calls -> PcType] /\ known' \in [Calls -> 0..MaxPassages]
      BY <1>5 DEF Remember, Remembered, Goto, TypeOK, PcType, Ended
    <2>2. QED BY <1>5, <2>1 DEF Remember, TypeOK, PcType, Agents, service, locals
  <1>6. CASE ReadPassages(c)
    <2>1. "done" \in PcType
      BY DEF PcType, Ended
    <2>2. UNCHANGED locals
      BY <1>6 DEF ReadPassages, locals
    <2>3. QED BY <1>6, <2>1, <2>2, MoveTypes DEF ReadPassages
  <1>7. CASE ReadNotFound(c)
    <2>1. PICK w \in {"not_found", "invalidate", "raw_not_found"} : Goto(c, w)
      BY <1>7 DEF ReadNotFound
    <2>2. w \in PcType
      BY DEF PcType, Ended
    <2>3. QED BY <1>7, <2>1, <2>2, MoveTypes DEF ReadNotFound
  <1>8. CASE ReadFails(c)
    <2>1. PICK w \in {"error", "raw_error"} : Goto(c, w)
      BY <1>8 DEF ReadFails
    <2>2. w \in PcType
      BY DEF PcType, Ended
    <2>3. QED BY <1>8, <2>1, <2>2, MoveTypes DEF ReadFails
  <1>9. CASE Invalidate(c)
    <2>1. pc' \in [Calls -> PcType] /\ agent_cache' \in [Users -> {0} \cup Agents]
      BY <1>9 DEF Invalidate, CacheWithout, Goto, TypeOK, PcType
    <2>2. QED BY <1>9, <2>1 DEF Invalidate, TypeOK, PcType, Agents, service, locals
  <1>10. ASSUME NEW how \in {"deleted", "failed"}, DeletePassage(c, how)
         PROVE  TypeOK'
    <2>1. pc' \in [Calls -> PcType]
      BY <1>10 DEF DeletePassage, Goto, TypeOK, PcType
    <2>2. troubles' \in 0..MaxTroubles
      BY <1>10, LettaAssumption DEF DeletePassage, Trouble, TypeOK, LettaAssumption
    <2>3. Rest(c, how) \in Seq(Passages)
      <3>1. todo[c] # <<>> /\ todo[c] \in Seq(Passages)
        BY <1>10 DEF DeletePassage, DeleteInv, DeleteOf, TypeOK
      <3>2. QED BY <3>1, HeadTailProperties DEF Rest
    <2>4. /\ todo' \in [Calls -> Seq(Passages)] /\ store' \subseteq Passages
          /\ seen' \in [Calls -> SUBSET {"deleted", "failed"}]
      BY <1>10, <2>3 DEF DeletePassage, TypeOK
    <2>5. QED BY <1>10, <2>1, <2>2, <2>4 DEF DeletePassage, TypeOK, PcType, Agents, adapter
  <1>11. CASE Forget(c)
    <2>1. pc' \in [Calls -> PcType]
      BY <1>11 DEF Forget, Goto, TypeOK, PcType, Ended
    <2>2. known' \in [Calls -> 0..MaxPassages]
      <3>1. ids[c] \in Seq(Passages) /\ ids[c] # <<>>
        BY <1>11 DEF Forget, DeleteInv, DeleteOf, TypeOK
      <3>2. ids[c][1] \in Passages
        BY <3>1, EmptySeq
      <3>3. PICK m \in Calls : m = ids[c][1][1]
        BY <3>2 DEF Passages
      <3>4. /\ known \in [Calls -> 0..MaxPassages]
            /\ known' = [known EXCEPT ![m] = IF ids[c][1][2] = 1 THEN 0 ELSE known[m]]
        BY <1>11, <3>3 DEF Forget, TypeOK
      <3>5. known[m] \in 0..MaxPassages /\ 0 \in 0..MaxPassages
        BY <3>4, LettaAssumption DEF LettaAssumption
      <3>6. QED BY <3>4, <3>5
    <2>3. QED BY <1>11, <2>1, <2>2 DEF Forget, TypeOK, PcType, Agents, service, locals
  <1>12. QED BY <1>1, <1>2, <1>3, <1>4, <1>5, <1>6, <1>7, <1>8, <1>9, <1>10, <1>11 DEF Step

\* And after the others.
LEMMA OtherTypes ==
    ASSUME IInv,
           \/ \E c \in Calls : Delete(c) \/ \E what \in {"add"} \cup Reads : Begin(c, what)
           \/ \E n \in Agents \ gone : AgentDeleted(n)
           \/ Restart
    PROVE  TypeOK'
  <1> USE DEF IInv
  <1>1. ASSUME NEW c \in Calls, NEW what \in {"add"} \cup Reads, Begin(c, what)
        PROVE  TypeOK'
    <2>1. pc' \in [Calls -> PcType]
      BY <1>1 DEF Begin, LookupNext, Goto, TypeOK, PcType
    <2>2. QED BY <1>1, <2>1 DEF Begin, TypeOK, PcType, Agents, service, adapter
  <1>2. ASSUME NEW c \in Calls, Delete(c)
        PROVE  TypeOK'
    <2>1. PICK p \in Targets : /\ ids' = [ids EXCEPT ![c] = IdsOf(p)]
                               /\ todo' = [todo EXCEPT ![c] = IdsOf(p)]
      BY <1>2 DEF Delete
    <2>2. ids' \in [Calls -> Seq(Passages)] /\ todo' \in [Calls -> Seq(Passages)]
      BY <2>1, IdsOfTypes DEF TypeOK
    <2>3. pc' \in [Calls -> PcType]
      BY <1>2 DEF Delete, Goto, TypeOK, PcType
    <2>4. QED BY <1>2, <2>2, <2>3 DEF Delete, TypeOK, PcType, Agents, service, adapter
  <1>3. ASSUME NEW n \in Agents \ gone, AgentDeleted(n)
        PROVE  TypeOK'
    <2>1. troubles' \in 0..MaxTroubles
      BY <1>3, LettaAssumption DEF AgentDeleted, Trouble, TypeOK, LettaAssumption
    <2>2. gone' \subseteq Agents /\ store' \subseteq Passages
      BY <1>3 DEF AgentDeleted, TypeOK
    <2>3. QED BY <1>3, <2>1, <2>2 DEF AgentDeleted, TypeOK, Agents, adapter, locals
  <1>4. CASE Restart
    <2>1. troubles' \in 0..MaxTroubles
      BY <1>4, LettaAssumption DEF Restart, Trouble, TypeOK, LettaAssumption
    <2>2. /\ pc' \in [Calls -> PcType] /\ agent_cache' \in [Users -> {0} \cup Agents]
          /\ known' \in [Calls -> 0..MaxPassages]
      BY <1>4, LettaAssumption DEF Restart, TypeOK, PcType, Ended, LettaAssumption
    <2>3. QED BY <1>4, <2>1, <2>2 DEF Restart, TypeOK, PcType, Agents, service, locals
  <1>5. QED BY <1>1, <1>2, <1>3, <1>4

-----------------------------------------------------------------------------
(* What a step leaves of the agents *)

\* No step takes an agent, its owner or its deletion back.
LEMMA AgentsStay ==
    ASSUME IInv, Next
    PROVE  /\ user' = user
           /\ Agents \subseteq Agents' /\ gone \subseteq gone'
           /\ \A n \in Agents : owner'[n] = owner[n]
  <1> USE DEF IInv
  <1>1. user' = user
    BY DEF Next, Step, Lookup, CreateAgent, CreateAgentFails, ReadCache, CreatePassages,
           CreatePassagesFails, Remember, ReadPassages, ReadNotFound, ReadFails, Invalidate,
           DeletePassage, Forget, Delete, Begin, AgentDeleted, Restart, locals
  <1>2. gone \subseteq gone'
    BY DEF Next, Step, Lookup, CreateAgent, CreateAgentFails, ReadCache, CreatePassages,
           CreatePassagesFails, Remember, ReadPassages, ReadNotFound, ReadFails, Invalidate,
           DeletePassage, Forget, Delete, Begin, AgentDeleted, Restart, service
  <1>3. owner' = owner \/ \E c \in Calls : owner' = Append(owner, user[c])
    BY DEF Next, Step, Lookup, CreateAgent, CreateAgentFails, ReadCache, CreatePassages,
           CreatePassagesFails, Remember, ReadPassages, ReadNotFound, ReadFails, Invalidate,
           DeletePassage, Forget, Delete, Begin, AgentDeleted, Restart, service
  <1>4. CASE owner' = owner
    BY <1>1, <1>2, <1>4 DEF Agents
  <1>5. ASSUME NEW c \in Calls, owner' = Append(owner, user[c])
        PROVE  Agents \subseteq Agents' /\ \A n \in Agents : owner'[n] = owner[n]
    <2>1. user[c] \in Users
      BY DEF TypeOK
    <2>2. QED BY <1>5, <2>1, AppendOwner
  <1>6. QED BY <1>1, <1>2, <1>3, <1>4, <1>5

-----------------------------------------------------------------------------
(* AgentInv *)

LEMMA AgentStep ==
    ASSUME IInv, Next
    PROVE  AgentInv'
  <1> USE DEF IInv
  <1>1. \A n \in Agents : owner'[n] = owner[n]
    BY AgentsStay
  <1>2. user' = user /\ user \in [Calls -> Users]
    BY AgentsStay DEF TypeOK
  <1>3. \A c \in Calls : agent[c] # 0 => agent[c] \in Agents
    BY DEF TypeOK
  <1>4. \A u \in Users : agent_cache[u] # 0 => agent_cache[u] \in Agents
    BY DEF TypeOK
  <1>5. \A u \in Users : agent_cache'[u] # 0 => owner'[agent_cache'[u]] = u
    <2>1. CASE \E c \in Calls : CreateAgent(c)
      <3>1. PICK c \in Calls : CreateAgent(c)
        BY <2>1
      <3>2. owner'[Len(owner) + 1] = user[c]
        BY <1>2, <3>1, AppendOwner DEF CreateAgent
      <3>3. agent_cache' = [agent_cache EXCEPT ![user[c]] = Len(owner) + 1]
        BY <3>1 DEF CreateAgent, CacheKey
      <3>4. agent_cache \in [Users -> {0} \cup Agents]
        BY DEF TypeOK
      <3>5. QED BY <1>1, <1>2, <1>4, <3>2, <3>3, <3>4 DEF AgentInv
    <2>2. CASE ~ \E c \in Calls : CreateAgent(c)
      <3>1. \A u \in Users : agent_cache'[u] \in {0, agent_cache[u]}
        BY <2>2 DEF Next, Step, Lookup, CreateAgentFails, ReadCache, CreatePassages,
                    CreatePassagesFails, Remember, ReadPassages, ReadNotFound, ReadFails,
                    Invalidate, CacheWithout, DeletePassage, Forget, Delete, Begin, AgentDeleted,
                    Restart, adapter, TypeOK
      <3>2. QED BY <1>1, <1>4, <3>1 DEF AgentInv
    <2>3. QED BY <2>1, <2>2
  <1>6. \A c \in Calls : agent'[c] # 0 => owner'[agent'[c]] = user'[c]
    <2>1. ASSUME NEW c \in Calls, ReadCache(c), NEW d \in Calls, agent'[d] # 0
          PROVE  agent'[d] = agent[d] \/ agent'[d] = agent_cache[user[d]]
      BY <2>1 DEF ReadCache, TypeOK
    <2>2. CASE ~ \E c \in Calls : ReadCache(c)
      <3>1. agent' = agent
        BY <2>2 DEF Next, Step, Lookup, CreateAgent, CreateAgentFails, CreatePassages,
                    CreatePassagesFails, Remember, ReadPassages, ReadNotFound, ReadFails,
                    Invalidate, DeletePassage, Forget, Delete, Begin, AgentDeleted, Restart, locals
      <3>2. QED BY <1>1, <1>2, <1>3, <3>1 DEF AgentInv
    <2>3. ASSUME NEW c \in Calls, ReadCache(c), NEW d \in Calls, agent'[d] # 0
          PROVE  owner'[agent'[d]] = user'[d]
      <3>1. user[d] \in Users
        BY <1>2
      <3>2. QED BY <1>1, <1>2, <1>3, <1>4, <2>1, <2>3, <3>1 DEF AgentInv
    <2>4. QED BY <2>2, <2>3
  <1>7. QED BY <1>5, <1>6 DEF AgentInv

-----------------------------------------------------------------------------
(* PassageInv *)

LEMMA PassageStep ==
    ASSUME IInv, Next
    PROVE  PassageInv'
  <1> USE DEF IInv
  <1> DEFINE Stored == {"remember"} \cup Ended
  <1>1. \A p \in store : p[1] \in Calls /\ p[2] \in 1..MaxPassages
    BY DEF TypeOK, Passages
  <1>2. ASSUME NEW c \in Calls, CreatePassages(c) \/ CreatePassagesFails(c)
        PROVE  PassageInv'
    <2>1. UNCHANGED known
      BY <1>2 DEF CreatePassages, CreatePassagesFails, adapter
    <2>2. pc[c] = "ask"
      BY <1>2 DEF CreatePassages, CreatePassagesFails, Asks
    <2>3. PICK w \in Stored : Goto(c, w)
      BY <1>2 DEF CreatePassages, CreatePassagesFails, Ended
    <2>4. pc'[c] \in Stored /\ \A d \in Calls \ {c} : pc'[d] = pc[d]
      BY <2>3 DEF Goto, TypeOK
    <2>5. CASE UNCHANGED <<store, chunks>>
      BY <2>1, <2>4, <2>5 DEF PassageInv
    <2>6. CASE Create(c)
      <3>1. PICK n \in 1..MaxPassages : /\ chunks' = [chunks EXCEPT ![c] = n]
                                        /\ store' = store \cup {<<c, i>> : i \in 1..n}
        BY <2>6 DEF Create
      <3>2. chunks[c] = 0 /\ known[c] = 0
        BY <2>2 DEF PassageInv, Ended
      <3>3. chunks'[c] = n /\ \A d \in Calls \ {c} : chunks'[d] = chunks[d]
        BY <3>1 DEF TypeOK
      <3>4. ASSUME NEW p \in store'
            PROVE  p[2] <= chunks'[p[1]]
        <4>1. CASE p \in store
          <5>1. p[1] \in Calls /\ p[2] \in 1..MaxPassages /\ p[2] <= chunks[p[1]]
            BY <1>1, <4>1 DEF PassageInv
          <5>2. p[1] # c
            BY <3>2, <5>1
          <5>3. QED BY <3>3, <5>1, <5>2
        <4>2. CASE p \notin store
          <5>1. PICK i \in 1..n : p = <<c, i>>
            BY <3>1, <4>2
          <5>2. QED BY <3>3, <5>1
        <4>3. QED BY <4>1, <4>2
      <3>5. QED BY <2>1, <2>4, <3>2, <3>3, <3>4 DEF PassageInv
    <2>7. QED BY <1>2, <2>5, <2>6 DEF CreatePassages, CreatePassagesFails
  <1>3. ASSUME NEW c \in Calls, Remember(c)
        PROVE  PassageInv'
    <2>1. known' = [known EXCEPT ![c] = chunks[c]] /\ UNCHANGED <<store, chunks>>
      BY <1>3 DEF Remember, Remembered, service, locals
    <2>2. pc'[c] \in Stored /\ \A d \in Calls \ {c} : pc'[d] = pc[d]
      BY <1>3 DEF Remember, Goto, TypeOK, Ended
    <2>3. QED BY <2>1, <2>2 DEF PassageInv, TypeOK
  <1>4. CASE ~ \E c \in Calls : CreatePassages(c) \/ CreatePassagesFails(c) \/ Remember(c)
    <2>1. UNCHANGED chunks
      BY <1>4 DEF Next, Step, Lookup, CreateAgent, CreateAgentFails, ReadCache, ReadPassages,
                  ReadNotFound, ReadFails, Invalidate, DeletePassage, Forget, Delete, Begin,
                  AgentDeleted, Restart, locals
    <2>2. store' \subseteq store
      BY <1>4 DEF Next, Step, Lookup, CreateAgent, CreateAgentFails, ReadCache, ReadPassages,
                  ReadNotFound, ReadFails, Invalidate, DeletePassage, Forget, Delete, Begin,
                  AgentDeleted, Restart, service
    <2>3. \A d \in Calls : known'[d] \in {0, known[d]}
      BY <1>4 DEF Next, Step, Lookup, CreateAgent, CreateAgentFails, ReadCache, ReadPassages,
                  ReadNotFound, ReadFails, Invalidate, DeletePassage, Forget, Delete, Begin,
                  AgentDeleted, Restart, adapter, TypeOK
    <2>4. \A d \in Calls : pc[d] \in Stored => pc'[d] \in Stored
      BY <1>4 DEF Next, Step, Lookup, CreateAgent, CreateAgentFails, ReadCache, ReadPassages,
                  ReadNotFound, ReadFails, Invalidate, DeletePassage, Forget, Delete, Begin,
                  AgentDeleted, Restart, Goto, Ended, TypeOK
    <2>5. \A p \in store' : p[2] <= chunks'[p[1]]
      BY <2>1, <2>2 DEF PassageInv
    <2> HIDE DEF Stored
    <2>6. \A d \in Calls : (chunks'[d] # 0 => pc'[d] \in Stored)
                          /\ (known'[d] # 0 => known'[d] = chunks'[d])
      BY <2>1, <2>3, <2>4 DEF PassageInv, Stored
    <2>7. QED BY <2>5, <2>6 DEF PassageInv, Stored
  <1>5. QED BY <1>2, <1>3, <1>4

-----------------------------------------------------------------------------
(* ListInv *)

\* A call that does not move keeps its part of the invariant, whatever the
\* others do to the cache: no agent comes back into it.
LEMMA ListKept ==
    ASSUME IInv, Next, NEW d \in Calls, pc'[d] = pc[d], agent'[d] = agent[d]
    PROVE  ListOf(d)'
  <1> USE DEF IInv
  <1>1. /\ user' = user /\ user[d] \in Users
        /\ gone \subseteq gone' /\ \A n \in gone : owner'[n] = owner[n]
    BY AgentsStay DEF TypeOK
  <1>2. agent[d] # 0 /\ agent_cache[user[d]] # agent[d] => agent_cache'[user[d]] # agent[d]
    <2>1. Len(owner) \in Nat /\ agent[d] \in {0} \cup Agents
      BY LenProperties DEF TypeOK
    <2>2. agent_cache'[user[d]] \in {0, Len(owner) + 1, agent_cache[user[d]]}
      BY <1>1 DEF Next, Step, Lookup, CreateAgent, CreateAgentFails, ReadCache, CreatePassages,
                  CreatePassagesFails, Remember, ReadPassages, ReadNotFound, ReadFails,
                  Invalidate, CacheWithout, CacheKey, DeletePassage, Forget, Delete, Begin,
                  AgentDeleted, Restart, adapter, TypeOK
    <2>3. QED BY <2>1, <2>2 DEF Agents
  <1>3. ListOf(d)
    BY DEF ListInv
  <1>4. QED BY <1>1, <1>2, <1>3 DEF ListOf

LEMMA ListStep ==
    ASSUME IInv, Next
    PROVE  ListInv'
  <1> USE DEF IInv
  <1>1. /\ user' = user /\ user \in [Calls -> Users]
        /\ gone \subseteq gone' /\ \A n \in gone : owner'[n] = owner[n]
    BY AgentsStay DEF TypeOK
  <1> SUFFICES ASSUME NEW c \in Calls, ~ (pc'[c] = pc[c] /\ agent'[c] = agent[c])
               PROVE  ListOf(c)'
    BY ListKept DEF ListInv
  <1>2. ListOf(c)
    BY DEF ListInv
  <1> DEFINE Others == \E d \in Calls \ {c} :
                           Step(d) \/ Delete(d) \/ \E what \in {"add"} \cup Reads : Begin(d, what)
  <1>3. ~ Others
    <2>1. SUFFICES ASSUME NEW d \in Calls \ {c},
                          \/ Step(d)
                          \/ Delete(d)
                          \/ \E what \in {"add"} \cup Reads : Begin(d, what)
                   PROVE  pc'[c] = pc[c] /\ agent'[c] = agent[c]
      OBVIOUS
    <2>2. pc'[c] = pc[c]
      BY <2>1 DEF Step, Lookup, CreateAgent, CreateAgentFails, ReadCache, CreatePassages,
                  CreatePassagesFails, Remember, ReadPassages, ReadNotFound, ReadFails,
                  Invalidate, DeletePassage, Forget, Delete, Begin, Goto, TypeOK
    <2>3. agent'[c] = agent[c]
      BY <2>1 DEF Step, Lookup, CreateAgent, CreateAgentFails, ReadCache, CreatePassages,
                  CreatePassagesFails, Remember, ReadPassages, ReadNotFound, ReadFails,
                  Invalidate, DeletePassage, Forget, Delete, Begin, locals, TypeOK
    <2>4. QED BY <2>2, <2>3
  <1>4. CASE Lookup(c)
    <2>1. /\ UNCHANGED <<agent, agent_cache, gone, owner>> /\ pc[c] = "lookup"
          /\ pc'[c] \in {"create_agent", "cached"}
      BY <1>4 DEF Lookup, LookupNext, Goto, TypeOK, locals, adapter, service
    <2>2. QED BY <1>1, <1>2, <2>1 DEF ListOf
  <1>5. CASE CreateAgent(c)
    <2>1. Len(owner) \in Nat /\ agent[c] \in {0} \cup Agents
      BY LenProperties DEF TypeOK
    <2>2. /\ UNCHANGED <<agent, gone>> /\ pc[c] = "create_agent" /\ pc'[c] = "cached"
          /\ agent_cache'[user[c]] = Len(owner) + 1
      BY <1>1, <1>5 DEF CreateAgent, CacheKey, Goto, TypeOK, locals
    <2>3. agent[c] # 0 => agent[c] # Len(owner) + 1
      BY <2>1 DEF Agents
    <2>4. QED BY <1>1, <1>2, <2>2, <2>3 DEF ListOf
  <1>6. CASE ReadCache(c)
    <2>1. /\ UNCHANGED <<gone, owner>> /\ pc[c] = "cached"
          /\ \/ pc'[c] = "ask" /\ agent'[c] # 0
             \/ /\ pc'[c] = "ask_again" /\ agent[c] # 0 /\ agent'[c] # 0
                /\ agent'[c] = agent_cache[user[c]]
             \/ pc'[c] = "key_error"
      BY <1>6 DEF ReadCache, Goto, TypeOK, service
    <2>2. agent[c] # 0 => owner[agent[c]] = user[c]
      BY DEF AgentInv
    <2>3. QED BY <1>1, <1>2, <2>1, <2>2 DEF ListOf
  <1>7. CASE ReadNotFound(c)
    <2>1. /\ UNCHANGED <<agent, gone, owner>> /\ agent[c] \in gone
          /\ pc[c] \in {"ask", "ask_again"}
          /\ \/ pc'[c] \in {"not_found", "invalidate"}
             \/ pc[c] = "ask_again" /\ pc'[c] = "raw_not_found"
      BY <1>7 DEF ReadNotFound, Goto, TypeOK, locals, service
    <2>2. agent[c] # 0 => owner[agent[c]] = user[c]
      BY DEF AgentInv
    <2>3. QED BY <1>1, <1>2, <2>1, <2>2 DEF ListOf
  <1>8. CASE Invalidate(c)
    <2>1. /\ UNCHANGED <<agent, gone, owner>> /\ pc[c] = "invalidate" /\ pc'[c] = "lookup"
          /\ agent_cache'[user[c]] = 0
      BY <1>1, <1>8 DEF Invalidate, CacheWithout, Goto, TypeOK, locals, service
    <2>2. QED BY <1>1, <1>2, <2>1 DEF ListOf
  <1>9. ASSUME NEW what \in {"add"} \cup Reads, Begin(c, what)
        PROVE  ListOf(c)'
    <2>1. /\ UNCHANGED agent /\ pc[c] = "idle" /\ pc'[c] \in {"create_agent", "cached"}
      BY <1>9 DEF Begin, LookupNext, Goto, TypeOK
    <2>2. QED BY <1>2, <2>1 DEF ListOf
  <1>10. CASE CreateAgentFails(c) \/ CreatePassages(c) \/ CreatePassagesFails(c) \/ Remember(c)
              \/ ReadPassages(c) \/ ReadFails(c) \/ Delete(c) \/ Forget(c)
              \/ DeletePassage(c, "deleted") \/ DeletePassage(c, "failed")
    <2>1. pc'[c] \in {"error", "remember", "not_found", "done", "raw_error", "deleting", "forget"}
      BY <1>10 DEF CreateAgentFails, CreatePassages, CreatePassagesFails, Remember, ReadPassages,
                   ReadFails, Delete, Forget, DeletePassage, Goto, TypeOK
    <2>2. QED BY <2>1 DEF ListOf
  <1>11. CASE Restart
    <2>1. pc'[c] = "killed" /\ pc'[c] # pc[c]
      BY <1>11 DEF Restart, locals
    <2>2. QED BY <2>1 DEF ListOf
  <1>12. ASSUME NEW n \in Agents \ gone, AgentDeleted(n)
         PROVE  ListOf(c)'
    BY <1>12 DEF AgentDeleted, locals
  <1> HIDE DEF Others
  <1>13. Next => \/ Others \/ Step(c) \/ Delete(c) \/ \E what \in {"add"} \cup Reads : Begin(c, what)
                 \/ \E n \in Agents \ gone : AgentDeleted(n)
                 \/ Restart
    BY DEF Next, Others
  <1>14. QED BY <1>3, <1>4, <1>5, <1>6, <1>7, <1>8, <1>9, <1>10, <1>11, <1>12, <1>13 DEF Step

-----------------------------------------------------------------------------
(* RaceInv *)

\* Neither a deletion nor a rival goes away: a list() keeps its agent until it
\* has another one.
LEMMA RacedStays ==
    ASSUME IInv, Next, NEW c \in Calls, Raced(c)
    PROVE  Raced(c)'
  <1> USE DEF IInv
  <1>1. /\ user' = user /\ gone \subseteq gone'
        /\ \A n \in gone : owner'[n] = owner[n]
    BY AgentsStay DEF TypeOK
  <1>2. PICK n \in gone : owner[n] = user[c]
    BY DEF Raced, Lost
  <1>3. PICK d \in Calls \ {c} : op[d] = "list" /\ user[d] = user[c] /\ agent[d] # 0
    BY DEF Raced, Rivals
  <1>4. pc[d] # "idle"
    BY <1>3 DEF ListInv, ListOf
  <1>5. op'[d] = op[d]
    BY <1>4 DEF Next, Step, Lookup, CreateAgent, CreateAgentFails, ReadCache, CreatePassages,
                CreatePassagesFails, Remember, ReadPassages, ReadNotFound, ReadFails, Invalidate,
                DeletePassage, Forget, Delete, Begin, AgentDeleted, Restart, locals, TypeOK
  <1>6. agent'[d] # 0
    BY <1>3 DEF Next, Step, Lookup, CreateAgent, CreateAgentFails, ReadCache, CreatePassages,
                CreatePassagesFails, Remember, ReadPassages, ReadNotFound, ReadFails, Invalidate,
                DeletePassage, Forget, Delete, Begin, AgentDeleted, Restart, locals, TypeOK
  <1>7. n \in (Lost(user[c]))' /\ d \in (Rivals(c))'
    BY <1>1, <1>2, <1>3, <1>5, <1>6 DEF Lost, Rivals
  <1>8. QED BY <1>7 DEF Raced

\* Only a rival takes the entry away from a call that is about to read it.
LEMMA EntryTaken ==
    ASSUME IInv, Next, NEW c \in Calls, pc[c] = "cached", pc'[c] = "cached",
           agent_cache[user[c]] # 0, agent_cache'[user[c]] = 0
    PROVE  Raced(c)'
  <1> USE DEF IInv
  <1>1. user[c] \in Users /\ Len(owner) + 1 # 0
    BY LenProperties DEF TypeOK
  <1>2. PICK d \in Calls : Invalidate(d) /\ user[d] = user[c]
    <2>1. agent_cache' # agent_cache
      OBVIOUS
    <2>2. PICK d \in Calls : CreateAgent(d) \/ Invalidate(d) \/ Restart
      BY <2>1 DEF Next, Step, Lookup, CreateAgentFails, ReadCache, CreatePassages,
                  CreatePassagesFails, Remember, ReadPassages, ReadNotFound, ReadFails,
                  DeletePassage, Forget, Delete, Begin, AgentDeleted, adapter
    <2>3. ~ Restart
      BY DEF Restart, Ended
    <2>4. ~ CreateAgent(d)
      BY <1>1 DEF CreateAgent, CacheKey, TypeOK
    <2>5. user[d] = user[c]
      BY <1>1, <2>2, <2>3, <2>4 DEF Invalidate, CacheWithout, TypeOK
    <2>6. QED BY <2>2, <2>3, <2>4, <2>5
  <1>3. d # c /\ UNCHANGED <<owner, gone, op, user, agent>>
    BY <1>2 DEF Invalidate, service, locals
  <1>4. /\ op[d] = "list" /\ agent[d] # 0 /\ agent[d] \in gone
        /\ owner[agent[d]] = user[d]
    BY <1>2 DEF Invalidate, RaceInv, RaceOf, ListInv, ListOf, AgentInv
  <1>5. agent[d] \in (Lost(user[c]))' /\ d \in (Rivals(c))'
    BY <1>2, <1>3, <1>4 DEF Lost, Rivals
  <1>6. QED BY <1>5 DEF Raced

LEMMA RaceStep ==
    ASSUME IInv, Next
    PROVE  RaceInv'
  <1> USE DEF IInv
  <1> SUFFICES ASSUME NEW c \in Calls
               PROVE  RaceOf(c)'
    BY DEF RaceInv
  <1>1. RaceOf(c) /\ user'[c] = user[c] /\ user[c] \in Users
    BY AgentsStay DEF RaceInv, TypeOK
  <1>2. pc'[c] = "invalidate" => op'[c] = "list"
    <2>1. CASE pc[c] = "invalidate"
      <3>1. op'[c] = op[c] \/ pc'[c] # "invalidate"
        BY <2>1 DEF Next, Step, Lookup, CreateAgent, CreateAgentFails, ReadCache, CreatePassages,
                    CreatePassagesFails, Remember, ReadPassages, ReadNotFound, ReadFails,
                    Invalidate, DeletePassage, Forget, Delete, Begin, AgentDeleted, Restart,
                    locals, TypeOK
      <3>2. QED BY <1>1, <2>1, <3>1 DEF RaceOf
    <2>2. CASE pc[c] # "invalidate" /\ pc'[c] = "invalidate"
      <3>1. ReadNotFound(c)
        BY <2>2 DEF Next, Step, Lookup, LookupNext, CreateAgent, CreateAgentFails, ReadCache,
                    CreatePassages, CreatePassagesFails, Remember, ReadPassages, ReadNotFound,
                    ReadFails, Invalidate, DeletePassage, Forget, Delete, Begin, AgentDeleted,
                    Restart, Goto, TypeOK
      <3>2. QED BY <2>2, <3>1 DEF ReadNotFound, Goto, locals, TypeOK
    <2>3. QED BY <2>1, <2>2
  <1>3. pc'[c] = "key_error" => Raced(c)'
    <2>1. CASE pc[c] = "key_error"
      BY <1>1, <2>1, RacedStays DEF RaceOf
    <2>2. CASE pc[c] # "key_error" /\ pc'[c] = "key_error"
      <3>1. ReadCache(c)
        BY <2>2 DEF Next, Step, Lookup, LookupNext, CreateAgent, CreateAgentFails, ReadCache,
                    CreatePassages, CreatePassagesFails, Remember, ReadPassages, ReadNotFound,
                    ReadFails, Invalidate, DeletePassage, Forget, Delete, Begin, AgentDeleted,
                    Restart, Goto, TypeOK
      <3>2. pc[c] = "cached" /\ agent_cache[user[c]] = 0
        BY <2>2, <3>1 DEF ReadCache, Goto, TypeOK
      <3>3. QED BY <1>1, <3>2, RacedStays DEF RaceOf
    <2>3. QED BY <2>1, <2>2
  <1>4. ASSUME pc'[c] = "cached", agent_cache'[user[c]] = 0
        PROVE  Raced(c)'
    <2>1. CASE pc[c] = "cached"
      BY <1>1, <1>4, <2>1, RacedStays, EntryTaken DEF RaceOf
    <2>2. CASE pc[c] # "cached"
      <3>1. Lookup(c) \/ CreateAgent(c) \/ \E what \in {"add"} \cup Reads : Begin(c, what)
        <4>1. /\ pc'[c] = "cached" /\ pc[c] # "cached"
              /\ pc \in [Calls -> PcType]
          BY <1>4, <2>2 DEF TypeOK, PcType
        <4>2. CASE Restart \/ \E n \in Agents \ gone : AgentDeleted(n)
          BY <4>1, <4>2 DEF Restart, AgentDeleted
        <4>3. ASSUME NEW d \in Calls, Step(d)
              PROVE  Lookup(c) \/ CreateAgent(c)
          BY <4>1, <4>3 DEF Step, Lookup, CreateAgent, CreateAgentFails, ReadCache,
                            CreatePassages, CreatePassagesFails, Remember, ReadPassages,
                            ReadNotFound, ReadFails, Invalidate, DeletePassage, Forget, Goto
        <4>4. ASSUME NEW d \in Calls, Delete(d) \/ \E what \in {"add"} \cup Reads : Begin(d, what)
              PROVE  \E what \in {"add"} \cup Reads : Begin(c, what)
          BY <4>1, <4>4 DEF Delete, Begin, Goto
        <4>5. QED BY <4>2, <4>3, <4>4 DEF Next
      <3>2. CASE CreateAgent(c)
        <4>1. Len(owner) + 1 # 0
          BY LenProperties DEF TypeOK
        <4>2. agent_cache'[user[c]] = Len(owner) + 1
          BY <1>1, <3>2 DEF CreateAgent, CacheKey, TypeOK
        <4>3. QED BY <1>4, <4>1, <4>2
      <3>3. CASE Lookup(c) \/ \E what \in {"add"} \cup Reads : Begin(c, what)
        <4>1. agent_cache' = agent_cache /\ pc'[c] = LookupNext(c)
          BY <3>3 DEF Lookup, Begin, Goto, adapter, TypeOK
        <4>2. QED BY <1>4, <4>1 DEF LookupNext
      <3>4. QED BY <3>1, <3>2, <3>3
    <2>3. QED BY <2>1, <2>2
  <1>5. QED BY <1>1, <1>2, <1>3, <1>4 DEF RaceOf

-----------------------------------------------------------------------------
(* DeleteInv *)

\* A passage that was made once is not made again.
LEMMA OldPassages ==
    ASSUME IInv, Next, NEW p \in Passages, p[2] <= chunks[p[1]]
    PROVE  p[2] <= chunks'[p[1]] /\ (p \in store' => p \in store)
  <1> USE DEF IInv
  <1>1. p[1] \in Calls /\ p[2] \in 1..MaxPassages
    BY DEF Passages
  <1>2. ASSUME NEW c \in Calls, CreatePassages(c) \/ CreatePassagesFails(c), Create(c)
        PROVE  p[2] <= chunks'[p[1]] /\ (p \in store' => p \in store)
    <2>1. chunks[c] = 0
      BY <1>2 DEF CreatePassages, CreatePassagesFails, Asks, PassageInv, Ended
    <2>2. p[1] # c
      BY <1>1, <2>1
    <2>3. PICK n \in 1..MaxPassages : /\ chunks' = [chunks EXCEPT ![c] = n]
                                      /\ store' = store \cup {<<c, i>> : i \in 1..n}
      BY <1>2 DEF Create
    <2>4. QED BY <1>1, <2>2, <2>3 DEF TypeOK
  <1>3. CASE ~ \E c \in Calls : (CreatePassages(c) \/ CreatePassagesFails(c)) /\ Create(c)
    <2>1. UNCHANGED chunks
      BY <1>3 DEF Next, Step, Lookup, CreateAgent, CreateAgentFails, ReadCache, CreatePassages,
                  CreatePassagesFails, Remember, ReadPassages, ReadNotFound, ReadFails,
                  Invalidate, DeletePassage, Forget, Delete, Begin, AgentDeleted, Restart, locals
    <2>2. store' \subseteq store
      BY <1>3 DEF Next, Step, Lookup, CreateAgent, CreateAgentFails, ReadCache, CreatePassages,
                  CreatePassagesFails, Remember, ReadPassages, ReadNotFound, ReadFails,
                  Invalidate, DeletePassage, Forget, Delete, Begin, AgentDeleted, Restart, service
    <2>3. QED BY <2>1, <2>2
  <1>4. QED BY <1>2, <1>3

\* The passages of a delete() keep their part of the invariant as long as it
\* does not move.
LEMMA PassagesKept ==
    ASSUME IInv, Next, NEW c \in Calls, op[c] = "delete",
           ids'[c] = ids[c], todo'[c] = todo[c], seen'[c] = seen[c],
           NEW i \in 1..Len(ids'[c])
    PROVE  /\ ids'[c][i][2] <= chunks'[ids'[c][i][1]]
           /\ "failed" \notin seen'[c] /\ ids'[c][i] \in store' =>
                \E j \in 1..Len(todo'[c]) : todo'[c][j] = ids'[c][i]
  <1> USE DEF IInv
  <1>1. ids[c] \in Seq(Passages) /\ i \in 1..Len(ids[c])
    BY DEF TypeOK
  <1>2. ids[c][i] \in Passages
    BY <1>1, ElementOfSeq
  <1>3. /\ ids[c][i][2] <= chunks[ids[c][i][1]]
        /\ "failed" \notin seen[c] /\ ids[c][i] \in store =>
             \E j \in 1..Len(todo[c]) : todo[c][j] = ids[c][i]
    BY <1>1 DEF DeleteInv, DeleteOf
  <1>4. /\ ids[c][i][2] <= chunks'[ids[c][i][1]]
        /\ ids[c][i] \in store' => ids[c][i] \in store
    BY <1>2, <1>3, OldPassages
  <1>5. QED BY <1>3, <1>4

LEMMA DeleteKept ==
    ASSUME IInv, Next, NEW c \in Calls, op'[c] = op[c],
           ids'[c] = ids[c], todo'[c] = todo[c], seen'[c] = seen[c],
           \/ pc'[c] = pc[c]
           \/ pc'[c] \notin {"deleting", "forget"} /\ op[c] # "delete"
           \/ pc'[c] = "killed"
           \/ pc[c] = "forget" /\ pc'[c] \in {"done", "error"}
    PROVE  DeleteOf(c)'
  <1>1. DeleteOf(c)
    BY DEF IInv, DeleteInv
  <1>2. op[c] = "delete" =>
          \A i \in 1..Len(ids'[c]) :
              /\ ids'[c][i][2] <= chunks'[ids'[c][i][1]]
              /\ "failed" \notin seen'[c] /\ ids'[c][i] \in store' =>
                   \E j \in 1..Len(todo'[c]) : todo'[c][j] = ids'[c][i]
    BY PassagesKept
  <1>3. /\ pc'[c] \in {"deleting", "forget"} => op'[c] = "delete" /\ ids'[c] # <<>>
        /\ pc'[c] = "deleting" => todo'[c] # <<>>
        /\ op'[c] = "delete" => /\ pc'[c] \in {"deleting", "forget"} \cup Ended
                                /\ pc'[c] \in {"forget", "done"} => todo'[c] = <<>>
    BY <1>1 DEF DeleteOf, Ended
  <1>4. QED BY <1>2, <1>3 DEF DeleteOf

LEMMA DeleteStep ==
    ASSUME IInv, Next
    PROVE  DeleteInv'
  <1> USE DEF IInv
  <1> SUFFICES ASSUME NEW c \in Calls
               PROVE  DeleteOf(c)'
    BY DEF DeleteInv
  <1>1. DeleteOf(c)
    BY DEF DeleteInv
  <1>2. ASSUME NEW d \in Calls \ {c},
               Step(d) \/ Delete(d) \/ \E what \in {"add"} \cup Reads : Begin(d, what)
        PROVE  DeleteOf(c)'
    <2>1. pc'[c] = pc[c]
      BY <1>2 DEF Step, Lookup, CreateAgent, CreateAgentFails, ReadCache, CreatePassages,
                  CreatePassagesFails, Remember, ReadPassages, ReadNotFound, ReadFails,
                  Invalidate, DeletePassage, Forget, Delete, Begin, Goto, TypeOK
    <2>2. op'[c] = op[c] /\ ids'[c] = ids[c]
      BY <1>2 DEF Step, Lookup, CreateAgent, CreateAgentFails, ReadCache, CreatePassages,
                  CreatePassagesFails, Remember, ReadPassages, ReadNotFound, ReadFails,
                  Invalidate, DeletePassage, Forget, Delete, Begin, locals, TypeOK
    <2>3. todo'[c] = todo[c] /\ seen'[c] = seen[c]
      BY <1>2 DEF Step, Lookup, CreateAgent, CreateAgentFails, ReadCache, CreatePassages,
                  CreatePassagesFails, Remember, ReadPassages, ReadNotFound, ReadFails,
                  Invalidate, DeletePassage, Forget, Delete, Begin, locals, TypeOK
    <2>4. QED BY <2>1, <2>2, <2>3, DeleteKept
  <1>3. CASE Lookup(c) \/ CreateAgent(c) \/ CreateAgentFails(c) \/ ReadCache(c)
             \/ CreatePassages(c) \/ CreatePassagesFails(c) \/ Remember(c)
             \/ ReadPassages(c) \/ ReadNotFound(c) \/ ReadFails(c) \/ Invalidate(c)
    <2>1. UNCHANGED <<op, ids, todo, seen>>
      BY <1>3 DEF Lookup, CreateAgent, CreateAgentFails, ReadCache, CreatePassages,
                  CreatePassagesFails, Remember, ReadPassages, ReadNotFound, ReadFails,
                  Invalidate, locals
    <2>2. pc[c] \notin {"deleting", "forget"} \cup Ended
      BY <1>3 DEF Lookup, CreateAgent, CreateAgentFails, ReadCache, CreatePassages, Asks,
                  CreatePassagesFails, Remember, ReadPassages, ReadNotFound, ReadFails,
                  Invalidate, Ended
    <2>3. pc'[c] \notin {"deleting", "forget"}
      BY <1>3 DEF Lookup, LookupNext, CreateAgent, CreateAgentFails, ReadCache, CreatePassages,
                  CreatePassagesFails, Remember, ReadPassages, ReadNotFound, ReadFails,
                  Invalidate, Goto, TypeOK
    <2>4. op[c] # "delete"
      BY <1>1, <2>2 DEF DeleteOf
    <2>5. QED BY <2>1, <2>3, <2>4, DeleteKept
  <1>4. ASSUME NEW how \in {"deleted", "failed"}, DeletePassage(c, how)
        PROVE  DeleteOf(c)'
    <2>1. op[c] = "delete" /\ ids[c] # <<>> /\ todo[c] # <<>> /\ todo[c] \in Seq(Passages)
      BY <1>1, <1>4 DEF DeletePassage, DeleteOf, TypeOK
    <2>2. /\ op' = op /\ ids' = ids /\ chunks' = chunks
          /\ todo'[c] = Tail(todo[c]) /\ seen'[c] = seen[c] \cup {how}
          /\ store' \subseteq store
          /\ how = "deleted" => Head(todo[c]) \notin store'
          /\ pc'[c] = IF Tail(todo[c]) = <<>> THEN "forget" ELSE "deleting"
      BY <1>4 DEF DeletePassage, Rest, Goto, TypeOK
    <2>3. ASSUME NEW i \in 1..Len(ids[c]), "failed" \notin seen'[c], ids[c][i] \in store'
          PROVE  \E j \in 1..Len(todo'[c]) : todo'[c][j] = ids[c][i]
      <3>1. how = "deleted" /\ ids[c][i] # Head(todo[c])
        BY <2>2, <2>3
      <3>2. PICK j \in 1..Len(todo[c]) : todo[c][j] = ids[c][i]
        BY <1>1, <2>1, <2>2, <2>3 DEF DeleteOf
      <3>3. /\ Head(todo[c]) = todo[c][1] /\ Len(Tail(todo[c])) = Len(todo[c]) - 1
            /\ \A k \in 1..Len(Tail(todo[c])) : Tail(todo[c])[k] = todo[c][k + 1]
            /\ Len(todo[c]) \in Nat
        BY <2>1, HeadTailProperties, LenProperties
      <3>4. j - 1 \in 1..Len(Tail(todo[c])) /\ Tail(todo[c])[j - 1] = ids[c][i]
        BY <3>1, <3>2, <3>3
      <3>5. QED BY <2>2, <3>4
    <2>4. \A i \in 1..Len(ids[c]) : ids[c][i][2] <= chunks[ids[c][i][1]]
      BY <1>1, <2>1 DEF DeleteOf
    <2>5. QED BY <2>1, <2>2, <2>3, <2>4 DEF DeleteOf
  <1>5. CASE Forget(c)
    <2>1. UNCHANGED <<op, ids, todo, seen>> /\ pc[c] = "forget" /\ pc'[c] \in {"done", "error"}
      BY <1>5 DEF Forget, locals, Goto, TypeOK
    <2>2. QED BY <2>1, DeleteKept
  <1>6. CASE Delete(c)
    <2>1. PICK p \in Targets : ids'[c] = IdsOf(p) /\ todo'[c] = IdsOf(p)
      BY <1>6 DEF Delete, TypeOK
    <2>2. UNCHANGED <<chunks, store>> /\ op'[c] = "delete" /\ pc'[c] = "deleting"
      BY <1>6 DEF Delete, service, Goto, TypeOK
    <2>3. p[1] \in Calls
      BY DEF Targets, Passages
    <2>4. known[p[1]] \in {0, chunks[p[1]]}
      BY <2>3 DEF PassageInv
    <2>5. /\ IdsOf(p) # <<>>
          /\ \A i \in 1..Len(IdsOf(p)) : IdsOf(p)[i][2] <= chunks[IdsOf(p)[i][1]]
      BY <2>4, IdsOfTypes
    <2>6. QED BY <2>1, <2>2, <2>5 DEF DeleteOf
  <1>7. ASSUME NEW what \in {"add"} \cup Reads, Begin(c, what)
        PROVE  DeleteOf(c)'
    <2>1. op'[c] # "delete" /\ pc'[c] \in {"create_agent", "cached"}
      BY <1>7 DEF Begin, LookupNext, Reads, Goto, TypeOK
    <2>2. QED BY <2>1 DEF DeleteOf
  <1>8. ASSUME NEW n \in Agents \ gone, AgentDeleted(n)
        PROVE  DeleteOf(c)'
    BY <1>8, DeleteKept DEF AgentDeleted, locals
  <1>9. CASE Restart
    <2>1. UNCHANGED <<op, ids, todo, seen>> /\ (pc'[c] = pc[c] \/ pc'[c] = "killed")
      BY <1>9 DEF Restart, locals
    <2>2. QED BY <2>1, DeleteKept
  <1>10. QED BY <1>2, <1>3, <1>4, <1>5, <1>6, <1>7, <1>8, <1>9 DEF Next, Step

-----------------------------------------------------------------------------
(* The invariant *)

LEMMA InitInv == Init => IInv
  <1> SUFFICES ASSUME Init PROVE IInv
    OBVIOUS
  <1> USE DEF Init
  <1>1. owner \in Seq(Users) /\ \A c \in Calls : ids[c] = <<>> /\ todo[c] = <<>> /\ ids[c] \in Seq(Passages)
    BY EmptySeq
  <1>2. TypeOK
    BY <1>1, LettaAssumption DEF TypeOK, LettaAssumption
  <1>3. AgentInv /\ PassageInv /\ ListInv /\ RaceInv
    BY DEF AgentInv, PassageInv, ListInv, ListOf, RaceInv, RaceOf
  <1>4. DeleteInv
    BY DEF DeleteInv, DeleteOf
  <1>5. QED BY <1>2, <1>3, <1>4 DEF IInv

LEMMA Inductive == IInv /\ [Next]_vars => IInv'
  <1> SUFFICES ASSUME IInv, [Next]_vars PROVE IInv'
    OBVIOUS
  <1>1. CASE Next
    <2>1. TypeOK'
      BY <1>1, StepTypes, OtherTypes DEF Next
    <2>2. QED BY <1>1, <2>1, AgentStep, PassageStep, DeleteStep, ListStep, RaceStep DEF IInv
  <1>2. CASE UNCHANGED vars
    <2> USE <1>2 DEF IInv, vars, service, adapter, locals
    <2>1. TypeOK'
      BY DEF TypeOK, Agents
    <2>2. AgentInv' /\ PassageInv'
      BY DEF AgentInv, PassageInv
    <2>3. DeleteInv'
      BY DEF DeleteInv, DeleteOf
    <2>4. ListInv'
      BY DEF ListInv, ListOf
    <2>5. RaceInv'
      BY DEF RaceInv, RaceOf, Raced, Lost, Rivals
    <2>6. QED BY <2>1, <2>2, <2>3, <2>4, <2>5
  <1>3. QED BY <1>1, <1>2

\* The inductive invariant holds in every reachable state.
THEOREM Invariance == Spec => []IInv
  BY InitInv, Inductive, PTL DEF Spec

\* The variables of the adapter, its calls and the service keep their types.
THEOREM TypeCorrect == Spec => []TypeOK
  <1>1. IInv => TypeOK
    BY DEF IInv
  <1>2. QED BY <1>1, Invariance, PTL

\* No call uses the agent of another user or finds there what was added for
\* one, although _agent_for tests the cache and reads it in two steps.
THEOREM OwnAgents == Spec => []OwnAgentOnly
  <1>1. ASSUME IInv, NEW c \in Calls, agent[c] # 0
        PROVE  /\ owner[agent[c]] = user[c]
               /\ \A p \in OnAgent(agent[c]) : user[p[1]] = user[c]
    <2>1. \A p \in store : p[1] \in Calls
      BY <1>1 DEF IInv, TypeOK, Passages
    <2>2. QED BY <1>1, <2>1 DEF IInv, AgentInv, OnAgent
  <1>2. IInv => OwnAgentOnly
    BY <1>1 DEF OwnAgentOnly
  <1>3. QED BY <1>2, Invariance, PTL

\* _passages_by_id covers every passage of a memory that still exists, also
\* while threads add, delete and restart.
THEOREM Known == Spec => []KnownIsComplete
  <1>1. ASSUME IInv, NEW p \in store, known[p[1]] # 0
        PROVE  p[2] <= known[p[1]]
    <2>1. p[1] \in Calls
      BY <1>1 DEF IInv, TypeOK, Passages
    <2>2. QED BY <1>1, <2>1 DEF IInv, PassageInv
  <1>2. IInv => KnownIsComplete
    BY <1>1 DEF KnownIsComplete
  <1>3. QED BY <1>2, Invariance, PTL

\* A delete() that met no failure has left none of its passages behind.
THEOREM Deleted == Spec => []DeleteComplete
  <1>1. ASSUME IInv, NEW c \in Calls, op[c] = "delete", pc[c] = "done", "failed" \notin seen[c],
               NEW i \in DOMAIN ids[c]
        PROVE  ids[c][i] \notin store
    <2>1. DeleteOf(c)
      BY <1>1 DEF IInv, DeleteInv
    <2>2. todo[c] = <<>> /\ Len(todo[c]) = 0
      BY <1>1, <2>1, EmptySeq DEF DeleteOf
    <2>3. ids[c] \in Seq(Passages)
      BY <1>1 DEF IInv, TypeOK
    <2>4. i \in 1..Len(ids[c])
      BY <1>1, <2>3, LenProperties
    <2>5. QED BY <1>1, <2>1, <2>2, <2>4 DEF DeleteOf
  <1>2. IInv => DeleteComplete
    BY <1>1 DEF DeleteComplete
  <1>3. QED BY <1>2, Invariance, PTL

\* A list() that is alone gets over the deletion of its agent: it reports a
\* missing agent only when two of the user were deleted, the one it found in
\* the cache and the one it got instead; and no call ends with a KeyError
\* unless another list() of its user had an agent deleted under it.
THEOREM ListSurvives == Spec => []ListSurvivesAlone
  <1>1. ASSUME IInv, NEW c \in Calls, pc[c] = "raw_not_found"
        PROVE  Cardinality(Lost(user[c])) > 1
    <2>1. IsFiniteSet(Lost(user[c]))
      <3>1. owner \in Seq(Users) /\ gone \subseteq Agents
        BY <1>1 DEF IInv, TypeOK
      <3>2. IsFiniteSet(1..Len(owner))
        BY <3>1, LenProperties, FS_Interval
      <3>3. Lost(user[c]) \subseteq 1..Len(owner)
        BY <3>1 DEF Agents, Lost
      <3>4. QED BY <3>2, <3>3, FS_Subset
    <2>2. ListOf(c)
      BY <1>1 DEF IInv, ListInv
    <2>3. PICK n, m \in gone : n # m /\ owner[n] = user[c] /\ owner[m] = user[c]
      BY <1>1, <2>2 DEF ListOf
    <2>4. n \in Lost(user[c]) /\ m \in Lost(user[c])
      BY <2>3 DEF Lost
    <2>5. Cardinality(Lost(user[c])) \in Nat
      BY <2>1, FS_CardinalityType
    <2>6. Cardinality(Lost(user[c])) # 0
      BY <2>1, <2>4, FS_EmptySet
    <2>7. ASSUME Cardinality(Lost(user[c])) = 1 PROVE FALSE
      <3>1. PICK x : Lost(user[c]) = {x}
        BY <2>1, <2>7, FS_Singleton
      <3>2. QED BY <2>3, <2>4, <3>1
    <2>8. QED BY <2>5, <2>6, <2>7
  <1>2. ASSUME IInv, NEW c \in Calls, pc[c] = "key_error"
        PROVE  Lost(user[c]) # {} /\ Rivals(c) # {}
    BY <1>2 DEF IInv, RaceInv, RaceOf, Raced
  <1>3. IInv => ListSurvivesAlone
    BY <1>1, <1>2 DEF ListSurvivesAlone
  <1>4. QED BY <1>3, Invariance, PTL

=============================================================================
