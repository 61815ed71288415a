----------------------------- MODULE Mem0Proofs -----------------------------
(***************************************************************************)
(* What holds of Mem0 for any workers, events, users and words, however    *)
(* many calls are made and however often the process restarts.             *)
(*                                                                         *)
(* The argument is that of a cache of guesses: a guess is right when it is *)
(* made, wherever it is written after that, and cannot become wrong, since *)
(* texts and their users stay, as does the list of those who were named in *)
(* a wait, a record never loses the words it once had, *)
(* and a record that was stored is afterwards stored or deleted for good.  *)
(***************************************************************************)
EXTENDS Mem0, TLAPS

\* A record that the service has, or had.
Landed(r) == fate[r] \in {"stored", "deleted"}

\* A record that may stand for an event: of its user, or of one who was named
\* in a wait for it.
Related(e, r) ==
    /\ user[r] \in {user[e]} \cup askers[e]
    /\ e = r \/ text[e] = {} \/ text[e] \cap written[r] # {}

\* Where an id that was found for an event may lead.
Leads(e, i) == i[1] = "record" => Landed(i[2]) /\ Related(e, i[2])

\* A record shows words it had at some time, and the program has no id of an
\* event that was never given to the service.
ServiceInv ==
    /\ \A r \in Events : says[r] \subseteq written[r]
    /\ \A e \in told : fate[e] # "none"

CacheInv == \A e \in Events : Leads(e, resolved[e])

\* What a call is at, and that polling begins with the id of an event and ends
\* with an id.
CallOf(w) ==
    /\ op[w] = "wait" <=> pc[w] \in {"wait", "wait_some", "wait_all"}
    /\ op[w] = "delete" <=> pc[w] \in {"delete_resolved", "delete_id"}
    /\ pc[w] \in {"resolve", "store"} \/ op[w] = "add" => arg[w][1] = "event"
    /\ op[w] = "add" => fate[arg[w][2]] # "none"
    /\ pc[w] = "store" => lookup[w] # NoId
    /\ arg[w][1] = "event" => Leads(arg[w][2], lookup[w])

\* What wait_for_ingest() was asked for and does not look for is resolved, and
\* with a page that shows everything the rest is found.
WaitOf(w) ==
    /\ \A p \in found[w] : Landed(p[2]) /\ Related(p[1], p[2])
    /\ asked[w] \subseteq told
    /\ op[w] = "wait" => \A e \in ids[w] : whose[w] \in askers[e]
    /\ op[w] = "wait" => \A e \in (asked[w] \cap known) \ ids[w] : resolved[e] # NoId
    /\ pc[w] = "wait_all" => \A e \in asked[w] \cap known :
                                resolved[e] # NoId \/ \E p \in found[w] : p[1] = e

\* delete() begins with what the cache held, and goes on to the id it was given
\* when that record is gone.
DeleteOf(w) ==
    entry[w][1] = "record" =>
        /\ Landed(entry[w][2])
        /\ pc[w] = "delete_resolved" => lookup[w] = entry[w]
        /\ pc[w] = "delete_id" => fate[entry[w][2]] = "deleted"

CallInv   == \A w \in Workers : CallOf(w)
WaitInv   == \A w \in Workers : WaitOf(w)
DeleteInv == \A w \in Workers : DeleteOf(w)

IInv == TypeOK /\ ServiceInv /\ CacheInv /\ CallInv /\ WaitInv /\ DeleteInv

-----------------------------------------------------------------------------
(* Ids and types *)

LEMMA IdFacts ==
    /\ \A e \in Events : /\ EventId(e) \in Ids /\ EventId(e)[1] = "event" /\ EventId(e)[2] = e
                         /\ RecordId(e) \in Ids /\ RecordId(e)[1] = "record" /\ RecordId(e)[2] = e
                         /\ EventId(e) # NoId /\ RecordId(e) # NoId
    /\ NoId[1] = "none"
    /\ \A i \in Ids \cup {NoId} :
         \/ i[1] = "event" /\ i[2] \in Events /\ i = EventId(i[2])
         \/ i[1] = "record" /\ i[2] \in Events /\ i = RecordId(i[2])
         \/ i = NoId
  BY DEF EventId, RecordId, NoId, Ids

\* The types, by whose the variables are.
ServiceTypes ==
    /\ user \in [Events -> Users] /\ text \in [Events -> SUBSET Words]
    /\ askers \in [Events -> SUBSET Users]
    /\ fate \in [Events -> {"none", "pending", "stored", "dropped", "deleted"}]
    /\ says \in [Events -> SUBSET Words] /\ written \in [Events -> SUBSET Words]

CacheTypes ==
    /\ known \subseteq Events
    /\ resolved \in [Events -> Ids \cup {NoId}]

WorkerTypes ==
    /\ pc \in [Workers -> Stops]
    /\ op \in [Workers -> {"none", "add", "get", "update", "delete", "wait"}]
    /\ arg \in [Workers -> Ids \cup {NoId}]
    /\ lookup \in [Workers -> Ids \cup {NoId}]
    /\ whose \in [Workers -> Users \cup {"none"}]
    /\ asked \in [Workers -> SUBSET Events] /\ ids \in [Workers -> SUBSET Events]
    /\ found \in [Workers -> SUBSET (Events \X Events)]
    /\ entry \in [Workers -> Ids \cup {NoId}]
    /\ out \in [Workers -> {"returned", "raised"}]

CounterTypes == told \subseteq Events /\ calls \in 0..MaxCalls

LEMMA TypesApart ==
    /\ TypeOK <=> ServiceTypes /\ CacheTypes /\ WorkerTypes /\ CounterTypes
    /\ TypeOK' <=> ServiceTypes' /\ CacheTypes' /\ WorkerTypes' /\ CounterTypes'
  BY DEF TypeOK, ServiceTypes, CacheTypes, WorkerTypes, CounterTypes

LEMMA FinishTypes ==
    ASSUME WorkerTypes, NEW w \in Workers, NEW how \in {"returned", "raised"}, Finish(w, how)
    PROVE  WorkerTypes'
  BY DEF WorkerTypes, Finish, Goto, Stops

LEMMA GoOnTypes ==
    ASSUME WorkerTypes, NEW w \in Workers, NEW where \in Stops, NEW i \in Ids \cup {NoId},
           GoOn(w, where, i), UNCHANGED <<op, arg, waiting, entry, out>>
    PROVE  WorkerTypes'
  BY DEF WorkerTypes, GoOn, Goto, waiting

LEMMA StoreAsTypes ==
    ASSUME ServiceTypes, NEW e \in Events, NEW words \in SUBSET Words, StoreAs(e, words),
           UNCHANGED <<user, text, askers>>
    PROVE  ServiceTypes'
  BY DEF ServiceTypes, StoreAs

\* What the cache says of an id.
LEMMA CachedFacts ==
    ASSUME CacheTypes, NEW i \in Ids \cup {NoId}
    PROVE  /\ Cached(i) \in Ids \cup {NoId} /\ CachedOr(i) \in Ids \cup {NoId}
           /\ i[1] = "event" => Cached(i) = resolved[i[2]]
           /\ i[1] # "event" => Cached(i) = NoId /\ CachedOr(i) = i
           /\ Cached(i) # NoId => CachedOr(i) = Cached(i)
           /\ Cached(i) = NoId => CachedOr(i) = i
  BY IdFacts DEF CacheTypes, Cached, CachedOr

LEMMA CallTypes ==
    ASSUME TypeOK, NEW w \in Workers, Call(w)
    PROVE  TypeOK'
  <1>1. ServiceTypes /\ CacheTypes /\ WorkerTypes /\ CounterTypes
    BY TypesApart
  <1>2. ASSUME NEW e \in Events, Add(w, e)
        PROVE  TypeOK'
    <2>1. ServiceTypes'
      <3>1. CASE \E words \in SUBSET Words : StoreAs(e, words)
        BY <1>1, <1>2, <3>1, StoreAsTypes DEF Add
      <3>2. CASE /\ \E f \in {"pending", "dropped"} : fate' = [fate EXCEPT ![e] = f]
                 /\ UNCHANGED <<says, written>>
        BY <1>1, <1>2, <3>2 DEF Add, ServiceTypes
      <3>3. QED BY <1>2, <3>1, <3>2 DEF Add
    <2>2. CacheTypes'
      BY <1>1, <1>2 DEF Add, CacheTypes
    <2>3. WorkerTypes'
      <3>1. CASE Finish(w, "returned") \/ Finish(w, "raised")
        BY <1>1, <3>1, FinishTypes
      <3>2. CASE /\ GoOn(w, "resolve", EventId(e)) /\ op' = [op EXCEPT ![w] = "add"]
                 /\ arg' = [arg EXCEPT ![w] = EventId(e)] /\ UNCHANGED <<waiting, entry, out>>
        BY <1>1, <3>2, IdFacts DEF WorkerTypes, GoOn, Goto, Stops, waiting
      <3>3. QED BY <1>2, <3>1, <3>2 DEF Add
    <2>4. CounterTypes'
      BY <1>1, <1>2, Mem0Assumption DEF Add, CounterTypes
    <2>5. QED BY <2>1, <2>2, <2>3, <2>4, TypesApart
  <1>3. Usable \subseteq Ids
    BY <1>1, IdFacts DEF Usable, CounterTypes
  <1>4. ASSUME NEW i \in Usable, NEW what \in {"get", "update", "delete"}, Begin(w, what, i),
               NEW where \in Stops, NEW j \in Ids \cup {NoId}, GoOn(w, where, j),
               entry' = entry \/ entry' = [entry EXCEPT ![w] = Cached(i)],
               UNCHANGED <<service, cache, waiting, out>>
        PROVE  TypeOK'
    <2>1. Cached(i) \in Ids \cup {NoId}
      BY <1>1, <1>3, CachedFacts
    <2>2. WorkerTypes'
      BY <1>1, <1>3, <1>4, <2>1 DEF WorkerTypes, Begin, GoOn, Goto, waiting
    <2>3. CounterTypes'
      BY <1>1, <1>4, Mem0Assumption DEF Begin, CounterTypes
    <2>4. ServiceTypes' /\ CacheTypes'
      BY <1>1, <1>4 DEF ServiceTypes, CacheTypes, service, cache
    <2>5. QED BY <2>2, <2>3, <2>4, TypesApart
  <1>5. ASSUME NEW i \in Usable, Get(w, i) \/ Update(w, i) \/ Delete(w, i)
        PROVE  TypeOK'
    <2>1. i \in Ids \cup {NoId} /\ CachedOr(i) \in Ids \cup {NoId}
      BY <1>1, <1>3, CachedFacts
    <2>2. {"resolve", "fetch", "update", "delete_resolved", "delete_id"} \subseteq Stops
      BY DEF Stops
    <2>3. CASE Get(w, i)
      BY <1>4, <2>1, <2>2, <2>3 DEF Get, StartGet
    <2>4. CASE Update(w, i)
      BY <1>4, <2>1, <2>2, <2>4 DEF Update, StartGet
    <2>5. CASE Delete(w, i)
      BY <1>4, <2>1, <2>2, <2>5 DEF Delete, FirstCandidate
    <2>6. QED BY <1>5, <2>3, <2>4, <2>5
  <1>6. ASSUME NEW u \in Users, Wait(w, u)
        PROVE  TypeOK'
    <2>1. WorkerTypes'
      <3>1. PICK some \in SUBSET told :
                /\ asked' = [asked EXCEPT ![w] = some]
                /\ ids' = [ids EXCEPT ![w] = {e \in some : Unresolved(EventId(e))}]
        BY <1>6 DEF Wait
      <3>2. some \subseteq Events
        BY <1>1 DEF CounterTypes
      <3>3. pc' \in [Workers -> Stops]
        BY <1>1, <1>6 DEF Wait, WorkerTypes, Goto, Stops
      <3>4. whose' \in [Workers -> Users \cup {"none"}]
        BY <1>1, <1>6 DEF Wait, WorkerTypes
      <3>5. QED BY <1>1, <1>6, <3>1, <3>2, <3>3, <3>4 DEF Wait, Begin, WorkerTypes
    <2>2. CounterTypes'
      BY <1>1, <1>6, Mem0Assumption DEF Wait, Begin, CounterTypes
    <2>3. ServiceTypes' /\ CacheTypes'
      BY <1>1, <1>6 DEF Wait, ServiceTypes, CacheTypes, cache
    <2>4. QED BY <2>1, <2>2, <2>3, TypesApart
  <1>7. QED BY <1>2, <1>5, <1>6 DEF Call

LEMMA StepTypes ==
    ASSUME TypeOK, CallInv, NEW w \in Workers, Step(w)
    PROVE  TypeOK'
  <1>1. ServiceTypes /\ CacheTypes /\ WorkerTypes /\ CounterTypes
    BY TypesApart
  <1>2. ASSUME UNCHANGED <<service, cache>>, WorkerTypes', CounterTypes'
        PROVE  TypeOK'
    BY <1>1, <1>2, TypesApart DEF ServiceTypes, CacheTypes, service, cache
  <1>3. ASSUME UNCHANGED counters PROVE CounterTypes'
    BY <1>1, <1>3 DEF counters, CounterTypes
  <1>4. arg[w] \in Ids \cup {NoId} /\ lookup[w] \in Ids \cup {NoId}
    BY <1>1 DEF WorkerTypes
  <1>5. {"store", "fetch", "update", "update_rest", "delete_id", "wait", "wait_some", "wait_all"}
          \subseteq Stops
    BY DEF Stops
  <1>6. ASSUME Tell(w) \/ UNCHANGED told, UNCHANGED calls
        PROVE  CounterTypes'
    <2>1. op[w] = "add" => arg[w][2] \in Events
      BY <1>4, IdFacts DEF CallInv, CallOf
    <2>2. QED BY <1>1, <1>6, <2>1 DEF Tell, CounterTypes
  <1>7. CASE Resolve(w)
    <2>1. CASE \E r \in Candidates(arg[w][2], user[arg[w][2]]) : GoOn(w, "store", RecordId(r))
      <3>1. PICK r \in Events : GoOn(w, "store", RecordId(r))
        BY <2>1 DEF Candidates, Page
      <3>2. RecordId(r) \in Ids \cup {NoId}
        BY IdFacts
      <3>3. WorkerTypes'
        BY <1>1, <1>5, <1>7, <3>1, <3>2, GoOnTypes DEF Resolve
      <3>4. QED BY <1>2, <1>3, <1>7, <3>3 DEF Resolve
    <2>2. CASE GoOn(w, "store", arg[w])
      BY <1>1, <1>2, <1>3, <1>4, <1>5, <1>7, <2>2, GoOnTypes DEF Resolve
    <2>3. QED BY <1>7, <2>1, <2>2 DEF Resolve
  <1>8. CASE Store(w)
    <2>1. arg[w][2] \in Events
      BY <1>4, <1>8, IdFacts DEF Store, CallInv, CallOf
    <2>2. CacheTypes'
      BY <1>1, <1>4, <1>8, <2>1 DEF Store, CacheTypes
    <2>3. WorkerTypes'
      BY <1>1, <1>4, <1>5, <1>8, GoOnTypes DEF Store
    <2>4. ServiceTypes'
      BY <1>1, <1>8 DEF Store, ServiceTypes, service
    <2>5. QED BY <1>3, <1>8, <2>2, <2>3, <2>4, TypesApart DEF Store
  <1>10. CASE Fetch(w)
    <2>1. WorkerTypes'
      <3>1. CachedOr(arg[w]) \in Ids \cup {NoId}
        BY <1>1, <1>4, CachedFacts
      <3>2. QED BY <1>1, <1>5, <1>10, <3>1, GoOnTypes, FinishTypes DEF Fetch
    <2>2. QED BY <1>2, <1>6, <1>10, <2>1 DEF Fetch
  <1>11. ASSUME NEW how \in {"returned", "raised"}, FetchEnds(w, how)
         PROVE  WorkerTypes' /\ UNCHANGED <<service, cache, calls>>
    BY <1>1, <1>4, <1>5, <1>11, GoOnTypes, FinishTypes DEF FetchEnds
  <1>12. CASE FetchTimesOut(w) \/ FetchFails(w)
    <2>1. WorkerTypes' /\ UNCHANGED <<service, cache, calls>>
      BY <1>11, <1>12 DEF FetchTimesOut, FetchFails
    <2>2. QED BY <1>2, <1>6, <1>12, <2>1 DEF FetchTimesOut, FetchFails
  <1>13. CASE UpdateText(w)
    <2>1. ServiceTypes'
      <3>1. CASE Stored(lookup[w]) /\ \E words \in SUBSET Words : StoreAs(lookup[w][2], words)
        <4>1. lookup[w][2] \in Events
          BY <1>4, <3>1, IdFacts DEF Stored
        <4>2. QED BY <1>1, <1>13, <3>1, <4>1, StoreAsTypes DEF UpdateText
      <3>2. CASE UNCHANGED <<fate, says, written>>
        BY <1>1, <1>13, <3>2 DEF UpdateText, ServiceTypes
      <3>3. QED BY <1>13, <3>1, <3>2 DEF UpdateText
    <2>2. WorkerTypes'
      BY <1>1, <1>4, <1>5, <1>13, GoOnTypes DEF UpdateText
    <2>3. CacheTypes'
      BY <1>1, <1>13 DEF UpdateText, CacheTypes, cache
    <2>4. QED BY <1>3, <1>13, <2>1, <2>2, <2>3, TypesApart DEF UpdateText
  <1>14. CASE UpdateRest(w) \/ UpdateFails(w) \/ DeleteFails(w) \/ WaitFails(w)
    BY <1>1, <1>2, <1>3, <1>14, FinishTypes DEF UpdateRest, UpdateFails, DeleteFails, WaitFails
  <1>15. CASE DeleteRequest(w)
    <2>1. lookup[w][2] \in Events
      BY <1>4, <1>15, IdFacts DEF DeleteRequest, Stored
    <2>2. ServiceTypes' /\ CacheTypes'
      BY <1>1, <1>15, <2>1 DEF DeleteRequest, ServiceTypes, CacheTypes, cache
    <2>3. WorkerTypes'
      BY <1>1, <1>15, FinishTypes DEF DeleteRequest
    <2>4. QED BY <1>3, <1>15, <2>2, <2>3, TypesApart DEF DeleteRequest
  <1>16. CASE DeleteNotFound(w)
    BY <1>1, <1>2, <1>3, <1>4, <1>5, <1>16, FinishTypes, GoOnTypes DEF DeleteNotFound
  <1>17. CASE ReadPage(w)
    <2>1. PICK f \in PageChoices(w) : found' = [found EXCEPT ![w] = Found(w, f)]
      BY <1>17 DEF ReadPage
    <2>2. Found(w, f) \subseteq Events \X Events
      BY <1>1 DEF Found, Open, WorkerTypes
    <2>3. pc' \in [Workers -> Stops]
      BY <1>1, <1>5, <1>17 DEF ReadPage, Goto, WorkerTypes
    <2>4. WorkerTypes'
      BY <1>1, <1>17, <2>1, <2>2, <2>3 DEF ReadPage, WorkerTypes
    <2>5. QED BY <1>2, <1>3, <1>17, <2>4 DEF ReadPage
  <1>18. CASE StoreFound(w)
    <2>1. PICK p \in Events \X Events : /\ resolved' = [resolved EXCEPT ![p[1]] = RecordId(p[2])]
                                        /\ found' = [found EXCEPT ![w] = @ \ {p}]
      BY <1>1, <1>18 DEF StoreFound, WorkerTypes
    <2>2. RecordId(p[2]) \in Ids
      BY IdFacts
    <2>3. CacheTypes'
      BY <1>1, <1>18, <2>1, <2>2 DEF StoreFound, CacheTypes
    <2>4. WorkerTypes'
      BY <1>1, <1>18, <2>1 DEF StoreFound, WorkerTypes
    <2>5. ServiceTypes'
      BY <1>1, <1>18 DEF StoreFound, ServiceTypes, service
    <2>6. QED BY <1>3, <1>18, <2>3, <2>4, <2>5, TypesApart DEF StoreFound
  <1>19. CASE PollEnds(w)
    <2>1. CASE Finish(w, "returned") \/ Finish(w, "raised")
      BY <1>1, <1>2, <1>3, <1>19, <2>1, FinishTypes DEF PollEnds
    <2>2. CASE Goto(w, "wait") /\ UNCHANGED <<op, arg, lookup, waiting, entry, out>>
      <3>1. WorkerTypes'
        BY <1>1, <1>5, <2>2 DEF WorkerTypes, Goto, waiting
      <3>2. QED BY <1>2, <1>3, <1>19, <3>1 DEF PollEnds
    <2>3. QED BY <1>19, <2>1, <2>2 DEF PollEnds
  <1>20. QED
    BY <1>7, <1>8, <1>10, <1>12, <1>13, <1>14, <1>15, <1>16, <1>17, <1>18, <1>19 DEF Step

LEMMA OtherTypes ==
    ASSUME TypeOK, Restart \/ \E e \in Events : Ingest(e)
    PROVE  TypeOK'
  <1>1. ServiceTypes /\ CacheTypes /\ WorkerTypes /\ CounterTypes
    BY TypesApart
  <1>2. CASE Restart
    <2>1. WorkerTypes'
      BY <1>1, <1>2 DEF Restart, WorkerTypes, Stops
    <2>2. ServiceTypes' /\ CacheTypes'
      BY <1>1, <1>2 DEF Restart, ServiceTypes, CacheTypes, service
    <2>3. CounterTypes'
      BY <1>1, <1>2, Mem0Assumption DEF Restart, CounterTypes
    <2>4. QED BY <2>1, <2>2, <2>3, TypesApart
  <1>3. ASSUME NEW e \in Events, Ingest(e)
        PROVE  TypeOK'
    <2>1. ServiceTypes'
      <3>1. CASE \E words \in SUBSET Words : StoreAs(e, words)
        BY <1>1, <1>3, <3>1, StoreAsTypes DEF Ingest
      <3>2. CASE fate' = [fate EXCEPT ![e] = "dropped"] /\ UNCHANGED <<says, written>>
        BY <1>1, <1>3, <3>2 DEF Ingest, ServiceTypes
      <3>3. QED BY <1>3, <3>1, <3>2 DEF Ingest
    <2>2. CacheTypes' /\ WorkerTypes' /\ CounterTypes'
      BY <1>1, <1>3 DEF Ingest, CacheTypes, WorkerTypes, CounterTypes, cache, waiting, counters
    <2>3. QED BY <2>1, <2>2, TypesApart
  <1>4. QED BY <1>2, <1>3

-----------------------------------------------------------------------------
(* What no step takes back *)

\* Texts stay, records keep their words, what has landed stays landed and what
\* is deleted stays deleted.
Forward ==
    /\ user' = user /\ text' = text
    /\ \A e \in Events : askers[e] \subseteq askers'[e]
    /\ \A r \in Events :
         /\ written[r] \subseteq written'[r] /\ says'[r] \subseteq written'[r]
         /\ Landed(r) => Landed(r)'
         /\ fate[r] = "deleted" => fate'[r] = "deleted"
         /\ fate[r] # "none" => fate'[r] # "none"

LEMMA ServiceIdle ==
    ASSUME ServiceInv, UNCHANGED service
    PROVE  Forward
  BY DEF ServiceInv, Forward, service, Landed

LEMMA FateForward ==
    ASSUME TypeOK, ServiceInv, NEW e \in Events,
           NEW f \in {"pending", "stored", "dropped", "deleted"},
           fate' = [fate EXCEPT ![e] = f],
           fate[e] # "deleted", fate[e] = "stored" => f = "deleted",
           UNCHANGED <<user, text, askers>>, UNCHANGED <<says, written>>
    PROVE  Forward
  BY DEF TypeOK, ServiceInv, Forward, Landed

LEMMA StoreForward ==
    ASSUME TypeOK, ServiceInv, NEW e \in Events, NEW words \in SUBSET Words,
           StoreAs(e, words), fate[e] \in {"none", "pending", "stored"},
           UNCHANGED <<user, text, askers>>
    PROVE  Forward
  <1>1. \A r \in Events : /\ written'[r] = IF r = e THEN written[r] \cup words ELSE written[r]
                          /\ says'[r] = IF r = e THEN words ELSE says[r]
                          /\ fate'[r] = IF r = e THEN "stored" ELSE fate[r]
    BY DEF StoreAs, TypeOK
  <1>2. QED BY <1>1 DEF Forward, Landed, ServiceInv

LEMMA NextForward ==
    ASSUME TypeOK, ServiceInv, Next
    PROVE  Forward
  <1>1. ASSUME NEW w \in Workers, NEW e \in Events, Add(w, e)
        PROVE  Forward
    <2>1. fate[e] = "none" /\ UNCHANGED <<user, text, askers>>
      BY <1>1 DEF Add
    <2>2. CASE \E words \in SUBSET Words : StoreAs(e, words)
      BY <2>1, <2>2, StoreForward
    <2>3. CASE \E f \in {"pending", "dropped"} : fate' = [fate EXCEPT ![e] = f]
               /\ UNCHANGED <<says, written>>
      <3>1. PICK f \in {"pending", "stored", "dropped", "deleted"} : fate' = [fate EXCEPT ![e] = f]
        BY <2>3
      <3>2. QED BY <2>1, <2>3, <3>1, FateForward
    <2>4. QED BY <1>1, <2>2, <2>3 DEF Add
  <1>2. ASSUME NEW w \in Workers, UpdateText(w)
        PROVE  Forward
    <2>1. CASE Stored(lookup[w]) /\ \E words \in SUBSET Words : StoreAs(lookup[w][2], words)
      <3>1. lookup[w] \in Ids \cup {NoId} /\ lookup[w][1] = "record"
        BY <2>1 DEF TypeOK, Stored
      <3>2. lookup[w][2] \in Events
        BY <3>1, IdFacts
      <3>3. QED BY <1>2, <2>1, <3>2, StoreForward DEF UpdateText, Stored
    <2>2. CASE UNCHANGED <<fate, says, written>>
      BY <1>2, <2>2, ServiceIdle DEF UpdateText, service
    <2>3. QED BY <1>2, <2>1, <2>2 DEF UpdateText
  <1>3. ASSUME NEW w \in Workers, DeleteRequest(w)
        PROVE  Forward
    <2>1. lookup[w][2] \in Events /\ fate[lookup[w][2]] = "stored"
      BY <1>3, IdFacts DEF TypeOK, DeleteRequest, Stored
    <2>2. QED BY <1>3, <2>1, FateForward DEF DeleteRequest
  <1>4. ASSUME NEW e \in Events, Ingest(e)
        PROVE  Forward
    <2>1. CASE \E words \in SUBSET Words : StoreAs(e, words)
      BY <1>4, <2>1, StoreForward DEF Ingest
    <2>2. CASE fate' = [fate EXCEPT ![e] = "dropped"] /\ UNCHANGED <<says, written>>
      <3>1. UNCHANGED <<user, text, askers>> /\ fate[e] = "pending"
        BY <1>4 DEF Ingest
      <3>2. "dropped" \in {"pending", "stored", "dropped", "deleted"}
        OBVIOUS
      <3>3. QED BY <2>2, <3>1, <3>2, FateForward
    <2>3. QED BY <1>4, <2>1, <2>2 DEF Ingest
  <1>5. CASE UNCHANGED service
    BY <1>5, ServiceIdle
  <1>6. ASSUME NEW w \in Workers, Call(w), \A e \in Events : ~ Add(w, e),
               \A u \in Users : ~ Wait(w, u)
        PROVE  UNCHANGED service
    BY <1>6 DEF Call, Get, Update, Delete
  <1>9. ASSUME NEW w \in Workers, NEW u \in Users, Wait(w, u)
        PROVE  Forward
    <2>1. \A e \in Events : askers[e] \subseteq askers'[e]
      BY <1>9 DEF Wait
    <2>2. UNCHANGED <<user, text, fate, says, written>>
      BY <1>9 DEF Wait
    <2>3. QED BY <2>1, <2>2 DEF ServiceInv, Forward, Landed
  <1>7. ASSUME NEW w \in Workers, Step(w), ~ UpdateText(w), ~ DeleteRequest(w)
        PROVE  UNCHANGED service
    BY <1>7 DEF Step, Resolve, Store, Fetch, FetchTimesOut, FetchFails, FetchEnds, UpdateRest,
                UpdateFails, DeleteNotFound, DeleteFails, ReadPage, StoreFound, PollEnds, WaitFails
  <1>8. Restart => UNCHANGED service
    BY DEF Restart
  <1>10. QED BY <1>1, <1>2, <1>3, <1>4, <1>5, <1>6, <1>7, <1>8, <1>9 DEF Next

\* So a lead stays a lead.
LEMMA LeadsOn ==
    ASSUME Forward, NEW e \in Events
    PROVE  /\ \A r \in Events : Related(e, r) => Related(e, r)'
           /\ \A i \in Ids \cup {NoId} : Leads(e, i) => Leads(e, i)'
  <1>1. \A r \in Events : Related(e, r) => Related(e, r)'
    BY DEF Forward, Related
  <1>2. \A i \in Ids \cup {NoId} : i[1] = "record" => i[2] \in Events
    BY IdFacts
  <1>3. QED BY <1>1, <1>2 DEF Forward, Leads

\* What is on the page of the event's user, or of one named in a wait for it,
\* and matches its text is a lead.
LEMMA CandidateLeads ==
    ASSUME TypeOK, ServiceInv, NEW e \in Events, NEW u \in {user[e]} \cup askers[e],
           NEW r \in Candidates(e, u)
    PROVE  r \in Events /\ Landed(r) /\ Related(e, r)
  BY DEF Candidates, Page, Matches, ServiceInv, Landed, Related, TypeOK

\* A step of one worker is none of another.
LEMMA OthersStay ==
    ASSUME TypeOK, NEW w \in Workers, NEW v \in Workers \ {w}, Call(w) \/ Step(w)
    PROVE  /\ pc'[v] = pc[v] /\ op'[v] = op[v] /\ arg'[v] = arg[v] /\ lookup'[v] = lookup[v]
           /\ asked'[v] = asked[v] /\ whose'[v] = whose[v] /\ ids'[v] = ids[v]
           /\ found'[v] = found[v]
           /\ entry'[v] = entry[v] /\ out'[v] = out[v]
  <1> USE DEF TypeOK, Finish, GoOn, Goto, waiting
  <1>1. CASE Call(w)
    BY <1>1 DEF Call, Add, Get, Update, Delete, Wait, Begin, StartGet
  <1>2. CASE Step(w)
    BY <1>2 DEF Step, Resolve, Store, Fetch, FetchTimesOut, FetchFails, FetchEnds, UpdateText,
                UpdateRest, UpdateFails, DeleteRequest, DeleteNotFound, DeleteFails, ReadPage,
                StoreFound, PollEnds, WaitFails
  <1>3. QED BY <1>1, <1>2

-----------------------------------------------------------------------------
(* The cache, and what the program was told *)

\* A step writes nothing to the cache but leads.
LEMMA ResolvedAfter ==
    ASSUME IInv, NEW w \in Workers, Call(w) \/ Step(w), NEW e \in Events
    PROVE  \/ resolved'[e] = resolved[e]
           \/ resolved'[e] # NoId /\ Leads(e, resolved'[e])
  <1> USE DEF IInv
  <1>1. CASE Store(w)
    <2>1. arg[w][1] = "event" /\ lookup[w] # NoId /\ Leads(arg[w][2], lookup[w])
      BY <1>1 DEF Store, CallInv, CallOf
    <2>2. resolved'[e] = IF e = arg[w][2] THEN lookup[w] ELSE resolved[e]
      BY <1>1 DEF Store, TypeOK
    <2>3. QED BY <2>1, <2>2
  <1>2. CASE StoreFound(w)
    <2>1. PICK p \in found[w] : resolved' = [resolved EXCEPT ![p[1]] = RecordId(p[2])]
      BY <1>2 DEF StoreFound
    <2>2. p[2] \in Events /\ Landed(p[2]) /\ Related(p[1], p[2])
      BY <2>1 DEF TypeOK, WaitInv, WaitOf
    <2>3. RecordId(p[2]) # NoId /\ Leads(p[1], RecordId(p[2]))
      BY <2>2, IdFacts DEF Leads
    <2>4. resolved'[e] = IF e = p[1] THEN RecordId(p[2]) ELSE resolved[e]
      BY <2>1 DEF TypeOK
    <2>5. QED BY <2>3, <2>4
  <1>3. CASE ~ Store(w) /\ ~ StoreFound(w)
    <2>1. UNCHANGED resolved
      BY <1>3 DEF Call, Add, Get, Update, Delete, Wait, Step, Resolve, Fetch, FetchTimesOut,
           FetchFails, FetchEnds, UpdateText, UpdateRest, UpdateFails, DeleteRequest,
           DeleteNotFound, DeleteFails, ReadPage, PollEnds, WaitFails, cache
    <2>2. QED BY <2>1
  <1>4. QED BY <1>1, <1>2, <1>3

LEMMA CacheStep ==
    ASSUME IInv, Next, Forward, TypeOK'
    PROVE  CacheInv'
  <1> USE DEF IInv
  <1>1. ASSUME NEW e \in Events,
               resolved'[e] = resolved[e] \/ Leads(e, resolved'[e])
        PROVE  Leads(e, resolved[e])'
    <2>1. Leads(e, resolved'[e])
      BY <1>1 DEF CacheInv
    <2>2. resolved'[e] \in Ids \cup {NoId}
      BY DEF TypeOK
    <2>3. QED BY <2>1, <2>2, LeadsOn DEF Leads
  <1>2. CASE Restart
    <2>1. \A e \in Events : resolved'[e] = NoId
      BY <1>2 DEF Restart
    <2>2. QED BY <2>1, IdFacts DEF CacheInv, Leads
  <1>3. ASSUME NEW x \in Events, Ingest(x)
        PROVE  CacheInv'
    <2>1. resolved' = resolved
      BY <1>3 DEF Ingest, cache
    <2>2. QED BY <1>1, <2>1 DEF CacheInv
  <1>4. ASSUME NEW w \in Workers, Call(w) \/ Step(w)
        PROVE  CacheInv'
    BY <1>1, <1>4, ResolvedAfter DEF CacheInv
  <1>5. QED BY <1>2, <1>3, <1>4 DEF Next

\* The ids the program has and the keys of the adapter only become more, as
\* long as the process lives, and a new key is that of a new event.
LEMMA ToldAfter ==
    ASSUME IInv, NEW w \in Workers, Call(w) \/ Step(w)
    PROVE  /\ told \subseteq told' /\ known \subseteq known'
           /\ \A e \in known' \ known : fate[e] = "none"
           /\ \A e \in told' \ told : fate[e] # "none" \/ fate'[e] # "none"
  <1> USE DEF IInv
  <1>1. ASSUME NEW e \in Events, Add(w, e)
        PROVE  /\ told' \in {told, told \cup {e}} /\ known' \in {known, known \cup {e}}
               /\ fate[e] = "none"
               /\ told' # told => fate'[e] # "none"
    <2>1. fate[e] = "none" /\ (told' # told => fate' = [fate EXCEPT ![e] = "pending"])
      BY <1>1 DEF Add
    <2>2. told' \in {told, told \cup {e}} /\ known' \in {known, known \cup {e}}
      BY <1>1 DEF Add
    <2>3. QED BY <2>1, <2>2 DEF TypeOK
  <1>2. CASE \E e \in Events : Add(w, e)
    BY <1>1, <1>2
  <1>3. ASSUME Tell(w)
        PROVE  \/ told' = told
               \/ told' = told \cup {arg[w][2]} /\ fate[arg[w][2]] # "none"
    BY <1>3 DEF Tell, CallInv, CallOf
  <1>4. CASE Fetch(w) \/ FetchTimesOut(w)
    <2>1. known' = known /\ Tell(w)
      BY <1>4 DEF Fetch, FetchTimesOut, FetchEnds, cache
    <2>2. QED BY <1>3, <2>1
  <1>5. CASE /\ \A e \in Events : ~ Add(w, e)
             /\ ~ Fetch(w) /\ ~ FetchTimesOut(w)
    <2>1. UNCHANGED <<told, known>>
      BY <1>5 DEF Call, Get, Update, Delete, Wait, Begin, Step, Resolve, Store, FetchFails,
           FetchEnds, UpdateText, UpdateRest, UpdateFails, DeleteRequest, DeleteNotFound,
           DeleteFails, ReadPage, StoreFound, PollEnds, WaitFails, cache, counters
    <2>2. QED BY <2>1
  <1>6. QED BY <1>2, <1>4, <1>5

LEMMA ServiceStep ==
    ASSUME IInv, Next, Forward
    PROVE  ServiceInv'
  <1> USE DEF IInv
  <1>1. \A e \in told' : fate'[e] # "none"
    <2>1. told \subseteq Events /\ \A e \in told : fate'[e] # "none"
      BY DEF TypeOK, ServiceInv, Forward
    <2>2. CASE Restart \/ \E e \in Events : Ingest(e)
      BY <2>1, <2>2 DEF Restart, Ingest, counters
    <2>3. ASSUME NEW w \in Workers, Call(w) \/ Step(w)
          PROVE  \A e \in told' : fate'[e] # "none"
      <3>1. told' \subseteq Events
        <4>1. TypeOK'
          BY <2>3, CallTypes, StepTypes
        <4>2. QED BY <4>1 DEF TypeOK
      <3>2. QED BY <2>1, <2>3, <3>1, ToldAfter DEF Forward
    <2>4. QED BY <2>2, <2>3 DEF Next
  <1>2. QED BY <1>1 DEF ServiceInv, Forward
-----------------------------------------------------------------------------
(* What a call knows *)

\* As long as the process lives, nothing that wait_for_ingest() counts on goes:
\* no id is taken back, no key is new that was asked for, no id is forgotten.
Grows ==
    /\ told \subseteq told'
    /\ \A e \in known' \ known : fate[e] = "none"
    /\ \A e \in Events : resolved[e] # NoId => resolved'[e] # NoId

LEMMA StepGrows ==
    ASSUME IInv, NEW w \in Workers, Call(w) \/ Step(w)
    PROVE  Grows
  BY ToldAfter, ResolvedAfter DEF Grows

LEMMA IngestGrows ==
    ASSUME NEW x \in Events, Ingest(x)
    PROVE  Grows
  BY DEF Grows, Ingest, cache, counters

\* A call that has ended knows nothing.
LEMMA FinishInv ==
    ASSUME TypeOK, NEW w \in Workers, NEW how \in {"returned", "raised"}, Finish(w, how)
    PROVE  CallOf(w)' /\ WaitOf(w)' /\ DeleteOf(w)'
  <1>1. /\ pc'[w] = "idle" /\ op'[w] = "none" /\ arg'[w] = NoId /\ lookup'[w] = NoId
        /\ asked'[w] = {} /\ ids'[w] = {} /\ found'[w] = {} /\ entry'[w] = NoId
    BY DEF TypeOK, Finish, Goto
  <1>2. CallOf(w)'
    BY <1>1, IdFacts DEF CallOf
  <1>3. WaitOf(w)'
    BY <1>1 DEF WaitOf
  <1>4. DeleteOf(w)'
    BY <1>1, IdFacts DEF DeleteOf
  <1>5. QED BY <1>2, <1>3, <1>4

\* A wait_for_ingest() that stays where it is, with what it has, or a call that
\* is none.
LEMMA WaitStays ==
    ASSUME IInv, Forward, Grows, NEW v \in Workers,
           asked'[v] = asked[v], whose'[v] = whose[v], ids'[v] = ids[v], found'[v] = found[v],
           op'[v] = "wait" => op[v] = "wait",
           pc'[v] = "wait_all" => pc[v] = "wait_all"
    PROVE  WaitOf(v)'
  <1> USE DEF IInv
  <1>1. /\ asked[v] \subseteq told /\ told \subseteq Events
        /\ \A p \in found[v] : p[1] \in Events /\ p[2] \in Events
    BY DEF TypeOK, WaitInv, WaitOf
  <1>2. \A p \in found[v] : Landed(p[2])' /\ Related(p[1], p[2])'
    <2>1. \A p \in found[v] : Landed(p[2]) /\ Related(p[1], p[2])
      BY DEF WaitInv, WaitOf
    <2>2. QED BY <1>1, <2>1, LeadsOn DEF Forward
  <1>3. asked[v] \cap known' \subseteq asked[v] \cap known
    BY <1>1 DEF Grows, ServiceInv
  <1>4. op[v] = "wait" => \A e \in (asked[v] \cap known) \ ids[v] : resolved'[e] # NoId
    BY <1>1 DEF WaitInv, WaitOf, Grows
  <1>5. pc[v] = "wait_all" =>
          \A e \in asked[v] \cap known : resolved'[e] # NoId \/ \E p \in found[v] : p[1] = e
    BY <1>1 DEF WaitInv, WaitOf, Grows
  <1>6. asked[v] \subseteq told'
    BY <1>1 DEF Grows
  <1>7. op[v] = "wait" => \A e \in ids[v] : whose[v] \in askers'[e]
    BY DEF TypeOK, WaitInv, WaitOf, Forward
  <1>8. QED BY <1>2, <1>3, <1>4, <1>5, <1>6, <1>7 DEF WaitOf

\* A delete() that is where it was, or a call that is none.
LEMMA DeleteStays ==
    ASSUME IInv, Forward, NEW v \in Workers, entry'[v] = entry[v],
           pc'[v] = "delete_resolved" => pc[v] = "delete_resolved" /\ lookup'[v] = lookup[v],
           pc'[v] = "delete_id" => pc[v] = "delete_id"
    PROVE  DeleteOf(v)'
  <1>1. entry[v] \in Ids \cup {NoId}
    BY DEF IInv, TypeOK
  <1>2. entry[v][1] = "record" => entry[v][2] \in Events
    BY <1>1, IdFacts
  <1>3. QED BY <1>2 DEF IInv, Forward, DeleteInv, DeleteOf

LEMMA CallStays ==
    ASSUME IInv, Forward, NEW v \in Workers,
           pc'[v] = pc[v], op'[v] = op[v], arg'[v] = arg[v], lookup'[v] = lookup[v]
    PROVE  CallOf(v)'
  <1>1. CallOf(v) /\ arg[v] \in Ids \cup {NoId} /\ lookup[v] \in Ids \cup {NoId}
    BY DEF IInv, CallInv, TypeOK
  <1>2. arg[v][1] = "event" =>
          /\ Leads(arg[v][2], lookup[v])'
          /\ fate[arg[v][2]] # "none" => fate'[arg[v][2]] # "none"
    <2>1. arg[v][1] = "event" => arg[v][2] \in Events /\ Leads(arg[v][2], lookup[v])
      BY <1>1, IdFacts DEF CallOf
    <2>2. QED BY <1>1, <2>1, LeadsOn DEF Forward, Leads, Landed, Related
  <1>3. QED BY <1>1, <1>2 DEF CallOf

\* What a step of another worker, or of the service, leaves of a call.
LEMMA OthersGoOn ==
    ASSUME IInv, Forward, Grows, NEW v \in Workers,
           pc'[v] = pc[v], op'[v] = op[v], arg'[v] = arg[v], lookup'[v] = lookup[v],
           asked'[v] = asked[v], whose'[v] = whose[v], ids'[v] = ids[v], found'[v] = found[v],
           entry'[v] = entry[v]
    PROVE  CallOf(v)' /\ WaitOf(v)' /\ DeleteOf(v)'
  BY CallStays, WaitStays, DeleteStays
\* What the cache answers for the id of an event, and that id itself, lead
\* where they may.
LEMMA CachedLeads ==
    ASSUME IInv, NEW i \in Ids \cup {NoId}, i[1] = "event"
    PROVE  /\ i[2] \in Events
           /\ Leads(i[2], CachedOr(i)) /\ Leads(i[2], i)
  BY IdFacts DEF IInv, TypeOK, CacheInv, CachedOr, Cached, Leads

\* A call that is no wait_for_ingest() and no delete() goes on with the id i.
LEMMA GoesOn ==
    ASSUME IInv, TypeOK', Forward, Grows, NEW w \in Workers,
           NEW where \in {"resolve", "store", "fetch", "update", "update_rest"},
           NEW i \in Ids \cup {NoId}, GoOn(w, where, i),
           op'[w] \notin {"wait", "delete"},
           UNCHANGED <<waiting, entry>>,
           where \in {"resolve", "store"} \/ op'[w] = "add" => arg'[w][1] = "event",
           where = "store" => i # NoId,
           op'[w] = "add" => fate'[arg'[w][2]] # "none",
           NEW j \in Ids \cup {NoId}, arg'[w] = j, j[1] = "event" => Leads(j[2], i)
    PROVE  CallOf(w)' /\ WaitOf(w)' /\ DeleteOf(w)'
  <1>1. pc'[w] = where /\ lookup'[w] = i
    BY DEF IInv, TypeOK, GoOn, Goto
  <1>2. CallOf(w)'
    <2>1. j[1] = "event" => j[2] \in Events /\ Leads(j[2], i)
      BY IdFacts
    <2>2. j[1] = "event" => Leads(arg[w][2], lookup[w])'
      BY <1>1, <2>1, LeadsOn DEF Leads, Landed, Related
    <2>3. QED BY <1>1, <2>2 DEF CallOf
  <1>3. WaitOf(w)'
    BY <1>1, WaitStays DEF waiting
  <1>4. DeleteOf(w)'
    BY <1>1, DeleteStays
  <1>5. QED BY <1>2, <1>3, <1>4

\* The beginnings of calls.
LEMMA CallStep ==
    ASSUME IInv, TypeOK', Forward, Grows, NEW w \in Workers, Call(w)
    PROVE  CallOf(w)' /\ WaitOf(w)' /\ DeleteOf(w)'
  <1> USE DEF IInv
  <1>1. ASSUME NEW e \in Events, Add(w, e)
        PROVE  CallOf(w)' /\ WaitOf(w)' /\ DeleteOf(w)'
    <2>1. CASE Finish(w, "returned") \/ Finish(w, "raised")
      BY <2>1, FinishInv
    <2>2. CASE /\ GoOn(w, "resolve", EventId(e)) /\ op' = [op EXCEPT ![w] = "add"]
               /\ arg' = [arg EXCEPT ![w] = EventId(e)] /\ UNCHANGED <<waiting, entry>>
               /\ fate' = [fate EXCEPT ![e] = "pending"]
      <3>1. /\ op'[w] = "add" /\ arg'[w] = EventId(e) /\ fate'[e] = "pending"
            /\ EventId(e) \in Ids \cup {NoId} /\ EventId(e)[1] = "event" /\ EventId(e)[2] = e
        BY <2>2, IdFacts DEF TypeOK
      <3>2. Leads(EventId(e)[2], EventId(e))
        BY <3>1 DEF Leads
      <3>3. QED BY <2>2, <3>1, <3>2, GoesOn
    <2>3. QED BY <1>1, <2>1, <2>2 DEF Add
  <1>2. ASSUME NEW i \in Usable PROVE i \in Ids \cup {NoId}
    BY <1>2, IdFacts DEF Usable, TypeOK
  <1>3. ASSUME NEW i \in Usable, NEW what \in {"get", "update"}, Begin(w, what, i),
               NEW where \in {"resolve", "fetch", "update"}, NEW j \in {i, CachedOr(i)},
               GoOn(w, where, j), where = "resolve" => i[1] = "event",
               UNCHANGED <<waiting, entry>>
        PROVE  CallOf(w)' /\ WaitOf(w)' /\ DeleteOf(w)'
    <2>1. i \in Ids \cup {NoId} /\ j \in Ids \cup {NoId}
      BY <1>2, CachedFacts, TypesApart
    <2>2. op'[w] = what /\ arg'[w] = i
      BY <1>3 DEF Begin, TypeOK
    <2>3. i[1] = "event" => Leads(i[2], j)
      BY <2>1, CachedLeads
    <2>4. QED BY <1>3, <2>1, <2>2, <2>3, GoesOn
  <1>4. ASSUME NEW i \in Usable, Get(w, i) \/ Update(w, i)
        PROVE  CallOf(w)' /\ WaitOf(w)' /\ DeleteOf(w)'
    <2>1. Unresolved(i) => i[1] = "event"
      BY DEF Unresolved
    <2>2. CASE Get(w, i)
      BY <1>3, <2>1, <2>2 DEF Get, StartGet
    <2>3. CASE Update(w, i)
      BY <1>3, <2>1, <2>3 DEF Update, StartGet
    <2>4. QED BY <1>4, <2>2, <2>3
  <1>5. ASSUME NEW i \in Usable, Delete(w, i)
        PROVE  CallOf(w)' /\ WaitOf(w)' /\ DeleteOf(w)'
    <2>1. /\ pc'[w] = IF CachedOr(i) # i THEN "delete_resolved" ELSE "delete_id"
          /\ op'[w] = "delete" /\ arg'[w] = i /\ lookup'[w] = CachedOr(i)
          /\ entry'[w] = Cached(i) /\ UNCHANGED <<service, cache, waiting>>
      BY <1>5 DEF Delete, Begin, GoOn, Goto, FirstCandidate, TypeOK
    <2>2. i \in Ids \cup {NoId} /\ CacheTypes
      BY <1>2, TypesApart
    <2>3. CallOf(w)'
      <3>1. i[1] = "event" => i[2] \in Events /\ Leads(i[2], CachedOr(i))
        BY <2>2, CachedLeads
      <3>2. i[1] = "event" => Leads(arg[w][2], lookup[w])'
        BY <2>1, <2>2, <3>1, CachedFacts, LeadsOn DEF Leads, Landed, Related
      <3>3. QED BY <2>1, <3>2 DEF CallOf
    <2>4. WaitOf(w)'
      BY <2>1, WaitStays DEF waiting
    <2>5. DeleteOf(w)'
      <3>1. Cached(i)[1] = "record" =>
              CachedOr(i) = Cached(i) /\ i[1] = "event" /\ Cached(i) # i
              /\ Leads(i[2], Cached(i))
        BY <2>2, CachedFacts, CachedLeads, IdFacts
      <3>2. Cached(i)[1] = "record" => Landed(Cached(i)[2])
        BY <3>1 DEF Leads
      <3>3. QED BY <2>1, <3>1, <3>2 DEF DeleteOf, service, Landed
    <2>6. QED BY <2>3, <2>4, <2>5
  <1>6. ASSUME NEW u \in Users, Wait(w, u)
        PROVE  CallOf(w)' /\ WaitOf(w)' /\ DeleteOf(w)'
    <2>1. PICK some \in SUBSET told :
              /\ asked' = [asked EXCEPT ![w] = some]
              /\ ids' = [ids EXCEPT ![w] = {e \in some : Unresolved(EventId(e))}]
      BY <1>6 DEF Wait
    <2>2. /\ asked'[w] = some /\ ids'[w] = {e \in some : Unresolved(EventId(e))}
          /\ pc'[w] = IF ids'[w] = {} THEN "wait_all" ELSE "wait"
          /\ op'[w] = "wait" /\ arg'[w] = NoId /\ whose'[w] = u
          /\ \A e \in ids'[w] : e \in Events /\ u \in askers'[e]
          /\ UNCHANGED <<fate, cache, lookup, found, entry, told>>
      BY <1>6, <2>1 DEF Wait, Begin, Goto, TypeOK
    <2>3. some \subseteq told /\ told \subseteq Events
      BY DEF TypeOK
    <2>4. \A e \in (some \cap known) \ ids'[w] : resolved[e] # NoId
      BY <2>2, <2>3, IdFacts DEF Unresolved, Cached
    <2>5. CallOf(w)'
      BY <2>2, IdFacts DEF CallOf
    <2>6. WaitOf(w)'
      <3>1. \A p \in found[w] : p[1] \in Events /\ p[2] \in Events
                                /\ Landed(p[2]) /\ Related(p[1], p[2])
        BY DEF TypeOK, WaitInv, WaitOf
      <3>2. \A p \in found[w] : Landed(p[2])' /\ Related(p[1], p[2])'
        BY <3>1, LeadsOn DEF Forward
      <3>3. QED BY <2>2, <2>3, <2>4, <3>2 DEF WaitOf, cache
    <2>7. DeleteOf(w)'
      BY <2>2, DeleteStays
    <2>8. QED BY <2>5, <2>6, <2>7
  <1>7. QED BY <1>1, <1>4, <1>5, <1>6 DEF Call
\* Polling, and what get(), update() and a blocking add() do then.
LEMMA PollingStep ==
    ASSUME IInv, TypeOK', Forward, Grows, NEW w \in Workers,
           \/ Resolve(w) \/ Store(w) \/ Fetch(w) \/ FetchTimesOut(w) \/ FetchFails(w)
           \/ UpdateText(w)
    PROVE  CallOf(w)' /\ WaitOf(w)' /\ DeleteOf(w)'
  <1> USE DEF IInv
  <1>1. /\ arg[w] \in Ids \cup {NoId} /\ lookup[w] \in Ids \cup {NoId}
        /\ arg[w][1] = "event" => arg[w][2] \in Events /\ Leads(arg[w][2], lookup[w])
        /\ op[w] = "add" => arg[w][1] = "event" /\ fate'[arg[w][2]] # "none"
    BY IdFacts DEF TypeOK, CallInv, CallOf, Forward
  <1>2. ASSUME NEW where \in {"store", "fetch", "update", "update_rest"},
               NEW i \in Ids \cup {NoId}, GoOn(w, where, i), UNCHANGED <<op, arg, waiting, entry>>,
               op[w] \notin {"wait", "delete"},
               where = "store" => arg[w][1] = "event" /\ i # NoId,
               arg[w][1] = "event" => Leads(arg[w][2], i)
        PROVE  CallOf(w)' /\ WaitOf(w)' /\ DeleteOf(w)'
    BY <1>1, <1>2, GoesOn
  <1>3. CASE Resolve(w)
    <2>1. arg[w][1] = "event" /\ arg[w] # NoId /\ op[w] \notin {"wait", "delete"}
      BY <1>3, IdFacts DEF Resolve, CallInv, CallOf
    <2>2. CASE \E r \in Candidates(arg[w][2], user[arg[w][2]]) : GoOn(w, "store", RecordId(r))
      <3>1. PICK r \in Candidates(arg[w][2], user[arg[w][2]]) : GoOn(w, "store", RecordId(r))
        BY <2>2
      <3>2. r \in Events /\ Landed(r) /\ Related(arg[w][2], r)
        BY <1>1, <2>1, CandidateLeads
      <3>3. /\ RecordId(r) \in Ids \cup {NoId} /\ RecordId(r) # NoId
            /\ Leads(arg[w][2], RecordId(r))
        BY <3>2, IdFacts DEF Leads
      <3>4. QED BY <1>2, <1>3, <2>1, <3>1, <3>3 DEF Resolve
    <2>3. CASE GoOn(w, "store", arg[w])
      <3>1. Leads(arg[w][2], arg[w])
        BY <2>1 DEF Leads
      <3>2. QED BY <1>1, <1>2, <1>3, <2>1, <2>3, <3>1 DEF Resolve
    <2>4. QED BY <1>3, <2>2, <2>3 DEF Resolve
  <1>4. CASE Store(w)
    <2>1. op[w] \notin {"wait", "delete"}
      BY <1>4 DEF Store, CallInv, CallOf
    <2>2. QED BY <1>1, <1>2, <1>4, <2>1 DEF Store
  <1>5. CASE Fetch(w)
    <2>1. op[w] \notin {"wait", "delete"}
      BY <1>5 DEF Fetch, CallInv, CallOf
    <2>2. CachedOr(arg[w]) \in Ids \cup {NoId}
      BY <1>1, CachedFacts, TypesApart
    <2>3. arg[w][1] = "event" => Leads(arg[w][2], CachedOr(arg[w]))
      BY <1>1, CachedLeads
    <2>4. CASE GoOn(w, "update", CachedOr(arg[w])) /\ UNCHANGED <<op, arg, waiting, entry, out>>
      BY <1>2, <2>1, <2>2, <2>3, <2>4
    <2>5. QED BY <1>5, <2>4, FinishInv DEF Fetch
  <1>6. ASSUME NEW how \in {"returned", "raised"}, FetchEnds(w, how)
        PROVE  CallOf(w)' /\ WaitOf(w)' /\ DeleteOf(w)'
    <2>1. op[w] \notin {"wait", "delete"}
      BY <1>6 DEF FetchEnds, CallInv, CallOf
    <2>2. arg[w][1] = "event" => Leads(arg[w][2], arg[w])
      BY DEF Leads
    <2>3. CASE GoOn(w, "update", arg[w]) /\ UNCHANGED <<op, arg, waiting, entry, out>>
      BY <1>1, <1>2, <2>1, <2>2, <2>3
    <2>4. QED BY <1>6, <2>3, FinishInv DEF FetchEnds
  <1>7. CASE FetchTimesOut(w) \/ FetchFails(w)
    BY <1>6, <1>7 DEF FetchTimesOut, FetchFails
  <1>8. CASE UpdateText(w)
    <2>1. op[w] \notin {"wait", "delete"}
      BY <1>8 DEF UpdateText, CallInv, CallOf
    <2>2. QED BY <1>1, <1>2, <1>8, <2>1 DEF UpdateText
  <1>9. QED BY <1>3, <1>4, <1>5, <1>7, <1>8

\* Deleting: the record the cache held is deleted, or is gone already.
LEMMA DeletingStep ==
    ASSUME IInv, TypeOK', Forward, Grows, NEW w \in Workers,
           DeleteRequest(w) \/ DeleteNotFound(w) \/ DeleteFails(w)
    PROVE  CallOf(w)' /\ WaitOf(w)' /\ DeleteOf(w)'
  <1> USE DEF IInv
  <1>1. CASE Finish(w, "returned") \/ Finish(w, "raised")
    BY <1>1, FinishInv
  <1>2. CASE /\ DeleteNotFound(w) /\ pc[w] = "delete_resolved" /\ GoOn(w, "delete_id", arg[w])
             /\ UNCHANGED <<op, arg, waiting, entry, out>>
    <2>1. /\ pc'[w] = "delete_id" /\ lookup'[w] = arg[w] /\ op[w] = "delete"
          /\ UNCHANGED <<fate, op, arg, waiting, entry>>
      BY <1>2 DEF DeleteNotFound, GoOn, Goto, TypeOK, CallInv, CallOf, service
    <2>2. CallOf(w)'
      BY <2>1 DEF CallOf, Leads
    <2>3. WaitOf(w)'
      BY <2>1, WaitStays DEF waiting
    <2>4. DeleteOf(w)'
      BY <1>2, <2>1 DEF DeleteNotFound, Stored, DeleteInv, DeleteOf, Landed
    <2>5. QED BY <2>2, <2>3, <2>4
  <1>3. QED BY <1>1, <1>2 DEF DeleteRequest, DeleteNotFound, DeleteFails

\* Waiting: a page finds some of the open ids, or all of them.
LEMMA WaitingStep ==
    ASSUME IInv, TypeOK', Forward, Grows, NEW w \in Workers,
           ReadPage(w) \/ StoreFound(w) \/ PollEnds(w) \/ WaitFails(w)
    PROVE  CallOf(w)' /\ WaitOf(w)' /\ DeleteOf(w)'
  <1> USE DEF IInv
  <1>1. /\ asked[w] \subseteq Events /\ ids[w] \subseteq Events
        /\ found[w] \subseteq Events \X Events
        /\ asked[w] \subseteq told
        /\ op[w] = "wait" => \A e \in (asked[w] \cap known) \ ids[w] : resolved[e] # NoId
        /\ op[w] = "wait" => \A e \in ids[w] : whose[w] \in askers[e]
    BY DEF TypeOK, WaitInv, WaitOf
  <1>2. CASE ReadPage(w)
    <2>1. PICK f \in PageChoices(w) :
            /\ found' = [found EXCEPT ![w] = Found(w, f)]
            /\ Goto(w, IF AllMatched(w, f) THEN "wait_all" ELSE "wait_some")
      BY <1>2 DEF ReadPage
    <2>2. /\ pc'[w] = IF AllMatched(w, f) THEN "wait_all" ELSE "wait_some"
          /\ found'[w] = Found(w, f) /\ op[w] = "wait" /\ pc[w] = "wait"
          /\ UNCHANGED <<service, cache, op, arg, lookup, asked, whose, ids, entry, told>>
      BY <1>2, <2>1 DEF ReadPage, Goto, TypeOK, CallInv, CallOf, counters
    <2>3. Open(w) \subseteq Events /\ \A e \in Open(w) : whose[w] \in askers[e]
      BY <1>1, <2>2 DEF Open
    <2>4. \A e \in Open(w) : f[e] # "none" =>
            f[e] \in Candidates(e, whose[w]) /\ f[e] \in Events /\ Landed(f[e]) /\ Related(e, f[e])
      BY <2>3, CandidateLeads DEF PageChoices
    <2>5. CallOf(w)'
      BY <2>2 DEF CallInv, CallOf, Leads, Landed, Related, service
    <2>6. WaitOf(w)'
      <3>1. \A p \in Found(w, f) : Landed(p[2])' /\ Related(p[1], p[2])'
        <4>1. \A p \in Found(w, f) : Landed(p[2]) /\ Related(p[1], p[2])
          BY <2>3, <2>4, Mem0Assumption DEF Found
        <4>2. QED BY <2>2, <4>1 DEF Landed, Related, service
      <3>2. ASSUME AllMatched(w, f), NEW e \in asked[w] \cap known, resolved[e] = NoId
            PROVE  \E p \in Found(w, f) : p[1] = e
        <4>1. e \in Open(w)
          BY <1>1, <2>2, <3>2 DEF Open
        <4>2. f[e] \in Events
          BY <2>4, <3>2, <4>1 DEF AllMatched
        <4>3. <<e, f[e]>> \in Found(w, f)
          BY <4>1, <4>2 DEF Found
        <4>4. QED BY <4>3
      <3>3. QED BY <1>1, <2>2, <3>1, <3>2 DEF WaitOf, cache, service
    <2>7. DeleteOf(w)'
      BY <2>2, DeleteStays
    <2>8. QED BY <2>5, <2>6, <2>7
  <1>3. CASE StoreFound(w)
    <2>1. PICK p \in found[w] : /\ resolved' = [resolved EXCEPT ![p[1]] = RecordId(p[2])]
                                /\ found' = [found EXCEPT ![w] = @ \ {p}]
      BY <1>3 DEF StoreFound
    <2>2. /\ found'[w] = found[w] \ {p} /\ pc[w] \in {"wait_some", "wait_all"}
          /\ UNCHANGED <<service, known, pc, op, arg, lookup, asked, whose, ids, entry, told>>
      BY <1>3, <2>1 DEF StoreFound, TypeOK, counters
    <2>3. resolved'[p[1]] # NoId
      BY <1>1, <2>1, IdFacts DEF TypeOK
    <2>4. CallOf(w)'
      BY <2>2 DEF CallInv, CallOf, Leads, Landed, Related, service
    <2>5. WaitOf(w)'
      <3>1. \A q \in found'[w] : Landed(q[2])' /\ Related(q[1], q[2])'
        BY <2>2 DEF WaitInv, WaitOf, Landed, Related, service
      <3>2. \A e \in Events : resolved[e] # NoId => resolved'[e] # NoId
        BY DEF Grows
      <3>3. pc[w] = "wait_all" => \A e \in asked[w] \cap known :
                resolved'[e] # NoId \/ \E q \in found'[w] : q[1] = e
        BY <1>1, <2>2, <2>3, <3>2 DEF WaitInv, WaitOf
      <3>4. QED BY <1>1, <2>2, <3>1, <3>2, <3>3 DEF WaitOf, service
    <2>6. DeleteOf(w)'
      BY <2>2, DeleteStays
    <2>7. QED BY <2>4, <2>5, <2>6
  <1>4. CASE PollEnds(w)
    <2>1. CASE Finish(w, "returned") \/ Finish(w, "raised")
      BY <2>1, FinishInv
    <2>2. CASE pc[w] = "wait_some" /\ Goto(w, "wait")
               /\ UNCHANGED <<op, arg, lookup, waiting, entry, out>>
      <3>1. /\ pc'[w] = "wait" /\ op[w] = "wait"
            /\ UNCHANGED <<service, op, arg, lookup, waiting, entry>>
        BY <1>4, <2>2 DEF PollEnds, Goto, TypeOK, CallInv, CallOf
      <3>2. CallOf(w)'
        BY <3>1 DEF CallInv, CallOf, Leads, Landed, Related, service
      <3>3. WaitOf(w)' /\ DeleteOf(w)'
        BY <3>1, WaitStays, DeleteStays DEF waiting
      <3>4. QED BY <3>2, <3>3
    <2>3. QED BY <1>4, <2>1, <2>2 DEF PollEnds
  <1>5. CASE WaitFails(w)
    BY <1>5, FinishInv DEF WaitFails
  <1>6. QED BY <1>2, <1>3, <1>4, <1>5
LEMMA WorkerStep ==
    ASSUME IInv, TypeOK', Forward, Grows, NEW w \in Workers, Call(w) \/ Step(w)
    PROVE  CallInv' /\ WaitInv' /\ DeleteInv'
  <1>1. CallOf(w)' /\ WaitOf(w)' /\ DeleteOf(w)'
    <2>1. CASE Call(w)
      BY <2>1, CallStep
    <2>2. CASE UpdateRest(w) \/ UpdateFails(w)
      BY <2>2, FinishInv DEF IInv, UpdateRest, UpdateFails
    <2>3. CASE Step(w) /\ ~ UpdateRest(w) /\ ~ UpdateFails(w)
      BY <2>3, PollingStep, DeletingStep, WaitingStep DEF Step
    <2>4. QED BY <2>1, <2>2, <2>3
  <1>2. ASSUME NEW v \in Workers \ {w}
        PROVE  CallOf(v)' /\ WaitOf(v)' /\ DeleteOf(v)'
    BY OthersStay, OthersGoOn DEF IInv
  <1>3. \A v \in Workers : CallOf(v)' /\ WaitOf(v)' /\ DeleteOf(v)'
    BY <1>1, <1>2
  <1>4. QED BY <1>3 DEF CallInv, WaitInv, DeleteInv

-----------------------------------------------------------------------------
(* The invariant *)

LEMMA InitInv == Init => IInv
  <1> SUFFICES ASSUME Init PROVE IInv
    OBVIOUS
  <1>1. TypeOK
    BY Mem0Assumption DEF Init, TypeOK, Stops
  <1>2. ServiceInv /\ CacheInv
    BY IdFacts DEF Init, ServiceInv, CacheInv, Leads
  <1>3. CallInv /\ WaitInv /\ DeleteInv
    BY IdFacts DEF Init, CallInv, CallOf, WaitInv, WaitOf, DeleteInv, DeleteOf
  <1>4. QED BY <1>1, <1>2, <1>3 DEF IInv

LEMMA NextInv == IInv /\ [Next]_vars => IInv'
  <1>1. ASSUME IInv, Next PROVE IInv'
    <2>1. Forward
      BY <1>1, NextForward DEF IInv
    <2>2. TypeOK'
      BY <1>1, CallTypes, StepTypes, OtherTypes DEF IInv, Next
    <2>3. ServiceInv' /\ CacheInv'
      BY <1>1, <2>1, <2>2, ServiceStep, CacheStep
    <2>4. CASE \E w \in Workers : Call(w) \/ Step(w)
      <3>1. PICK w \in Workers : Call(w) \/ Step(w)
        BY <2>4
      <3>2. Grows
        BY <1>1, <3>1, StepGrows
      <3>3. CallInv' /\ WaitInv' /\ DeleteInv'
        BY <1>1, <2>1, <2>2, <3>1, <3>2, WorkerStep
      <3>4. QED BY <2>2, <2>3, <3>3 DEF IInv
    <2>5. CASE \E e \in Events : Ingest(e)
      <3>1. Grows /\ UNCHANGED <<pc, op, arg, lookup, asked, whose, ids, found, entry>>
        BY <2>5, IngestGrows DEF Ingest, waiting
      <3>2. \A v \in Workers : CallOf(v)' /\ WaitOf(v)' /\ DeleteOf(v)'
        BY <1>1, <2>1, <3>1, OthersGoOn
      <3>3. QED BY <2>2, <2>3, <3>2 DEF IInv, CallInv, WaitInv, DeleteInv
    <2>6. CASE Restart
      <3>1. \A w \in Workers :
              /\ pc'[w] = "idle" /\ op'[w] = "none" /\ arg'[w] = NoId /\ lookup'[w] = NoId
              /\ asked'[w] = {} /\ ids'[w] = {} /\ found'[w] = {} /\ entry'[w] = NoId
        BY <2>6 DEF Restart
      <3>2. CallInv'
        BY <3>1, IdFacts DEF CallInv, CallOf
      <3>3. WaitInv' /\ DeleteInv'
        BY <3>1, IdFacts DEF WaitInv, WaitOf, DeleteInv, DeleteOf
      <3>4. QED BY <2>2, <2>3, <3>2, <3>3 DEF IInv
    <2>7. QED BY <1>1, <2>4, <2>5, <2>6 DEF Next
  <1>2. ASSUME IInv, UNCHANGED vars PROVE IInv'
    <2>1. UNCHANGED <<service, cache, waiting, counters, pc, op, arg, lookup, entry, out>>
      BY <1>2 DEF vars
    <2>2. TypeOK' /\ ServiceInv' /\ CacheInv'
      BY <1>2, <2>1 DEF IInv, TypeOK, ServiceInv, CacheInv, Leads, Landed, Related,
                        service, cache, waiting, counters
    <2>3. CallInv' /\ WaitInv' /\ DeleteInv'
      BY <1>2, <2>1 DEF IInv, CallInv, CallOf, WaitInv, WaitOf, DeleteInv, DeleteOf, Leads,
                        Landed, Related, service, cache, waiting, counters
    <2>4. QED BY <2>2, <2>3 DEF IInv
  <1>3. QED BY <1>1, <1>2

\* The inductive invariant: what the cache, the local variables of the calls
\* and the waits hold of the service is true of it, or was.
THEOREM Invariance == Spec => []IInv
  BY InitInv, NextInv, PTL DEF Spec

\* Every variable has its type (Mem0!TypeOK): the dictionaries of the adapter
\* map events to ids of events or records, for any number of workers and calls.
THEOREM TypeCorrect == Spec => []TypeOK
  BY Invariance, PTL DEF IInv

-----------------------------------------------------------------------------
(* What the program can count on *)

\* get(), update() and delete() on the id of an event of one user never reach
\* the memories of another, unless the program itself named that other user in
\* a wait_for_ingest() for the event; nor one that never had a word in common
\* with the text, unless the text has no long word.  So however many workers
\* write their guesses to the cache, and whatever the records say by then.
THEOREM OwnMemories == Spec => []TouchesOwnMemories
  <1>1. IInv => TouchesOwnMemories
    BY IdFacts DEF IInv, TypeOK, CallInv, CallOf, Leads, Related, TouchesOwnMemories
  <1>2. QED BY <1>1, Invariance, PTL

\* A return is a step of the worker itself, and the end of its call.
LEMMA ReturnsAlone ==
    ASSUME IInv, Next, NEW w \in Workers, Returns(w)
    PROVE  Step(w)
  <1>1. CASE Restart
    BY <1>1 DEF Restart, Returns
  <1>2. ASSUME NEW e \in Events, Ingest(e) PROVE FALSE
    BY <1>2 DEF Ingest, Returns
  <1>3. ASSUME NEW v \in Workers, Call(v) \/ Step(v) PROVE Step(w)
    <2>1. v = w
      BY <1>3, OthersStay DEF IInv, Returns
    <2>2. Call(w) => pc[w] = "idle"
      BY DEF Call, Add, Get, Update, Delete, Wait, Begin
    <2>3. QED BY <1>3, <2>1, <2>2 DEF Returns
  <1>4. QED BY <1>1, <1>2, <1>3 DEF Next

\* wait_for_ingest() does not return before every id it was asked for, and that
\* the adapter handed out, is in the cache, although it looks only for those it
\* found missing when it began, each poll finds only some of them, and others
\* write to the cache in between.
THEOREM WaitResolves == Spec => WaitResolvesAll
  <1>1. ASSUME IInv, Next, NEW w \in Workers, op[w] = "wait", Returns(w),
               NEW e \in asked[w] \cap known
        PROVE  resolved[e] # NoId
    <2>1. Step(w) /\ pc[w] \in {"wait", "wait_some", "wait_all"}
      BY <1>1, ReturnsAlone DEF IInv, CallInv, CallOf
    <2>2. pc'[w] = "idle" /\ out'[w] = "returned"
      BY <1>1 DEF Returns
    <2>3. ASSUME Finish(w, "raised") PROVE FALSE
      BY <1>1, <2>2, <2>3 DEF Finish, IInv, TypeOK
    <2>4. ~ WaitFails(w) /\ ~ ReadPage(w) /\ ~ StoreFound(w)
      <3>1. ~ WaitFails(w)
        BY <2>3 DEF WaitFails
      <3>2. ~ ReadPage(w)
        BY <1>1, <2>2 DEF ReadPage, Goto, IInv, TypeOK
      <3>3. ~ StoreFound(w)
        BY <2>1, <2>2 DEF StoreFound
      <3>4. QED BY <3>1, <3>2, <3>3
    <2>5. PollEnds(w)
      BY <2>1, <2>4 DEF Step, Resolve, Store, Fetch, FetchTimesOut, FetchFails, FetchEnds,
           UpdateText, UpdateRest, UpdateFails, DeleteRequest, DeleteNotFound, DeleteFails
    <2>6. pc[w] = "wait_all" /\ found[w] = {}
      BY <1>1, <2>2, <2>3, <2>5 DEF PollEnds, Goto, IInv, TypeOK
    <2>7. QED BY <1>1, <2>6 DEF IInv, WaitInv, WaitOf
  <1>2. IInv /\ [Next]_vars => [\A w \in Workers :
          op[w] = "wait" /\ Returns(w) => \A e \in asked[w] \cap known : resolved[e] # NoId]_vars
    BY <1>1
  <1>3. QED BY <1>2, Invariance, PTL DEF Spec, WaitResolvesAll

\* A delete() that reports success leaves no record that the cache held for the
\* id when the call began: it deleted it, or its request for it found nothing
\* and the record does not come back.
THEOREM DeleteWorks == Spec => DeleteIsReal
  <1>1. ASSUME IInv, Next, NEW w \in Workers, op[w] = "delete", Returns(w),
               entry[w][1] = "record"
        PROVE  fate'[entry[w][2]] # "stored"
    <2>1. Step(w) /\ pc[w] \in {"delete_resolved", "delete_id"}
      BY <1>1, ReturnsAlone DEF IInv, CallInv, CallOf
    <2>2. /\ entry[w][2] \in Events
          /\ pc[w] = "delete_resolved" => lookup[w] = entry[w]
          /\ pc[w] = "delete_id" => fate[entry[w][2]] = "deleted"
      BY <1>1, IdFacts DEF IInv, TypeOK, DeleteInv, DeleteOf
    <2>3. pc[w] = "delete_id" => fate'[entry[w][2]] = "deleted"
      BY <1>1, <2>2, NextForward DEF IInv, Forward
    <2>4. CASE DeleteRequest(w)
      BY <1>1, <2>1, <2>2, <2>3, <2>4 DEF DeleteRequest, IInv, TypeOK
    <2>5. ~ DeleteFails(w)
      BY <1>1 DEF DeleteFails, Finish, Returns, IInv, TypeOK
    <2>6. CASE DeleteNotFound(w)
      <3>1. pc[w] # "delete_resolved"
        BY <1>1, <2>6 DEF DeleteNotFound, GoOn, Goto, Returns, IInv, TypeOK
      <3>2. QED BY <2>1, <2>3, <3>1
    <2>7. QED
      BY <2>1, <2>4, <2>5, <2>6 DEF Step, Resolve, Store, Fetch, FetchTimesOut, FetchFails,
           FetchEnds, UpdateText, UpdateRest, UpdateFails, ReadPage, StoreFound, PollEnds, WaitFails
  <1>2. IInv /\ [Next]_vars => [\A w \in Workers :
          op[w] = "delete" /\ Returns(w) /\ entry[w][1] = "record" =>
              fate'[entry[w][2]] # "stored"]_vars
    BY <1>1
  <1>3. QED BY <1>2, Invariance, PTL DEF Spec, DeleteIsReal

=============================================================================
