-------------------------------- MODULE Mem0 --------------------------------
(***************************************************************************)
(* Mem0Adapter (adapters/mem0.py) under AsyncThreadwrapAdapter: worker     *)
(* threads that share the adapter's dictionaries and the Mem0 service.     *)
(*                                                                         *)
(* add() answers with the id of an event; the service rewrites the text    *)
(* and stores it later under an id of its own, or drops it.  The adapter   *)
(* finds that id by looking for a memory of the user that shares a word    *)
(* with the text, and remembers what it found.                             *)
(*                                                                         *)
(* A worker makes one call after another.  Its steps are the upstream      *)
(* requests and the accesses to _resolved_event.  A record is named by the *)
(* event it came from.  A text is the set of its words of four letters or  *)
(* more.  The clock is left out: any poll that finds nothing may be the    *)
(* last one before the deadline.  A page of get_all that does not show a   *)
(* memory, because there are too many newer ones, counts as a request that *)
(* failed.  list(), search() and context() read none of this state and are *)
(* left out.                                                               *)
(***************************************************************************)
EXTENDS Naturals, FiniteSets

CONSTANTS Workers,
          Events,
          Users,
          Words,
          MaxCalls      \* bound: calls made and restarts of the process, together

ASSUME Mem0Assumption ==
    /\ MaxCalls \in Nat
    /\ "none" \notin Events

EventId(e)  == <<"event", e>>
RecordId(r) == <<"record", r>>
NoId        == <<"none", "none">>
Ids         == {EventId(e) : e \in Events} \cup {RecordId(r) : r \in Events}

VARIABLES
    \* the texts of the program and the service
    user, text,  \* whose each event is, and its _original_by_event
    askers,      \* history: every user a wait for the event was for
    fate,        \* what the service did with it
    says,        \* the words of its record
    written,     \* history: every word its record ever had
    \* the adapter
    known,       \* the keys of _user_by_event and _original_by_event
    resolved,    \* _resolved_event
    \* the workers
    pc, op, arg, \* where each is, its call, and the id it was given
    lookup,      \* lookup_id, target
    asked, ids,  \* the ids of wait_for_ingest, and those it found pending
    whose,       \* its user_id
    found,       \* what the page it read resolves
    entry,       \* history: what the cache held when delete() began
    out,         \* whether the last call returned or raised
    told,        \* the events whose id the program was given
    calls        \* calls made and restarts so far

service  == <<user, text, askers, fate, says, written>>
cache    == <<known, resolved>>
waiting  == <<asked, whose, ids, found>>
counters == <<told, calls>>
vars     == <<service, cache, pc, op, arg, lookup, waiting, entry, out, counters>>

Stops == {"idle", "resolve", "store", "fetch", "update", "update_rest",
          "delete_resolved", "delete_id", "wait", "wait_some", "wait_all"}

TypeOK ==
    /\ user \in [Events -> Users] /\ text \in [Events -> SUBSET Words]
    /\ askers \in [Events -> SUBSET Users]
    /\ fate \in [Events -> {"none", "pending", "stored", "dropped", "deleted"}]
    /\ says \in [Events -> SUBSET Words] /\ written \in [Events -> SUBSET Words]
    /\ known \subseteq Events
    /\ resolved \in [Events -> Ids \cup {NoId}]
    /\ pc \in [Workers -> Stops]
    /\ op \in [Workers -> {"none", "add", "get", "update", "delete", "wait"}]
    /\ arg \in [Workers -> Ids \cup {NoId}]
    /\ lookup \in [Workers -> Ids \cup {NoId}]
    /\ whose \in [Workers -> Users \cup {"none"}]
    /\ asked \in [Workers -> SUBSET Events] /\ ids \in [Workers -> SUBSET Events]
    /\ found \in [Workers -> SUBSET (Events \X Events)]
    /\ entry \in [Workers -> Ids \cup {NoId}]
    /\ out \in [Workers -> {"returned", "raised"}]
    /\ told \subseteq Events
    /\ calls \in 0..MaxCalls

Init ==
    /\ user \in [Events -> Users] /\ text \in [Events -> SUBSET Words]
    /\ askers = [e \in Events |-> {}]
    /\ fate = [e \in Events |-> "none"]
    /\ says = [e \in Events |-> {}] /\ written = [e \in Events |-> {}]
    /\ known = {}
    /\ resolved = [e \in Events |-> NoId]
    /\ pc = [w \in Workers |-> "idle"]
    /\ op = [w \in Workers |-> "none"]
    /\ arg = [w \in Workers |-> NoId]
    /\ lookup = [w \in Workers |-> NoId]
    /\ whose = [w \in Workers |-> "none"]
    /\ asked = [w \in Workers |-> {}] /\ ids = [w \in Workers |-> {}]
    /\ found = [w \in Workers |-> {}]
    /\ entry = [w \in Workers |-> NoId]
    /\ out = [w \in Workers |-> "returned"]
    /\ told = {}
    /\ calls = 0

-----------------------------------------------------------------------------
(* The service *)

StoreAs(e, words) ==
    /\ fate' = [fate EXCEPT ![e] = "stored"]
    /\ says' = [says EXCEPT ![e] = words]
    /\ written' = [written EXCEPT ![e] = @ \cup words]

\* Ingestion ends: the text is stored in other words, or it is no fact.
Ingest(e) ==
    /\ fate[e] = "pending"
    /\ \/ \E words \in SUBSET Words : StoreAs(e, words)
       \/ fate' = [fate EXCEPT ![e] = "dropped"] /\ UNCHANGED <<says, written>>
    /\ UNCHANGED <<user, text, askers, cache, pc, op, arg, lookup, waiting, entry, out, counters>>

\* Only records have an id the service can look up.
Stored(i) == i[1] = "record" /\ fate[i[2]] = "stored"

\* get_all
PageOfEverybody(u) == {r \in Events : fate[r] = "stored"}
Page(u) == {r \in Events : fate[r] = "stored" /\ user[r] = u}

MatchesAnything(e, r) == TRUE
Matches(e, r) == text[e] = {} \/ text[e] \cap says[r] # {}

\* Memories of a user that may be what became of an event.
Candidates(e, u) == {r \in Page(u) : Matches(e, r)}

-----------------------------------------------------------------------------
(* Calls *)

Goto(w, where) == pc' = [pc EXCEPT ![w] = where]

Begin(w, what, i) ==
    /\ pc[w] = "idle"
    /\ calls < MaxCalls /\ calls' = calls + 1
    /\ op' = [op EXCEPT ![w] = what]
    /\ arg' = [arg EXCEPT ![w] = i]
    /\ UNCHANGED told

\* The call returns; its locals are gone.
Finish(w, outcome) ==
    /\ Goto(w, "idle")
    /\ out' = [out EXCEPT ![w] = outcome]
    /\ op' = [op EXCEPT ![w] = "none"]
    /\ arg' = [arg EXCEPT ![w] = NoId]
    /\ lookup' = [lookup EXCEPT ![w] = NoId]
    /\ whose' = [whose EXCEPT ![w] = "none"]
    /\ asked' = [asked EXCEPT ![w] = {}]
    /\ ids' = [ids EXCEPT ![w] = {}]
    /\ found' = [found EXCEPT ![w] = {}]
    /\ entry' = [entry EXCEPT ![w] = NoId]

\* The call goes on at `where` with the id i.
GoOn(w, where, i) ==
    /\ Goto(w, where)
    /\ lookup' = [lookup EXCEPT ![w] = i]

\* `_resolved_event.get(id)`
Cached(i) == IF i[1] = "event" THEN resolved[i[2]] ELSE NoId

CachedOr(i) == IF Cached(i) = NoId THEN i ELSE Cached(i)

\* `resolved is None and user_for_event is not None`
Unresolved(i) == Cached(i) = NoId /\ i[1] = "event" /\ i[2] \in known

StartGet(w, i) ==
    IF Unresolved(i) THEN GoOn(w, "resolve", i) ELSE GoOn(w, "fetch", CachedOr(i))

-----------------------------------------------------------------------------
(* add() *)

\* The service queues the text (and add() returns, or waits for it with
\* block_on_add), stores it at once, finds no fact in it, or fails, in which
\* case the text may have arrived all the same.
Add(w, e) ==
    /\ pc[w] = "idle" /\ fate[e] = "none"
    /\ calls < MaxCalls /\ calls' = calls + 1
    /\ \/ /\ fate' = [fate EXCEPT ![e] = "pending"]
          /\ known' = known \cup {e}
          /\ \/ Finish(w, "returned") /\ told' = told \cup {e}
             \/ /\ GoOn(w, "resolve", EventId(e))
                /\ op' = [op EXCEPT ![w] = "add"]
                /\ arg' = [arg EXCEPT ![w] = EventId(e)]
                /\ UNCHANGED <<waiting, entry, out, told>>
          /\ UNCHANGED <<says, written>>
       \/ /\ \E words \in SUBSET Words : StoreAs(e, words)
          /\ Finish(w, "returned")
          /\ UNCHANGED <<known, told>>
       \/ /\ fate' = [fate EXCEPT ![e] = "dropped"]
          /\ Finish(w, "returned")
          /\ UNCHANGED <<says, written, known, told>>
       \/ /\ \E f \in {"dropped", "pending"} : fate' = [fate EXCEPT ![e] = f]
          /\ Finish(w, "raised")
          /\ UNCHANGED <<says, written, known, told>>
    /\ UNCHANGED <<user, text, askers, resolved>>

-----------------------------------------------------------------------------
(* get() *)

Get(w, i) ==
    /\ Begin(w, "get", i)
    /\ StartGet(w, i)
    /\ UNCHANGED <<service, cache, waiting, entry, out>>

\* _resolve_event_id, on the pages of the user of the event: a poll finds a
\* candidate, or the last one failed and the id of the event stands for itself.
Resolve(w) ==
    /\ pc[w] = "resolve"
    /\ \/ \E r \in Candidates(arg[w][2], user[arg[w][2]]) : GoOn(w, "store", RecordId(r))
       \/ GoOn(w, "store", arg[w])
    /\ UNCHANGED <<service, cache, op, arg, waiting, entry, out, counters>>

\* `self._resolved_event[id] = resolved`, whatever other threads wrote there.
Store(w) ==
    /\ pc[w] = "store"
    /\ resolved' = [resolved EXCEPT ![arg[w][2]] = lookup[w]]
    /\ GoOn(w, "fetch", lookup[w])
    /\ UNCHANGED <<service, known, op, arg, waiting, entry, out, counters>>

\* A blocking add() gives the program the id it polled for.
Tell(w) == told' = IF op[w] = "add" THEN told \cup {arg[w][2]} ELSE told

\* What the call that polled does then: get() and a blocking add() end,
\* update() takes what the cache says.
Fetch(w) ==
    /\ pc[w] = "fetch"
    /\ Stored(lookup[w])
    /\ \/ /\ op[w] = "update"
          /\ GoOn(w, "update", CachedOr(arg[w]))
          /\ UNCHANGED <<op, arg, waiting, entry, out>>
       \/ op[w] # "update" /\ Finish(w, "returned")
    /\ Tell(w)
    /\ UNCHANGED <<service, cache, calls>>

\* update() swallows the errors of its get() and tries the id it was given.
FetchEnds(w, outcome) ==
    /\ pc[w] = "fetch"
    /\ \/ /\ op[w] = "update"
          /\ GoOn(w, "update", arg[w])
          /\ UNCHANGED <<op, arg, waiting, entry, out>>
       \/ op[w] # "update" /\ Finish(w, outcome)
    /\ UNCHANGED <<service, cache, calls>>

\* The record is still not there: add() answers with a synthetic id.
FetchTimesOut(w) ==
    /\ ~Stored(lookup[w])
    /\ FetchEnds(w, IF op[w] = "add" THEN "returned" ELSE "raised")
    /\ Tell(w)

FetchFails(w) == FetchEnds(w, "raised") /\ UNCHANGED told

-----------------------------------------------------------------------------
(* update() *)

Update(w, i) ==
    /\ Begin(w, "update", i)
    /\ IF Unresolved(i) THEN StartGet(w, i) ELSE GoOn(w, "update", CachedOr(i))
    /\ UNCHANGED <<service, cache, waiting, entry, out>>

\* The new text, if there is one.
UpdateText(w) ==
    /\ pc[w] = "update"
    /\ \/ /\ Stored(lookup[w])
          /\ \E words \in SUBSET Words : StoreAs(lookup[w][2], words)
       \/ UNCHANGED <<fate, says, written>>
    /\ GoOn(w, "update_rest", lookup[w])
    /\ UNCHANGED <<user, text, askers, cache, op, arg, waiting, entry, out, counters>>

\* The metadata and the final read.
UpdateRest(w) ==
    /\ pc[w] = "update_rest"
    /\ Stored(lookup[w])
    /\ Finish(w, "returned")
    /\ UNCHANGED <<service, cache, counters>>

\* One of the requests fails; text and metadata need not agree afterwards.
UpdateFails(w) ==
    /\ pc[w] \in {"update", "update_rest"}
    /\ Finish(w, "raised")
    /\ UNCHANGED <<service, cache, counters>>

-----------------------------------------------------------------------------
(* delete() *)

\* The candidates: what the cache says, and the id itself.
OnlyTheId(i) == i
FirstCandidate(i) == CachedOr(i)

Delete(w, i) ==
    /\ Begin(w, "delete", i)
    /\ entry' = [entry EXCEPT ![w] = Cached(i)]
    /\ GoOn(w, IF FirstCandidate(i) # i THEN "delete_resolved" ELSE "delete_id", FirstCandidate(i))
    /\ UNCHANGED <<service, cache, waiting, out>>

DeleteRequest(w) ==
    /\ pc[w] \in {"delete_resolved", "delete_id"}
    /\ Stored(lookup[w])
    /\ fate' = [fate EXCEPT ![lookup[w][2]] = "deleted"]
    /\ Finish(w, "returned") \/ Finish(w, "raised")
    /\ UNCHANGED <<user, text, askers, says, written, cache, counters>>

\* 404: the next candidate; when there is none, the call is a success.
DeleteNotFound(w) ==
    /\ pc[w] \in {"delete_resolved", "delete_id"}
    /\ ~Stored(lookup[w])
    /\ \/ /\ pc[w] = "delete_resolved"
          /\ GoOn(w, "delete_id", arg[w])
          /\ UNCHANGED <<op, arg, waiting, entry, out>>
       \/ pc[w] = "delete_id" /\ Finish(w, "returned")
    /\ UNCHANGED <<service, cache, counters>>

DeleteFails(w) ==
    /\ pc[w] \in {"delete_resolved", "delete_id"}
    /\ Finish(w, "raised")
    /\ UNCHANGED <<service, cache, counters>>

-----------------------------------------------------------------------------
(* wait_for_ingest() *)

\* Any ids, and any user_id: nothing compares it with _user_by_event.  Ids the
\* adapter did not hand out, and those it has resolved, need no waiting.
Wait(w, u) ==
    /\ Begin(w, "wait", NoId)
    /\ \E some \in SUBSET told :
         /\ some # {}
         /\ asked' = [asked EXCEPT ![w] = some]
         /\ ids' = [ids EXCEPT ![w] = {e \in some : Unresolved(EventId(e))}]
    /\ whose' = [whose EXCEPT ![w] = u]
    /\ askers' = [e \in Events |-> IF e \in ids'[w] THEN askers[e] \cup {u} ELSE askers[e]]
    /\ Goto(w, IF ids'[w] = {} THEN "wait_all" ELSE "wait")
    /\ UNCHANGED <<user, text, fate, says, written, cache, lookup, found, entry, out>>

\* The ids of the call that are still unresolved.
Open(w) == {e \in ids[w] : resolved[e] = NoId}

\* The page is that of the user_id of the call.  The last-resort match of get()
\* is missing here: a text without long words matches only a memory that
\* contains all of it.
PageChoices(w) ==
    {f \in [Open(w) -> Events \cup {"none"}] :
        \A e \in Open(w) :
            \/ f[e] \in Candidates(e, whose[w])
            \/ f[e] = "none" /\ (Candidates(e, whose[w]) = {} \/ text[e] = {})}

AnyMatched(w, f) == \E e \in ids[w] : e \notin Open(w) \/ f[e] # "none"
AllMatched(w, f) == \A e \in Open(w) : f[e] # "none"

\* `if matched`
FoundOrNone(w, f) == {<<e, f[e]>> : e \in Open(w)}
Found(w, f) == {p \in Open(w) \X Events : f[p[1]] = p[2]}

\* A page is read and every id of the call that is still open looked for.
ReadPage(w) ==
    /\ pc[w] = "wait"
    /\ \E f \in PageChoices(w) :
         /\ found' = [found EXCEPT ![w] = Found(w, f)]
         /\ Goto(w, IF AllMatched(w, f) THEN "wait_all" ELSE "wait_some")
    /\ UNCHANGED <<service, cache, op, arg, lookup, asked, whose, ids, entry, out, counters>>

\* `self._resolved_event[ev] = matched`, one after the other.
StoreFound(w) ==
    /\ pc[w] \in {"wait_some", "wait_all"}
    /\ \E p \in found[w] :
         /\ resolved' = [resolved EXCEPT ![p[1]] = RecordId(p[2])]
         /\ found' = [found EXCEPT ![w] = @ \ {p}]
    /\ UNCHANGED <<service, known, pc, op, arg, lookup, asked, whose, ids, entry, out, counters>>

PollEnds(w) ==
    /\ pc[w] \in {"wait_some", "wait_all"} /\ found[w] = {}
    /\ \/ pc[w] = "wait_all" /\ Finish(w, "returned")
       \/ pc[w] = "wait_some" /\ Finish(w, "raised")
       \/ /\ pc[w] = "wait_some"
          /\ Goto(w, "wait")
          /\ UNCHANGED <<op, arg, lookup, waiting, entry, out>>
    /\ UNCHANGED <<service, cache, counters>>

\* The last get_all fails.
WaitFails(w) ==
    /\ pc[w] = "wait"
    /\ Finish(w, "raised")
    /\ UNCHANGED <<service, cache, counters>>

-----------------------------------------------------------------------------

\* The process dies with its threads and the dictionaries.
Restart ==
    /\ calls < MaxCalls /\ calls' = calls + 1
    /\ known' = {}
    /\ resolved' = [e \in Events |-> NoId]
    /\ pc' = [w \in Workers |-> "idle"]
    /\ op' = [w \in Workers |-> "none"]
    /\ arg' = [w \in Workers |-> NoId]
    /\ lookup' = [w \in Workers |-> NoId]
    /\ whose' = [w \in Workers |-> "none"]
    /\ asked' = [w \in Workers |-> {}] /\ ids' = [w \in Workers |-> {}]
    /\ found' = [w \in Workers |-> {}]
    /\ entry' = [w \in Workers |-> NoId]
    /\ out' = [w \in Workers |-> "raised"]
    /\ UNCHANGED <<service, told>>

\* An id the program can have: of an event, or of a record list() showed.
Usable == {EventId(e) : e \in told}
          \cup {RecordId(r) : r \in {x \in Events : fate[x] \in {"stored", "deleted"}}}

Call(w) ==
    \/ \E e \in Events : Add(w, e)
    \/ \E i \in Usable : Get(w, i) \/ Update(w, i) \/ Delete(w, i)
    \/ \E u \in Users : Wait(w, u)

Step(w) ==
    \/ Resolve(w) \/ Store(w) \/ Fetch(w) \/ FetchTimesOut(w) \/ FetchFails(w)
    \/ UpdateText(w) \/ UpdateRest(w) \/ UpdateFails(w)
    \/ DeleteRequest(w) \/ DeleteNotFound(w) \/ DeleteFails(w)
    \/ ReadPage(w) \/ StoreFound(w) \/ PollEnds(w) \/ WaitFails(w)

Next ==
    \/ \E w \in Workers : Call(w) \/ Step(w)
    \/ \E e \in Events : Ingest(e)
    \/ Restart

Spec == Init /\ [][Next]_vars

-----------------------------------------------------------------------------
(* Properties *)

\* The record that a call on the id of an event is about to read, change or
\* delete belongs to the event's user, or to a user for whom the program has
\* itself waited for that event (wait_for_ingest() takes its user_id without a
\* question); and it is the event's own or had a word in common with its text
\* (any, when the text has no long word): also after the record was rewritten,
\* and whatever other threads wrote to the cache.
TouchesOwnMemories ==
    \A w \in Workers :
        arg[w][1] = "event" /\ lookup[w][1] = "record" =>
            LET e == arg[w][2]
                r == lookup[w][2]
            IN  /\ user[r] \in {user[e]} \cup askers[e]
                /\ e = r \/ text[e] = {} \/ text[e] \cap written[r] # {}

Returns(w) == pc[w] # "idle" /\ pc'[w] = "idle" /\ out'[w] = "returned"

\* When wait_for_ingest() returns, every id it was asked for that the adapter
\* handed out is in the cache, although each poll resolves only some of them
\* and other threads resolve some as well.
WaitResolvesAll ==
    [][\A w \in Workers :
         op[w] = "wait" /\ Returns(w) =>
             \A e \in asked[w] \cap known : resolved[e] # NoId]_vars

\* A delete() that reports success has deleted the record the cache held for
\* the id when the call began, or found it deleted already; it does not come
\* back.
DeleteIsReal ==
    [][\A w \in Workers :
         op[w] = "delete" /\ Returns(w) /\ entry[w][1] = "record" =>
             fate'[entry[w][2]] # "stored"]_vars

\* The comment in wait_for_ingest(), "ids we already resolved during this
\* process are read-after-write safe": when it has seen enough to return, get()
\* looks for a memory under each of the ids whose text the service has stored.
WaitMeansReadable ==
    [][\A w \in Workers :
         pc[w] # "wait_all" /\ pc'[w] = "wait_all" =>
             \A e \in asked'[w] \cap known :
                 fate[e] = "stored" =>
                     \/ resolved[e][1] = "record"
                     \/ \E p \in found'[w] : p[1] = e]_vars

=============================================================================
