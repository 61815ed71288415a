------------------------------- MODULE Server -------------------------------
(***************************************************************************)
(* One request through omp-server: the size guard (server/middleware.py),  *)
(* the routes (server/routes.py, server/deps.py), the adapter behind them  *)
(* and the answer (server/errors.py).  Requests are independent tasks; the *)
(* body comes in messages, and the sender may go away between two of them. *)
(*                                                                         *)
(* The adapter behind the server is known by its answers alone.  For the   *)
(* verbs that it carries out in one piece, a refusal says that nothing was *)
(* changed, as in the postgres adapters of PgStore; those it needs several *)
(* requests for, as update() of mem0.py does, it may refuse when the first *)
(* has had its effect.  CORS and the access log are left out.              *)
(***************************************************************************)
EXTENDS Naturals, Sequences

CONSTANTS Slots,       \* requests, one each
          MaxBytes,    \* --max-request-bytes
          Supported,   \* the verbs the provider of the server supports
          Partial      \* those of its writes that are several requests

Verbs      == {"add", "get", "update", "delete", "list", "search", "context", "audit"}
Writes     == {"add", "update", "delete"}
JSONVerbs  == {"add", "update", "context"}
QueryVerbs == {"list", "search", "audit"}

ASSUME ServerAssumption ==
    MaxBytes \in Nat /\ Supported \subseteq Verbs /\ Partial \subseteq Writes

VARIABLES
    req,       \* the request in each slot
    stage,     \* where the server is with it
    intake,    \* its body: on the wire, counted, kept by the size guard, cut off by an
               \* http.disconnect, read by the route
    gone,      \* the slots whose sender has closed the connection
    answer,    \* what is sent back
    reached,   \* history: the requests given to the adapter
    effects    \* history: how often the adapter has done what they ask

serverVars == <<req, stage, intake, gone, answer, reached, effects>>

\* The sizes of the messages of a body; there is at least one.
Body == Seq(Nat) \ {<<>>}

\* A request: its verb, whether its method and path name the route of the verb,
\* whether it has the header X-User-Id, what its arguments are like, its body
\* and whether the size of that is in Content-Length.
Request == [verb : Verbs \cup {"capabilities"}, routed : BOOLEAN, uid : BOOLEAN,
            args : {"valid", "incomplete", "malformed"}, body : Body, declared : BOOLEAN]

NoRequest    == [verb |-> "capabilities", routed |-> TRUE, uid |-> FALSE, args |-> "valid",
                 body |-> <<0>>, declared |-> TRUE]

\* A body that nobody has taken anything of yet.
Coming(body) == [wire |-> body, seen |-> 0, kept |-> <<>>, cut |-> FALSE, read |-> <<>>]
Nothing      == Coming(<<>>)

\* The codes of the error envelopes ("refused": not_found, unauthorized,
\* scope_denied and rate_limited; "other": ingestion_timeout and the codes that
\* the table of errors.py does not have), and answers without an envelope.
Refusals == {"refused", "invalid_request", "unsupported_capability"}
Troubles == {"provider_error", "other"}
Answers  == Refusals \cup Troubles \cup {"ok", "wrapped", "no route", "redirect", "none"}

\* The running totals of messages that have at most MaxBytes together; those of
\* a larger body do not exist.
Totals(messages) ==
    {total \in [0..Len(messages) -> 0..MaxBytes] :
        /\ total[0] = 0
        /\ \A k \in 1..Len(messages) : total[k] = total[k - 1] + messages[k]}

Fits(messages) == Totals(messages) # {}

ServerTypeOK ==
    /\ req \in [Slots -> Request]
    /\ stage \in [Slots -> {"none", "arrived", "guard", "route", "reading", "adapter",
                            "answered", "lost"}]
    /\ intake \in [Slots -> [wire : Seq(Nat), seen : Nat, kept : Seq(Nat), cut : BOOLEAN,
                             read : Seq(Nat)]]
    /\ gone \subseteq Slots /\ reached \subseteq Slots
    /\ answer \in [Slots -> Answers]
    /\ effects \in [Slots -> 0..1]

ServerInit ==
    /\ req = [x \in Slots |-> NoRequest]
    /\ stage = [x \in Slots |-> "none"] /\ intake = [x \in Slots |-> Nothing]
    /\ answer = [x \in Slots |-> "none"]
    /\ gone = {} /\ reached = {} /\ effects = [x \in Slots |-> 0]

\* Somebody sends a request.
Sent(x, r) ==
    /\ req' = [req EXCEPT ![x] = r]
    /\ stage' = [stage EXCEPT ![x] = "arrived"]
    /\ intake' = [intake EXCEPT ![x] = Coming(r.body)]
    /\ answer' = [answer EXCEPT ![x] = "none"]
    /\ UNCHANGED <<gone, reached, effects>>

-----------------------------------------------------------------------------
(* MaxRequestSizeMiddleware *)

Enter(x, where, i) ==
    /\ stage' = [stage EXCEPT ![x] = where] /\ intake' = [intake EXCEPT ![x] = i]
    /\ UNCHANGED answer

Reply(x, a) ==
    /\ stage' = [stage EXCEPT ![x] = "answered"] /\ intake' = [intake EXCEPT ![x] = Nothing]
    /\ answer' = [answer EXCEPT ![x] = a]

TooLarge(x) == Reply(x, "other")    \* payload_too_large

\* The declared length is trusted.
CheckLength(x) ==
    /\ stage[x] = "arrived"
    /\ IF req[x].declared /\ ~ Fits(req[x].body)
       THEN TooLarge(x) ELSE Enter(x, "guard", intake[x])
    /\ UNCHANGED <<req, gone, reached, effects>>

CountLast(x, size) == size    \* defect: the last message alone is measured

Count(x, size) == intake[x].seen + size

\* One receive() of the bounded read.
GuardReceives(x) ==
    /\ stage[x] = "guard" /\ intake[x].wire # <<>>
    /\ LET size == Head(intake[x].wire)
           rest == Tail(intake[x].wire)
       IN \/ Count(x, size) > MaxBytes /\ TooLarge(x)
          \/ /\ Count(x, size) <= MaxBytes
             /\ Enter(x, IF rest = <<>> THEN "route" ELSE "guard",
                      [intake[x] EXCEPT !.wire = rest, !.seen = Count(x, size),
                                        !.kept = Append(@, size)])
    /\ UNCHANGED <<req, gone, reached, effects>>

\* The sender is gone: what there is goes to the route.
GuardLosesSender(x) ==
    /\ stage[x] = "guard" /\ x \in gone
    /\ Enter(x, "route", [intake[x] EXCEPT !.wire = <<>>, !.cut = TRUE])
    /\ UNCHANGED <<req, gone, reached, effects>>

-----------------------------------------------------------------------------
(* Routes *)

\* Before the body is looked at: no such route, a missing header, parameters
\* that do not validate.
Routed(x) ==
    CASE ~ req[x].routed -> Reply(x, "no route")
      [] req[x].routed /\ req[x].verb = "capabilities" -> Enter(x, "adapter", Nothing)
      [] req[x].routed /\ req[x].verb \in {"get", "delete"} ->
            IF req[x].uid THEN Enter(x, "adapter", Nothing) ELSE Reply(x, "invalid_request")
      [] req[x].routed /\ req[x].verb \in QueryVerbs ->
            IF req[x].args = "valid" THEN Enter(x, "adapter", Nothing)
                                     ELSE Reply(x, "invalid_request")
      [] req[x].routed /\ req[x].verb \in JSONVerbs -> Enter(x, "reading", intake[x])

Route(x) ==
    /\ stage[x] = "route"
    /\ Routed(x)
    /\ UNCHANGED <<req, gone, reached, effects>>

Complete(x) == Len(intake[x].read) = Len(req[x].body)

\* replay(): the messages kept, to the last one or to the disconnection, which
\* is an exception that no handler knows.
ReadMessage(x) ==
    /\ stage[x] = "reading" /\ ~ Complete(x)
    /\ \/ /\ intake[x].kept # <<>>
          /\ Enter(x, "reading", [intake[x] EXCEPT !.kept = Tail(@),
                                                   !.read = Append(@, Head(intake[x].kept))])
       \/ intake[x].kept = <<>> /\ intake[x].cut /\ Reply(x, "other")
    /\ UNCHANGED <<req, gone, reached, effects>>

\* request.json() and the model: of a broken body, and of one that does not
\* validate, there is no handler for the exception either.
ParseBody(x) ==
    /\ stage[x] = "reading" /\ Complete(x)
    /\ CASE req[x].args = "valid" -> Enter(x, "adapter", intake[x])
         [] req[x].args = "incomplete" -> Reply(x, "invalid_request")
         [] req[x].args = "malformed" -> Reply(x, "other")
    /\ UNCHANGED <<req, gone, reached, effects>>

\* search and audit wrap their lists.
Success(verb) == IF verb \in {"search", "audit"} THEN "wrapped" ELSE "ok"

Served == Supported \cup {"capabilities"}

\* The refusals that may come after the effect: of a request that is not the
\* first one of the verb.
LateRefusals(v) == IF v \in Partial THEN Refusals ELSE {}

\* The adapter is called, and the handlers turn its errors into envelopes.
CallAdapter(x) ==
    /\ stage[x] = "adapter"
    /\ reached' = reached \cup {x}
    /\ LET v    == req[x].verb
           done == IF v \in Writes THEN effects[x] + 1 ELSE effects[x]
       IN \/ /\ v \in Served
             /\ effects' = [effects EXCEPT ![x] = done]
             /\ \E a \in {Success(v)} \cup Troubles \cup LateRefusals(v) : Reply(x, a)
          \/ /\ \E a \in Troubles \cup
                        (IF v \in Served THEN Refusals ELSE {"unsupported_capability"}) :
                  Reply(x, a)
             /\ UNCHANGED effects
    /\ UNCHANGED <<req, gone>>

ServerStep(x) ==
    \/ CheckLength(x) \/ GuardReceives(x) \/ GuardLosesSender(x)
    \/ Route(x) \/ ReadMessage(x) \/ ParseBody(x) \/ CallAdapter(x)

-----------------------------------------------------------------------------
(* Properties *)

\* The size guard keeps and passes on at most MaxBytes of a body, however it
\* is cut and whether its length is declared or not, and a body that comes to
\* the adapter is the one that was sent, each message once and in order
\* (MaxRequestSizeMiddleware.__call__, replay()).
BodyWholeAndBounded ==
    \A x \in Slots :
        LET i == intake[x]
        IN  /\ Fits(i.read \o i.kept)
            /\ stage[x] = "adapter" /\ req[x].verb \in JSONVerbs => i.read = req[x].body

=============================================================================
