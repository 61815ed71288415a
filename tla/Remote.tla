------------------------------- MODULE Remote -------------------------------
(***************************************************************************)
(* PassthroughAdapter (adapters/passthrough.py) or AsyncPassthroughAdapter *)
(* behind AsyncMemory (adapters/async_passthrough.py), used by threads or  *)
(* tasks, in front of the Server module, over a network where a request or *)
(* its answer is lost or late and a proxy may redirect.  Other HTTP        *)
(* clients send the server whatever they like.                             *)
(***************************************************************************)
EXTENDS Server, FiniteSets

CONSTANTS CallVerbs,  \* the verbs called
          Bodies,     \* the bodies that are sent
          Requests,   \* the requests of others
          None

ASSUME RemoteAssumption ==
    /\ CallVerbs \subseteq Verbs
    /\ Bodies \subseteq Body /\ Requests \subseteq Request /\ None \notin Nat

VARIABLES
    kind,      \* "sync" or "async"
    closed,    \* close() has been called
    clients,   \* the state of each httpx client made
    client,    \* the adapter's client
    known,     \* its capabilities are known
    verb, at,  \* what each call does and where it is
    own,       \* the client it uses
    outcome,   \* how it has ended
    probing    \* history: a call was waiting for its probe at close()

adapterVars == <<kind, closed, clients, client, known, verb, at, own, outcome, probing>>
vars        == <<serverVars, adapterVars>>

ClientIds == 1..2

Outcomes == Refusals \cup {"none", "ok", "provider_error", "raw", "closed"}

TypeOK ==
    /\ ServerTypeOK
    /\ kind \in {"sync", "async"} /\ closed \in BOOLEAN /\ known \in BOOLEAN
    /\ clients \in [ClientIds -> {"unused", "open", "closed"}]
    /\ client \in ClientIds \cup {None}
    /\ verb \in [Slots -> Verbs] /\ own \in [Slots -> ClientIds \cup {None}]
    /\ at \in [Slots -> {"idle", "other", "probe", "request", "redirected", "ended"}]
    /\ outcome \in [Slots -> Outcomes]
    /\ probing \in BOOLEAN

\* The synchronous adapter makes its client at once; capabilities may be given.
Init ==
    /\ ServerInit
    /\ kind \in {"sync", "async"} /\ known \in BOOLEAN
    /\ closed = FALSE
    /\ clients = [i \in ClientIds |-> IF i = 1 /\ kind = "sync" THEN "open" ELSE "unused"]
    /\ client = IF kind = "sync" THEN 1 ELSE None
    /\ verb \in [Slots -> CallVerbs]
    /\ at = [c \in Slots |-> "idle"] /\ own = [c \in Slots |-> None]
    /\ outcome = [c \in Slots |-> "none"]
    /\ probing = FALSE

-----------------------------------------------------------------------------
(* The client, and what a call sends *)

Fresh == CHOOSE i \in ClientIds : clients[i] = "unused" /\ \A j \in ClientIds :
                                      clients[j] = "unused" => i <= j

\* _ensure_client(), in an asynchronous call c.
EnsureClient(c) ==
    IF client = None
    THEN /\ clients' = [clients EXCEPT ![Fresh] = "open"]
         /\ client' = Fresh /\ own' = [own EXCEPT ![c] = Fresh]
    ELSE own' = [own EXCEPT ![c] = client] /\ UNCHANGED <<clients, client>>

Probe == NoRequest

\* The HTTP request of a verb: search is a POST, which is not the route of the
\* server, and no request has the header X-User-Id.
RequestOf(v, body) ==
    [verb |-> v, routed |-> v # "search", uid |-> FALSE, args |-> "valid", body |-> body,
     declared |-> TRUE]

\* A redirect is followed with the method alone: no body, and the parameters
\* that the Location carries.
Bare(r) == {[r EXCEPT !.body = <<0>>, !.args = args] :
               args \in IF r.verb \in JSONVerbs THEN {"malformed"} ELSE {r.args, "incomplete"}}

Ends(c, how) == at' = [at EXCEPT ![c] = "ended"] /\ outcome' = [outcome EXCEPT ![c] = how]
Goto(c, where) == at' = [at EXCEPT ![c] = where] /\ UNCHANGED outcome

\* The client of a call from here on; a closed one refuses the request.
TakeClient(c) ==
    IF kind = "async" THEN EnsureClient(c)
                      ELSE own' = [own EXCEPT ![c] = 1] /\ UNCHANGED <<clients, client>>

Refused(c, how) == Ends(c, how) /\ UNCHANGED <<serverVars, clients, client, own>>

\* _check_verb() with known capabilities, and the request.
SendVerb(c) ==
    \/ /\ verb[c] \notin Supported
       /\ Refused(c, "unsupported_capability")
    \/ /\ verb[c] \in Supported /\ kind = "sync" /\ closed
       /\ Refused(c, "raw")
    \/ /\ verb[c] \in Supported /\ (kind = "async" \/ ~ closed)
       /\ \E b \in (IF verb[c] \in JSONVerbs THEN Bodies ELSE {<<0>>}) :
             Sent(c, RequestOf(verb[c], b))
       /\ TakeClient(c)
       /\ Goto(c, "request")

\* The first step of a verb.  The facade of the asynchronous adapter lets
\* nothing in after close().
Begin(c) ==
    /\ at[c] = "idle"
    /\ \/ kind = "async" /\ closed /\ Refused(c, "closed")
       \/ (kind = "sync" \/ ~ closed) /\ known /\ SendVerb(c)
       \/ /\ ~ closed /\ ~ known
          /\ Sent(c, Probe) /\ TakeClient(c) /\ Goto(c, "probe")
       \/ /\ kind = "sync" /\ closed /\ ~ known
          /\ Refused(c, "raw")
    /\ UNCHANGED <<kind, closed, known, verb, probing>>

\* capabilities() has its answer, and the verb goes on.
ProbeReturns(c) ==
    /\ at[c] = "probe" /\ stage[c] = "answered"
    /\ \/ answer[c] = "ok" /\ known' = TRUE /\ SendVerb(c)
       \/ /\ answer[c] # "ok"
          /\ Refused(c, "unsupported_capability")
          /\ UNCHANGED known
    /\ UNCHANGED <<kind, closed, verb, probing>>

\* _parse() and decode_omp_error(): the class of the error with this code.  A
\* code that is not in the table is a ProviderError, an answer without an
\* envelope goes by its status, and a wrapped list does not validate.
TrustingOutcome(a) ==    \* defect: an unknown code is taken for a refusal
    CASE a \in Refusals \cup {"ok", "provider_error"} -> a
      [] a = "wrapped" -> "raw"
      [] OTHER -> "invalid_request"

OutcomeByCode(a) == a    \* defect: no class for the codes that are not in the table

OutcomeOf(a) ==
    CASE a \in Refusals \cup {"ok"} -> a
      [] a \in Troubles -> "provider_error"
      [] a = "no route" -> "invalid_request"
      [] a = "wrapped" -> "raw"

Returns(c) ==
    /\ at[c] \in {"request", "redirected"} /\ stage[c] = "answered" /\ answer[c] # "redirect"
    /\ Ends(c, OutcomeOf(answer[c]))
    /\ UNCHANGED <<serverVars, kind, closed, clients, client, known, verb, own, probing>>

\* One redirect, on the same client.
Redirected(c) ==
    /\ at[c] = "request" /\ stage[c] = "answered" /\ answer[c] = "redirect"
    /\ \/ /\ clients[own[c]] = "open"
          /\ \E r \in Bare(req[c]) : Sent(c, r)
          /\ Goto(c, "redirected")
       \/ clients[own[c]] = "closed" /\ Ends(c, "raw") /\ UNCHANGED serverVars
    /\ UNCHANGED <<kind, closed, clients, client, known, verb, own, probing>>

RedirectLoop(c) ==
    /\ at[c] = "redirected" /\ stage[c] = "answered" /\ answer[c] = "redirect"
    /\ Ends(c, "provider_error")
    /\ UNCHANGED <<serverVars, kind, closed, clients, client, known, verb, own, probing>>

\* httpx raises before the answer is there, for a timeout, no connection, a
\* broken connection or a closed client; the server may go on, or may not have
\* seen the request.  Only the first two become errors of the protocol, and
\* none does in the redirect of the synchronous adapter.
Raised(c) ==
    IF at[c] = "redirected" /\ kind = "sync" THEN {"raw"}
    ELSE IF at[c] = "probe" THEN {"unsupported_capability", "raw"}
    ELSE {"provider_error", "raw"}

RequestRaises(c) ==
    /\ at[c] \in {"probe", "request", "redirected"}
    /\ \E how \in Raised(c) : Ends(c, how)
    /\ gone' = gone \cup {c}
    /\ \/ UNCHANGED <<stage, intake>>
       \/ /\ stage[c] = "arrived"
          /\ stage' = [stage EXCEPT ![c] = "lost"] /\ intake' = [intake EXCEPT ![c] = Nothing]
    /\ UNCHANGED <<req, answer, reached, effects>>
    /\ UNCHANGED <<kind, closed, clients, client, known, verb, own, probing>>

ForgottenClients == clients    \* defect: the client is dropped and not closed

ClosedClients == IF client = None THEN clients ELSE [clients EXCEPT ![client] = "closed"]

\* AsyncMemory.close(), or close() of the synchronous adapter, which keeps its
\* client.
Close ==
    /\ ~ closed /\ closed' = TRUE
    /\ clients' = ClosedClients
    /\ client' = IF kind = "async" THEN None ELSE client
    /\ probing' = \E c \in Slots : at[c] = "probe"
    /\ UNCHANGED <<serverVars, kind, known, verb, at, own, outcome>>

-----------------------------------------------------------------------------
(* The network *)

\* A proxy answers in the place of the server.
ProxyRedirects(c) ==
    /\ stage[c] = "arrived" /\ Reply(c, "redirect")
    /\ UNCHANGED <<req, gone, reached, effects, adapterVars>>

OtherSends(x) ==
    /\ at[x] = "idle" /\ Goto(x, "other")
    /\ \E r \in Requests : Sent(x, r)
    /\ UNCHANGED <<kind, closed, clients, client, known, verb, own, probing>>

OtherLeaves(x) ==
    /\ at[x] = "other" /\ stage[x] = "guard" /\ gone' = gone \cup {x}
    /\ UNCHANGED <<req, stage, intake, answer, reached, effects, adapterVars>>

-----------------------------------------------------------------------------

Next ==
    \/ Close
    \/ \E c \in Slots :
        \/ Begin(c) \/ ProbeReturns(c) \/ Returns(c) \/ Redirected(c) \/ RedirectLoop(c)
        \/ RequestRaises(c) \/ ProxyRedirects(c) \/ OtherSends(c) \/ OtherLeaves(c)
        \/ ServerStep(c) /\ UNCHANGED adapterVars

Spec == Init /\ [][Next]_vars

-----------------------------------------------------------------------------
(* Properties *)

\* What an outcome says is so: a call of a writing verb that returns has taken
\* effect once, and one that ends with an error of any other class than
\* ProviderError has none, then and later, redirects, lost and late answers and
\* requests cut off by close() included.  Only a ProviderError and what httpx
\* raises by itself leave it open (decode_omp_error(), from_response_dict(),
\* the exception handlers of the server).  Of a write that the adapter of the
\* server makes in several requests, a refusal leaves it open as well.
OutcomeTellsEffect ==
    \A c \in Slots :
        /\ outcome[c] = "ok" /\ verb[c] \in Writes => effects[c] = 1
        /\ outcome[c] = "closed" => effects[c] = 0
        /\ outcome[c] \in Refusals /\ verb[c] \notin Partial => effects[c] = 0

\* The adapter has one client at a time, and close() leaves none open unless a
\* call was waiting for its probe: that call makes another one, which nobody
\* closes (_ensure_client(), close()).
ClientReleased ==
    /\ Cardinality({i \in ClientIds : clients[i] = "open"}) <= 1
    /\ closed /\ ~ probing => \A i \in ClientIds : clients[i] # "open"

\* "Forward every OMP verb to a native OMP HTTP endpoint": a call with valid
\* arguments of a verb that the server advertises is not refused as invalid
\* before it has come to the adapter of the server, unless it was redirected.
\* It is: get() and delete() do not send the header X-User-Id that the routes
\* ask for, and search() sends a POST to a route that answers GET.
AdvertisedVerbForwarded ==
    \A c \in Slots : outcome[c] = "invalid_request" /\ answer[c] # "redirect"
                        /\ req[c].args = "valid" => c \in reached

=============================================================================
