------------------------------ MODULE EvalRun ------------------------------
(***************************************************************************)
(* openmem-eval (eval/cli.py, eval/runner.py, eval/cleanup.py): one process *)
(* that asks for consent, runs facts and queries through one provider after *)
(* the other, writes a report and deletes what it has written, page by     *)
(* page.  A provider pages by key (postgres) or by page number (mem0,      *)
(* supermemory: adapters/_cursor.py); the latter ingest in the background. *)
(*                                                                         *)
(* The user id is new, so the records of a provider are those of the run.  *)
(* Letta's cursor is the id of a passage, deleted by then: what the service *)
(* makes of it is unknown, and it is left out, with scores and latencies.  *)
(***************************************************************************)
EXTENDS Integers, FiniteSets, FiniteSetsExt

CONSTANTS NumProviders, \* --providers, in their order
          Paging,       \* of each provider: "key" or "number"
          NumFacts,     \* facts of the dataset, which number the records
          NumQueries,
          PageSize,     \* the limit cleanup() gives to list()
          Options       \* the combinations of flags, terminal and answer

Providers == 1..NumProviders
Facts     == 1..NumFacts

ASSUME EvalRunAssumption ==
    /\ NumProviders \in Nat \ {0} /\ NumFacts \in Nat /\ NumQueries \in Nat
    /\ PageSize \in Nat \ {0}
    /\ Paging \in [Providers -> {"key", "number"}]
    /\ Options \subseteq [live : BOOLEAN, dry : BOOLEAN, ci : BOOLEAN, dataset : BOOLEAN,
                          costly : BOOLEAN, yes : BOOLEAN, tty : BOOLEAN, agrees : BOOLEAN,
                          cleanup : BOOLEAN]

VARIABLES
    opt,      \* the options of this run
    pc,       \* where the process is: "exited" when main() has returned, "raised"
              \* when an exception has ended it
    code,     \* the exit status, -1 while it runs
    p,        \* the provider it is at
    n,        \* facts or queries done with that provider
    store,    \* the records of each provider that can be listed and found
    late,     \* those accepted and not ingested yet
    result,   \* the result of each provider
    cursor,   \* cleanup(): the record or the number of the page to list from
    batch,    \* what is left of the page
    touched,  \* history: providers that have been called
    spoilt,   \* history: providers whose cleanup a failure or a late record
              \* has disturbed
    kept      \* history: records of each provider whose deletion was refused

vars == <<opt, pc, code, p, n, store, late, result, cursor, batch, touched, spoilt, kept>>
data == <<store, late>>
tidy == <<cursor, batch, spoilt, kept>>

NoCursor == 0    \* next_cursor is None: the page was the last
First    == IF Paging[p] = "key" THEN NumFacts + 1 ELSE 1

Result   == [status : {"none", "skipped", "ok", "partial", "failed"}, queries : 0..NumQueries,
             errors : BOOLEAN, found : BOOLEAN]
NoResult == [status |-> "none", queries |-> 0, errors |-> FALSE, found |-> FALSE]

TypeOK ==
    /\ opt \in Options
    /\ pc \in {"arguments", "dataset", "consent", "preview", "init", "add", "search",
               "report", "clean", "list", "delete", "verdict", "exited", "raised"}
    /\ code \in -1..4
    /\ p \in Providers
    /\ n \in 0..Max({NumFacts, NumQueries})
    /\ store \in [Providers -> SUBSET Facts] /\ late \in [Providers -> SUBSET Facts]
    /\ result \in [Providers -> Result]
    /\ cursor \in 0..(NumFacts + 1) /\ batch \subseteq Facts
    /\ touched \subseteq Providers /\ spoilt \subseteq Providers
    /\ kept \in [Providers -> SUBSET Facts]

Init ==
    /\ opt \in Options
    /\ pc = "arguments" /\ code = -1
    /\ p = 1 /\ n = 0
    /\ store = [q \in Providers |-> {}] /\ late = [q \in Providers |-> {}]
    /\ result = [q \in Providers |-> NoResult]
    /\ cursor = NoCursor /\ batch = {}
    /\ touched = {} /\ spoilt = {} /\ kept = [q \in Providers |-> {}]

-----------------------------------------------------------------------------
(* main(), before the run *)

Exit(c) == pc' = "exited" /\ code' = c

\* Nothing catches the exception: a traceback, and the interpreter's status.
Raise == pc' = "raised" /\ code' = 1

Goto(where) == pc' = where /\ UNCHANGED code

Arguments ==
    /\ pc = "arguments"
    /\ IF opt.live /\ opt.dry THEN Exit(2) ELSE Goto("dataset")
    /\ UNCHANGED <<opt, p, n, data, result, tidy, touched>>

\* A dataset that is missing or malformed; one that cannot be read, or a sample
\* of none, raises.
LoadDataset ==
    /\ pc = "dataset"
    /\ \/ ~ opt.dataset /\ (Exit(4) \/ Raise)
       \/ opt.dataset /\ Goto(IF opt.live THEN "consent" ELSE "preview")
    /\ UNCHANGED <<opt, p, n, data, result, tidy, touched>>

ConsentToAll == TRUE    \* defect

\* confirm_or_exit()
Confirmed == ~ opt.costly \/ opt.yes \/ (opt.tty /\ opt.agrees)

Consent ==
    /\ pc = "consent"
    /\ CASE opt.ci -> Exit(4)
         [] ~ opt.ci /\ ~ Confirmed -> Exit(3)
         [] ~ opt.ci /\ Confirmed -> Goto("init")
    /\ UNCHANGED <<opt, p, n, data, result, tidy, touched>>

\* A dry run: every provider is skipped.
Preview ==
    /\ pc = "preview"
    /\ result' = [q \in Providers |-> [NoResult EXCEPT !.status = "skipped"]]
    /\ Goto("report")
    /\ UNCHANGED <<opt, p, n, data, tidy, touched>>

-----------------------------------------------------------------------------
(* _run_provider() *)

NextProvider(where, after) ==
    IF p < NumProviders THEN p' = p + 1 /\ Goto(where) ELSE p' = 1 /\ Goto(after)

\* The provider takes a fact: visible at once, or later.
Takes(f) ==
    IF Paging[p] = "key"
    THEN store' = [store EXCEPT ![p] = @ \cup {f}] /\ UNCHANGED late
    ELSE late' = [late EXCEPT ![p] = @ \cup {f}] /\ UNCHANGED store

Erred == result' = [result EXCEPT ![p].errors = TRUE]

InitProvider ==
    /\ pc = "init"
    /\ n' = 0
    /\ \/ Goto("add") /\ UNCHANGED <<p, result>>
       \/ /\ result' = [result EXCEPT ![p].status = "failed", ![p].errors = TRUE]
          /\ NextProvider("init", "report")
    /\ UNCHANGED <<opt, data, tidy, touched>>

\* mem.add() succeeds, fails, or fails after the provider has taken the fact.
AddFact ==
    /\ pc = "add" /\ n < NumFacts
    /\ \/ Takes(n + 1) /\ (UNCHANGED result \/ Erred)
       \/ Erred /\ UNCHANGED data
    /\ n' = n + 1 /\ touched' = touched \cup {p}
    /\ UNCHANGED <<opt, pc, code, p, tidy>>

\* wait_for_ingest(): whatever it says is ignored.
WaitForIngest ==
    /\ pc = "add" /\ n = NumFacts
    /\ n' = 0
    /\ Goto("search")
    /\ UNCHANGED <<opt, p, data, result, tidy, touched>>

AnsweredWhenFine(hits, err) ==    \* defect: a failed query leaves no result
    result' = [result EXCEPT ![p].queries = IF err THEN @ ELSE @ + 1,
                             ![p].found = @ \/ hits, ![p].errors = @ \/ err]

AnsweredTwice(hits, err) ==    \* defect: appended by the handler and after it
    result' = [result EXCEPT ![p].queries = IF err THEN @ + 2 ELSE @ + 1,
                             ![p].found = @ \/ hits, ![p].errors = @ \/ err]

Answered(hits, err) ==
    result' = [result EXCEPT ![p].queries = @ + 1, ![p].found = @ \/ hits,
                             ![p].errors = @ \/ err]

Search ==
    /\ pc = "search" /\ n < NumQueries
    /\ \E hits, err \in BOOLEAN :
         /\ hits => store[p] # {} /\ ~ err
         /\ Answered(hits, err)
    /\ n' = n + 1 /\ touched' = touched \cup {p}
    /\ UNCHANGED <<opt, pc, code, p, data, tidy>>

\* The status roll-up.
Status(r) == CASE r.errors /\ r.found -> "partial"
               [] r.errors /\ ~ r.found -> "failed"
               [] OTHER -> "ok"

EndProvider ==
    /\ pc = "search" /\ n = NumQueries
    /\ result' = [result EXCEPT ![p].status = Status(result[p])]
    /\ n' = 0
    /\ NextProvider("init", "report")
    /\ UNCHANGED <<opt, data, tidy, touched>>

\* run() raises: the trace file cannot be written.
RunRaises ==
    /\ pc \in {"init", "add", "search"}
    /\ Exit(4)
    /\ UNCHANGED <<opt, p, n, data, result, tidy, touched>>

\* The provider ingests a record it has accepted.
Ingest(q) ==
    /\ \E f \in late[q] : /\ late' = [late EXCEPT ![q] = @ \ {f}]
                          /\ store' = [store EXCEPT ![q] = @ \cup {f}]
    /\ UNCHANGED <<opt, pc, code, p, n, result, tidy, touched>>

-----------------------------------------------------------------------------
(* The report, and cleanup() *)

\* write_report() writes the report, or cannot, which nothing catches.
Report ==
    /\ pc = "report"
    /\ \/ Goto(IF opt.cleanup /\ opt.live THEN "clean" ELSE "verdict")
       \/ Raise
    /\ UNCHANGED <<opt, p, n, data, result, tidy, touched>>

\* A new adapter for the provider; when that fails, the next provider's turn.
BeginCleanup ==
    /\ pc = "clean"
    /\ \/ /\ cursor' = First
          /\ spoilt' = IF late[p] # {} THEN spoilt \cup {p} ELSE spoilt
          /\ Goto("list") /\ UNCHANGED p
       \/ /\ spoilt' = spoilt \cup {p}
          /\ NextProvider("clean", "verdict") /\ UNCHANGED cursor
    /\ UNCHANGED <<opt, n, data, result, batch, kept, touched>>

Above(q, k) == {j \in store[q] : j > k}

\* Newest first: the first PageSize records below the cursor, or those of the
\* page with that number.
Page == IF Paging[p] = "key"
        THEN {k \in store[p] : /\ k < cursor
                               /\ Cardinality({j \in Above(p, k) : j < cursor}) < PageSize}
        ELSE {k \in store[p] : Cardinality(Above(p, k)) \div PageSize + 1 = cursor}

HasNextNever == FALSE    \* defect: off by one, a full page is never followed

HasNext == IF Paging[p] = "key" THEN Cardinality(Page) = PageSize
                                ELSE cursor * PageSize < Cardinality(store[p])

CursorStuck == cursor    \* defect: the same page is listed until it is empty

NextCursor == IF Paging[p] = "key" THEN Min(Page) ELSE cursor + 1

\* A page, or a failure that ends the cleanup of this provider.
ListPage ==
    /\ pc = "list"
    /\ touched' = touched \cup {p}
    /\ \/ /\ batch' = Page
          /\ cursor' = IF HasNext THEN NextCursor ELSE NoCursor
          /\ Goto("delete")
          /\ UNCHANGED <<p, spoilt>>
       \/ /\ spoilt' = spoilt \cup {p}
          /\ NextProvider("clean", "verdict")
          /\ UNCHANGED <<cursor, batch>>
    /\ UNCHANGED <<opt, n, data, result, kept>>

\* A record of the page is deleted, whatever delete() says, or it is not.
DeleteItem ==
    /\ pc = "delete" /\ batch # {}
    /\ batch' = batch \ {Max(batch)}
    /\ \/ store' = [store EXCEPT ![p] = @ \ {Max(batch)}] /\ UNCHANGED kept
       \/ kept' = [kept EXCEPT ![p] = @ \cup {Max(batch)}] /\ UNCHANGED store
    /\ UNCHANGED <<opt, pc, code, p, n, late, result, cursor, touched, spoilt>>

EndPage ==
    /\ pc = "delete" /\ batch = {}
    /\ IF cursor = NoCursor THEN NextProvider("clean", "verdict")
                            ELSE Goto("list") /\ UNCHANGED p
    /\ UNCHANGED <<opt, n, data, result, tidy, touched>>

\* No provider has answered or failed a query.
NothingUsable ==
    \A q \in Providers : result[q].queries = 0 /\ result[q].status # "skipped"

Verdict ==
    /\ pc = "verdict"
    /\ Exit(IF NothingUsable THEN 1 ELSE 0)
    /\ UNCHANGED <<opt, p, n, data, result, tidy, touched>>

-----------------------------------------------------------------------------

Step == \/ Arguments \/ LoadDataset \/ Consent \/ Preview
        \/ InitProvider \/ AddFact \/ WaitForIngest \/ Search \/ EndProvider \/ RunRaises
        \/ Report \/ BeginCleanup \/ ListPage \/ DeleteItem \/ EndPage \/ Verdict

Ended == pc \in {"exited", "raised"}

Ends == Ended /\ UNCHANGED vars

Next == Step \/ (\E q \in Providers : Ingest(q)) \/ Ends

Spec == Init /\ [][Next]_vars

\* Every call of a provider returns or raises; ingestion owes nothing.
FairSpec == Spec /\ WF_vars(Step)

-----------------------------------------------------------------------------
(* Properties *)

\* No provider is called in a dry run, in CI, or at a cost above the threshold
\* that nobody has agreed to (main(), confirm_or_exit()).
NoCallWithoutConsent ==
    touched # {} => /\ opt.live /\ ~ opt.dry /\ ~ opt.ci
                    /\ opt.costly => opt.yes \/ (opt.tty /\ opt.agrees)

\* The failures of one provider are its own: when the report is written each
\* provider has its result, with every query answered or failed unless its
\* adapter could not be made; "ok" hides no error, "failed" no hit; and main()
\* returns 1 only if no adapter could be made (run(), _run_provider()).  A
\* report that cannot be written ends the process with status 1 as well, and
\* says nothing of the providers.
EveryProviderReported ==
    /\ pc \in {"report", "clean", "list", "delete", "verdict"} /\ opt.live =>
         \A q \in Providers :
            /\ result[q].status \in {"ok", "partial", "failed"}
            /\ result[q].queries \in {0, NumQueries}
            /\ result[q].queries = 0 /\ NumQueries > 0 => result[q].status = "failed"
            /\ result[q].status = "ok" => ~ result[q].errors
            /\ result[q].status = "failed" => ~ result[q].found
    /\ pc = "exited" /\ code = 1 /\ NumQueries > 0 =>
         \A q \in Providers : store[q] \cup late[q] = {}

Cleaned(q) == pc = "exited" /\ code \in {0, 1} /\ opt.live /\ opt.cleanup /\ q \notin spoilt

\* The records of a provider that pages by key are gone but for those that
\* could not be deleted.
Tidied(q) == Paging[q] = "key" => store[q] \subseteq kept[q]

\* When main() has come to its verdict, cleanup() has left nothing at a provider
\* that pages by key but what could not be deleted: deleting behind the cursor
\* moves nothing ahead of it.  A run that could not write its trace or its
\* report does not get to a verdict, and cleans nothing up.
KeysetCleanupComplete == \A q \in Providers : Cleaned(q) => Tidied(q)

\* cleanup() "deletes every memory written by a given run_id" when every call
\* succeeds and every record has been ingested.  It does not at a provider that
\* pages by number: the records of the second page move to the first while
\* that is being deleted, and cleanup() goes on with what is the second by then.
CleanupComplete ==
    \A q \in Providers : Cleaned(q) /\ kept[q] = {} => store[q] = {}

\* The process ends, however many deletions are refused and whatever is still
\* ingested while it lists (the "while True" of cleanup()).
RunEnds == <>Ended

=============================================================================
