---------------------------- MODULE PoolPromise ----------------------------
(***************************************************************************)
(* What a lazily opened connection pool promises to the rest of a client,  *)
(* whatever locks, awaits and cancellations it is built from:              *)
(*   - a pool is opened only when no other pool is being opened or is open;*)
(*   - the tables are declared only through a pool that was opened;        *)
(*   - a statement runs only once the tables exist.                        *)
(* AsyncPool implements it (AsyncPool!PoolPromiseKept).                    *)
(***************************************************************************)

CONSTANTS Ids       \* a pool is named by the call that opened it

VARIABLES phase,    \* what has become of each pool
          tables,   \* whether the tables exist
          busy      \* the calls with a statement in progress

promiseVars == <<phase, tables, busy>>

Phases == {"none", "opening", "open", "retired"}

Live(p) == phase[p] \in {"opening", "open"}

PromiseInit ==
    /\ phase = [p \in Ids |-> "none"]
    /\ tables = FALSE
    /\ busy = {}

Open(p) ==
    /\ phase[p] = "none"
    /\ \A q \in Ids : ~Live(q)
    /\ phase' = [phase EXCEPT ![p] = "opening"]
    /\ UNCHANGED <<tables, busy>>

Opened(p) ==
    /\ phase[p] = "opening"
    /\ phase' = [phase EXCEPT ![p] = "open"]
    /\ UNCHANGED <<tables, busy>>

Retire(p) ==
    /\ Live(p)
    /\ phase' = [phase EXCEPT ![p] = "retired"]
    /\ UNCHANGED <<tables, busy>>

Migrate ==
    /\ \E p \in Ids : phase[p] \in {"open", "retired"}
    /\ tables' = TRUE
    /\ UNCHANGED <<phase, busy>>

Serve(t) ==
    /\ tables
    /\ busy' = busy \cup {t}
    /\ UNCHANGED <<phase, tables>>

Leave(t) ==
    /\ t \in busy
    /\ busy' = busy \ {t}
    /\ UNCHANGED <<phase, tables>>

PromiseNext ==
    \/ Migrate
    \/ \E i \in Ids : Open(i) \/ Opened(i) \/ Retire(i) \/ Serve(i) \/ Leave(i)

PromiseSpec == PromiseInit /\ [][PromiseNext]_promiseVars

=============================================================================
