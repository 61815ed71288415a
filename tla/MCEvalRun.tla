----------------------------- MODULE MCEvalRun -----------------------------
(* EvalRun on small instances. *)
EXTENDS EvalRun

MCPaging == [q \in Providers |-> IF q = 1 THEN "key" ELSE "number"]

MCFlags == [live : BOOLEAN, dry : BOOLEAN, ci : BOOLEAN, dataset : BOOLEAN, costly : BOOLEAN,
            yes : BOOLEAN, tty : BOOLEAN, agrees : BOOLEAN, cleanup : BOOLEAN]

\* A plain run with --cleanup, and every combination of the flags without it.
MCPlain   == {o \in MCFlags : /\ o.live /\ o.dataset /\ o.cleanup
                              /\ ~ (o.dry \/ o.ci \/ o.costly \/ o.yes \/ o.tty \/ o.agrees)}
MCOptions == MCPlain \cup {o \in MCFlags : ~ o.cleanup}

=============================================================================
