------------------------- MODULE MCAsyncThreadwrap -------------------------
(* AsyncThreadwrap on small instances: more calls than workers. *)
EXTENDS AsyncThreadwrap

CONSTANTS t1, t2, t3, t4

MCTasks == {t1, t2, t3, t4}

=============================================================================
