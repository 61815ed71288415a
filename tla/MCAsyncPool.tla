---------------------------- MODULE MCAsyncPool ----------------------------
(* AsyncPool on small instances: three calls, which between them can be an
   initialiser, a call queued behind it and a close(). *)
EXTENDS AsyncPool

CONSTANTS t1, t2, t3, l1, l2

MCTasks == {t1, t2, t3}
MCLoops == {l1, l2}

=============================================================================
