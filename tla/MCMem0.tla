------------------------------- MODULE MCMem0 -------------------------------
(* Mem0 on small instances. *)
EXTENDS Mem0, TLC

CONSTANTS w1, w2, e1, e2, u1, u2, a

MCWorkers == {w1, w2}
MCEvents  == {e1, e2}
MCUsers   == {u1, u2}
MCWords   == {a}

MCSymmetry == Permutations(MCWorkers) \cup Permutations(MCEvents) \cup Permutations(MCUsers)

=============================================================================
