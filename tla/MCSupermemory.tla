--------------------------- MODULE MCSupermemory ---------------------------
(* Supermemory on small instances. *)
EXTENDS Supermemory, TLC

CONSTANTS c1, c2, d1, d2

MCCalls == {c1, c2}
MCDocs  == {d1, d2}

MCSymmetry == Permutations(MCCalls) \cup Permutations(MCDocs)

=============================================================================
