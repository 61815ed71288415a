------------------------------ MODULE MCLetta ------------------------------
(* Letta on small instances. *)
EXTENDS Letta, TLC

CONSTANTS c1, c2, c3, u1, u2

MCCalls == {c1, c2, c3}
MCUsers == {u1, u2}

MCSymmetry == Permutations(MCCalls) \cup Permutations(MCUsers)

=============================================================================
