------------------------------ MODULE MCRemote ------------------------------
(* Remote on small instances. *)
EXTENDS Remote, TLC

CONSTANTS c1, c2

MCSlots == {c1, c2}

MCSupported == Verbs \ {"audit"}
MCBodies    == {<<1, 1>>, <<2, 1>>}

\* Requests that the adapter does not send: of undeclared length, with broken
\* or incomplete arguments, with the header X-User-Id.
MCRequests ==
    {[verb |-> "add", routed |-> TRUE, uid |-> FALSE, args |-> args, body |-> body,
      declared |-> FALSE] :
        args \in {"valid", "incomplete", "malformed"}, body \in {<<1, 1>>, <<2, 1>>}}
    \cup
    {[NoRequest EXCEPT !.verb = "get", !.uid = uid] : uid \in BOOLEAN}
    \cup
    {[NoRequest EXCEPT !.verb = "search", !.args = args] : args \in {"valid", "incomplete"}}
    \cup
    {[NoRequest EXCEPT !.verb = "search", !.routed = FALSE]}

MCSymmetry == Permutations(MCSlots)

=============================================================================
