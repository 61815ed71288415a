---------------------------- MODULE CallPromise ----------------------------
(***************************************************************************)
(* What the "best-effort" tier promises about one call, whatever queue and *)
(* worker threads it goes through (contracts/async-memory.md, section 3):  *)
(*   - the provider executes a call at most once;                          *)
(*   - a caller is given an answer only when the execution has ended;      *)
(*   - a caller that gives up stops waiting at once; the execution then    *)
(*     never begins, if it had not, and otherwise runs to its end.         *)
(* AsyncThreadwrap implements it (AsyncThreadwrap!CallPromiseKept).        *)
(***************************************************************************)

CONSTANTS Calls

VARIABLES run,      \* the provider's side of each call
          caller    \* the caller's side of each call

callVars == <<run, caller>>

PromiseInit ==
    /\ run = [c \in Calls |-> "none"]
    /\ caller = [c \in Calls |-> "none"]

Ask(c) ==
    /\ caller[c] = "none"
    /\ caller' = [caller EXCEPT ![c] = "waiting"]
    /\ run' = [run EXCEPT ![c] = "asked"]

Begin(c) ==
    /\ run[c] = "asked"
    /\ run' = [run EXCEPT ![c] = "running"]
    /\ UNCHANGED caller

End(c) ==
    /\ run[c] = "running"
    /\ run' = [run EXCEPT ![c] = "ended"]
    /\ UNCHANGED caller

Answer(c) ==
    /\ caller[c] = "waiting"
    /\ run[c] = "ended"
    /\ caller' = [caller EXCEPT ![c] = "answered"]
    /\ UNCHANGED run

\* Calls that are given up together: one, or all that a close() withdraws.
GiveUp(C) ==
    /\ \A c \in C : caller[c] = "waiting"
    /\ caller' = [c \in Calls |-> IF c \in C THEN "gone" ELSE caller[c]]
    /\ run' = [c \in Calls |->
                 IF c \in C /\ run[c] = "asked" THEN "withdrawn" ELSE run[c]]

\* A call refused without being asked for.
Refuse(c) ==
    /\ caller[c] = "none"
    /\ caller' = [caller EXCEPT ![c] = "refused"]
    /\ UNCHANGED run

PromiseNext ==
    \/ \E c \in Calls : Ask(c) \/ Begin(c) \/ End(c) \/ Answer(c) \/ Refuse(c)
    \/ \E C \in SUBSET Calls : GiveUp(C)

PromiseSpec == PromiseInit /\ [][PromiseNext]_callVars

=============================================================================
