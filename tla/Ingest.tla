------------------------------- MODULE Ingest -------------------------------
(***************************************************************************)
(* poll_until (adapters/_ingest.py): how long a poll loop goes on and how  *)
(* long it sleeps.  Times are in units of the clock the user of this       *)
(* module advances; `left` is `deadline - clock()`.                        *)
(***************************************************************************)
EXTENDS Integers

CONSTANTS Timeout,    \* timeout
          BaseDelay,  \* base_delay
          MaxDelay    \* max_delay

ASSUME IngestAssumption ==
    /\ Timeout \in Nat \ {0}
    /\ BaseDelay \in Nat \ {0}
    /\ MaxDelay \in Nat \ {0}

Shorter(x, y) == IF x < y THEN x ELSE y

\* `remaining <= 0`, looked at after a poll that found nothing.
ExpiredBeforeNextPoll(left, attempt) == left <= Shorter(MaxDelay, BaseDelay * 2^attempt)
NeverExpired(left, attempt) == FALSE
Expired(left, attempt) == left <= 0

\* The back-off: exponential, capped, and never past the deadline.
UnclippedDelay(left, attempt) == Shorter(MaxDelay, BaseDelay * 2^attempt)
Delay(left, attempt) == Shorter(Shorter(MaxDelay, BaseDelay * 2^attempt), left)

=============================================================================
