------------------------------- MODULE Bucket -------------------------------
(* The size of a token bucket and the prices it is used with (_RATE, _BURST  *)
(* and the defaults of rate_limits).  Tokens are counted in what one tick    *)
(* refills.                                                                  *)
EXTENDS Integers

CONSTANTS
    Burst,      \* _BURST, and the default of rate_limits.tokens
    Cost,       \* price of one request
    MaxTime,    \* bound: ticks in one behaviour
    NoRow       \* the organisation has no row yet

ASSUME RateAssumption ==
    /\ Burst \in Nat
    /\ Cost \in Nat \ {0}
    /\ MaxTime \in Nat
    /\ NoRow \notin [tokens : Int, refillAt : Int]

\* The cap of step 3.
AtMostBurst(n) == IF n < Burst THEN n ELSE Burst
=============================================================================
