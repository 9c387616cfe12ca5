----------------------------- MODULE Admission -----------------------------
(* What the rate limit promises the clients of one organisation: verdicts on *)
(* their requests, as an exact bucket would give them, except that it may    *)
(* admit a request the bucket has no tokens for.  It never denies one that   *)
(* the bucket could pay.                                                     *)
EXTENDS Bucket

CONSTANT Requests

VARIABLES
    clock,      \* ticks so far
    level,      \* tokens in the exact bucket, below zero when it was overdrawn
    verdict     \* what each request was told

vars == <<clock, level, verdict>>

Init ==
    /\ clock = 0
    /\ level = Burst
    /\ verdict = [r \in Requests |-> "none"]

Admit(r) ==
    /\ verdict[r] = "none"
    /\ verdict' = [verdict EXCEPT ![r] = "admitted"]
    /\ level' = level - Cost
    /\ UNCHANGED clock

Deny(r) ==
    /\ verdict[r] = "none"
    /\ level < Cost
    /\ verdict' = [verdict EXCEPT ![r] = "denied"]
    /\ UNCHANGED <<clock, level>>

Tick ==
    /\ clock < MaxTime
    /\ clock' = clock + 1
    /\ level' = AtMostBurst(level + 1)
    /\ UNCHANGED verdict

Next == Tick \/ \E r \in Requests : Admit(r) \/ Deny(r)

Spec == Init /\ [][Next]_vars
=============================================================================
