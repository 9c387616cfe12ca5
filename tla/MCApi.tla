------------------------------- MODULE MCApi -------------------------------
(***************************************************************************)
(* Small instances, for TLC, of two parts of the API that share nothing:   *)
(* the cache of dashboard answers, and how members come and go.  One of    *)
(* them runs in each behaviour.                                            *)
(***************************************************************************)
EXTENDS DashboardCache, Team, TLC

CONSTANTS o1, o2, v1, v2, q1, q2, i1, i2, e1, r1, r2, r3

TwoOrgs       == {o1, o2}
TwoViews      == {v1, v2}
TwoRequests   == {q1, q2}
TwoInvites    == {i1, i2}
OneEmail      == {e1}
ThreeRequests == {r1, r2, r3}

VARIABLE part

\* Every address has an account of its own while the cache runs.
ApiInit ==
    /\ Init /\ TeamInit
    /\ part \in {"cache", "team"}
    /\ part = "cache" => account = [e \in Emails |-> Own]

ApiNext ==
    /\ UNCHANGED part
    /\ \/ part = "cache" /\ Next /\ UNCHANGED teamVars
       \/ part = "team" /\ TeamNext /\ UNCHANGED vars

ApiSpec == ApiInit /\ [][ApiNext]_<<part, vars, teamVars>>

\* Nothing distinguishes one org, view or request of the cache from another; the
\* one temporal property is about the other part.
Alike == Permutations(TwoOrgs) \cup Permutations(TwoViews) \cup Permutations(TwoRequests)
=============================================================================
