---------------------------- MODULE MCAlertRules ----------------------------
(* Small instances of AlertRules for TLC. *)
EXTENDS AlertRules

CONSTANTS r1, r2, m1

TwoRules   == {r1, r2}
OneMetric  == {m1}
SameMetric == [r \in {r1, r2} |-> m1]

\* r1 warns of too few in an hour, r2 of no data in two.
BelowAndNoData == [r \in {r1, r2} |-> IF r = r1 THEN "below" ELSE "no_data"]
OneAndTwoHours == [r \in {r1, r2} |-> IF r = r1 THEN 1 ELSE 2]
AtOne == [r \in {r1, r2} |-> 1]
JustZero == {0}
=============================================================================
