---------------------------- MODULE MCEventLog ----------------------------
(* Small instances of EventLog for TLC. *)
EXTENDS EventLog

CONSTANTS i1, i2, u1, a1, a2, p1

TwoIngests == {i1, i2}
OneUser    == {u1}
TwoAdmins  == {a1, a2}
NoAdmin    == {}
OnePage    == {p1}

TwoOfOneUser == [i \in {i1, i2} |-> u1]
=============================================================================
