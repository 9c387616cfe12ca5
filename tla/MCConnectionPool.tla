-------------------------- MODULE MCConnectionPool --------------------------
(* A small instance of ConnectionPool for TLC. *)
EXTENDS ConnectionPool

CONSTANTS k1, k2, i1, i2

TwoConns   == {k1, k2}
TwoIngests == {i1, i2}
NoPlain    == {}
=============================================================================
