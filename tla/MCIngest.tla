------------------------------ MODULE MCIngest ------------------------------
(* A small instance of Ingest for TLC. *)
EXTENDS Ingest

CONSTANTS k1, k2, k3, k4, i1, i2, g1

FourConns  == {k1, k2, k3, k4}
TwoIngests == {i1, i2}
OnePlain   == {g1}
=============================================================================
