---------------------------- MODULE MCRateLimit ----------------------------
(* A small instance of RateLimit for TLC. *)
EXTENDS RateLimit, TLC

CONSTANTS r1, r2, r3

ThreeRequests == {r1, r2, r3}
RequestSymmetry == Permutations(Requests)
=============================================================================
