----------------------------- MODULE MCM2MCalls -----------------------------
(* Instances of M2MCalls for TLC: two or three calls to one target. *)
EXTENDS M2MCalls

CONSTANTS c1, c2, c3
=============================================================================
