---------------------------- MODULE MCRegistration ----------------------------
(* Registration with two chains to register and one in the file, for TLC. *)
EXTENDS Registration, TLC

CONSTANTS x, y, z, k1, k2
=============================================================================
