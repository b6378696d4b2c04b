----------------------------- MODULE MCSideScan -----------------------------
(* SideScan with small sets of events, for TLC. *)
EXTENDS SideScan, TLC

CONSTANTS w1, f1, n1, e1
=============================================================================
