----------------------------- MODULE MCSideToMain -----------------------------
(* SideToMain with one withdraw, for TLC. *)
EXTENDS SideToMain, TLC

CONSTANT w1
===============================================================================
