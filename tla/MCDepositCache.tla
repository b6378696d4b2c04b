---------------------------- MODULE MCDepositCache ----------------------------
(***************************************************************************)
(* Instances of DepositCache for TLC.                                      *)
(***************************************************************************)
EXTENDS DepositCache, TLC

CONSTANTS d1, g1
=============================================================================
