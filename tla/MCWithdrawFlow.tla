---------------------------- MODULE MCWithdrawFlow ----------------------------
(* WithdrawFlow with two withdraws, for TLC. *)
EXTENDS WithdrawFlow, TLC

CONSTANTS w1, w2
===============================================================================
