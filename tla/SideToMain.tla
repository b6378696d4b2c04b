------------------------------ MODULE SideToMain ------------------------------
(***************************************************************************)
(* A withdraw all the way: SideScan finds it on the side chain and enters  *)
(* it into SideChainTxs, WithdrawFlow takes it from there to the main      *)
(* chain.  The two share the table, they run in one process and die        *)
(* together, and the calls that fail are counted together.                 *)
(*                                                                         *)
(* The side chain here holds withdraws only: what else the scan finds goes *)
(* into other tables.                                                      *)
(***************************************************************************)
EXTENDS WithdrawFlow

CONSTANTS Depth, Interval, SyncStartHeight, MaxHeight, MaxReorgs

ASSUME PathAssumption ==
  /\ Depth \in Nat \ {0} /\ Interval \in Nat \ {0}
  /\ SyncStartHeight \in Nat /\ MaxHeight \in Nat /\ MaxReorgs \in Nat

VARIABLES tip, at, ready, pc, cur, goal, count, stored, missed, reorgs

side     == <<tip, at, reorgs>>
scan     == <<ready, pc, cur, goal, count, stored, missed>>
pathVars == <<flowVars, side, scan>>

\* The scan; its history of what it found is that of the rows.
Scan == INSTANCE SideScan WITH
  FailedDeposit <- {}, NFT <- {}, Evidence <- {},
  SupportInvalidDeposit <- FALSE, SupportNFT <- FALSE, MaxTaken <- 0,
  returns <- <<>>, nftRows <- {}, told <- {}, found <- entered, late <- {}, taken <- 0

PathInit == FlowInit /\ Scan!ScanInit

\* What the scan leaves alone.
flowOnly == <<finished, era, routines, pool, onMain, refunded, failedSend, torn>>

\* A step of the scan or of the side chain: it may enter rows.
ScanStep ==
  /\ \/ Scan!Grow \/ Scan!Reorganise \/ Scan!BecomeReady \/ Scan!Sync \/ Scan!CallFails
  /\ UNCHANGED flowOnly

\* The other arbiters scan the same side chain.
Final(w) == at[w] > 0 /\ at[w] + Depth <= tip

\* The steps of WithdrawFlow that neither enter rows nor end the process.
FlowRuns ==
  /\ \/ OnDuty \/ SenderStep \/ CheckRows \/ CheckGoesOn \/ MonitorStep
     \/ \E p \in proposals : Submit(p) \/ SubmitRefused(p)
     \/ AskMainChainFails \/ ProposalFails \/ CheckAskFails \/ MonitorAskFails
     \/ \E w \in Withdraw : Final(w) /\ (OtherArbiterSends(w) \/ SideChainRefunds(w))
     \/ \E t \in pool : MainChainMines(t) \/ MainChainDrops(t)
     \/ NewEra
  /\ UNCHANGED <<side, scan>>

\* The process dies, killed or in the handler of the answers.
ProcessDies ==
  \/ Crash /\ Scan!Killed
  \/ \E p \in proposals : (SubmitPanics(p) \/ SubmitCallFails(p)) /\ Scan!Killed

PathNext == ScanStep \/ FlowRuns \/ ProcessDies

PathFairness ==
  /\ WF_pathVars(Scan!Grow /\ UNCHANGED flowOnly)
  /\ WF_pathVars(Scan!BecomeReady /\ UNCHANGED flowOnly)
  /\ WF_pathVars(Scan!Sync /\ UNCHANGED flowOnly)
  /\ WF_pathVars(OnDuty /\ UNCHANGED <<side, scan>>)
  /\ WF_pathVars(SenderStep /\ UNCHANGED <<side, scan>>)
  /\ WF_pathVars(CheckGoesOn /\ UNCHANGED <<side, scan>>)
  /\ WF_pathVars(NewEra /\ UNCHANGED <<side, scan>>)
  /\ WF_pathVars((\E t \in pool : MainChainMines(t)) /\ UNCHANGED <<side, scan>>)
  /\ SF_pathVars((\E p \in proposals : Submit(p)) /\ UNCHANGED <<side, scan>>)

PathSpec     == PathInit /\ [][PathNext]_pathVars
PathFairSpec == PathSpec /\ PathFairness

-----------------------------------------------------------------------------
\* What the main chain pays, or is asked to pay, stands on the side chain
\* for good: no reorganisation of fewer than Depth blocks takes it back.
\* This is the delay of the scan seen from the other end of the path.
PaidIsFinal ==
  \A w \in onMain \cup Pooled \cup UNION {p.carried : p \in proposals} : Final(w)

\* No withdraw is lost between the two: one whose block the scan is done with,
\* so that no restart asks for it again, keeps its row until it is settled,
\* unless its insert failed.  Rows are entered and removed by goroutines that
\* know nothing of each other, and the height is stored apart from the rows.
NoneLost ==
  \A w \in Withdraw :
    Scan!DoneWith(w, stored, Depth) => w \in Rows(row) \cup Settled \cup missed

\* A payable withdraw that is deep enough on the side chain is paid on the
\* main chain in the end, unless its insert failed.  Calls that fail,
\* refusals, crashes, the panics of the first era and rescans delay it only.
FinalIsPaid ==
  \A w \in Payable :
    Scan!DoneWith(w, tip, Depth) ~> w \in onMain \cup missed
===============================================================================
