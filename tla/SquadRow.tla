------------------------------ MODULE SquadRow ------------------------------
(* One task of Squad, any: its row is a row of TaskFlow, and it goes with  *)
(* what the worker does.                                                   *)
EXTENDS Squad

CONSTANT Me     \* the task

ASSUME MeAssumption == Me \in Tasks

(* A failure of a check counts for one finding, whatever Counts is.        *)
Row == INSTANCE TaskFlow WITH
  task <- row[Me], Others <- Tasks, Counts <- Counts \union {0, 1}, RetryCap <- 0

(* The row, whatever the processes do, follows the flow: every write that  *)
(* won its compare-and-set, made from however old a reading, is a step of  *)
(* TaskFlow from the row as it is (Mover.Apply, Store.Transition).  With   *)
(* Row!Init this is Row!Spec; here TLC looks at the steps of the row only. *)
RowFollowsFlow == [][row'[Me] # row[Me] => Row!Next]_vars

(* A check's verdict is about the work as it is when it is accepted: the   *)
(* worker has not worked since the check began.                            *)
AcceptedUnchanged ==
  [][row[Me].phase = "checking" /\ row'[Me].phase \in {"merging", "ready"} => ~changed[Me]]_vars

(* The work is checked again only after the worker took the findings: the  *)
(* Stop event or answer that ends a fix round is not one of the round      *)
(* before.                                                                 *)
RecheckAfterFix ==
  [][row[Me].phase = "fixing" /\ row'[Me].phase = "checking" => ~inbox[Me]]_vars
=============================================================================
