----------------------------- MODULE MCTaskFlow -----------------------------
(* One row, one other task, three rounds so that the convergence guard has *)
(* a history to read, one extra round for retry.                           *)
EXTENDS TaskFlow
=============================================================================
