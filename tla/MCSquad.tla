------------------------------- MODULE MCSquad -------------------------------
(* Small instances of Squad: the plays, what is launched in each and what  *)
(* may happen in it.  TLC explores the plays of a run side by side.        *)
EXTENDS SquadRow, TLC

Symmetric == Permutations(Procs)

Play(launches, some) ==
  [launches |-> launches, may |-> [k \in Kinds |-> IF k \in DOMAIN some THEN some[k] ELSE 0]]

---------------------------------------------------------------------------
(* What is launched.                                                       *)

Plain == [after |-> {}, check |-> "", merge |-> FALSE, hold |-> FALSE, inPlace |-> FALSE]
After1 == [Plain EXCEPT !.after = {1}]
Checked == [Plain EXCEPT !.check = "cmd"]
CheckedMerge == [Checked EXCEPT !.merge = TRUE]
ReviewedMerge == [CheckedMerge EXCEPT !.check = "reviewer"]
CheckedHeld == [Checked EXCEPT !.hold = TRUE]
InPlace == [Plain EXCEPT !.inPlace = TRUE]
CheckedInPlace == [Checked EXCEPT !.inPlace = TRUE]

---------------------------------------------------------------------------
(* The plays.                                                              *)

(* What happens around one task: errors, a worker that asks or breaks, a   *)
(* late hook, a user who talks to the session or removes it, a retry.      *)
World1 ==
  {Play({CheckedMerge}, [fault |-> 1]),
   Play({CheckedMerge}, [ask |-> 1, break |-> 1]),
   Play({CheckedMerge}, [late |-> 1]),
   Play({CheckedMerge}, [talk |-> 1]),
   Play({ReviewedMerge}, [retry |-> 1]),
   Play({Plain}, [remove |-> 1, merge |-> 1]),
   Play({CheckedInPlace}, [remove |-> 1, hold |-> 1])}

(* What the user does to one task, and a process that dies.                *)
User1 ==
  {Play({CheckedMerge}, [finish |-> 1, cancel |-> 1]),
   Play({CheckedMerge}, [finish |-> 1, merge |-> 1]),
   Play({ReviewedMerge}, [cancel |-> 1, merge |-> 1]),
   Play({CheckedMerge}, [cancel |-> 1, discard |-> 1]),
   Play({Checked}, [hold |-> 1, release |-> 1, finish |-> 1]),
   Play({CheckedMerge}, [crash |-> 1])}

(* A task queued after another: withdrawn, finished, held, retried, in     *)
(* place; a start that fails, a process that dies.                         *)
Queued2 ==
  {Play({Plain, After1}, [cancel |-> 1, finish |-> 1]),
   Play({Plain, After1}, [retry |-> 1]),
   Play({Plain, After1}, [fault |-> 1]),
   Play({Plain, After1}, [crash |-> 1]),
   Play({CheckedHeld, After1}, [release |-> 1]),
   Play({InPlace, After1}, << >>)}

Crash1 == {Play({CheckedMerge}, [crash |-> 1])}
Crash2 == Crash1 \union {Play({Plain, After1}, [crash |-> 1])}

(* The play of the run that shows one thing.                               *)
Cancel1 == {Play({CheckedMerge}, [cancel |-> 1])}
=============================================================================
