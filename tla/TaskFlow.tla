------------------------------ MODULE TaskFlow ------------------------------
(***************************************************************************)
(* One task's row, under any observation.  Every write of the flow fields  *)
(* goes through Store.Transition, a compare-and-set on the row's phase,    *)
(* updated_at and hold, so to the row each write is one atomic step from   *)
(* its current value; this module is that view of it.  Who observes, and   *)
(* when, is left open here: an observation is any value observation() can  *)
(* build for the phase.  Squad.tla has the processes that make them.       *)
(*                                                                         *)
(* One thing is not fresh in a won compare-and-set: SetSession does not    *)
(* move updated_at, so the row a move was decided on may still lack the    *)
(* session (seen in Observe).                                              *)
(***************************************************************************)
EXTENDS Flow

CONSTANTS
  Others,     \* the ids of the other tasks
  Counts,     \* the numbers of blocking findings a check may report
  Rounds,     \* MaxRounds of a launched task
  RetryCap    \* bound: a row with so many rounds is granted no more; 0 for none

ASSUME CountsAssumption == Counts \subseteq Nat
ASSUME RoundsAssumption == Rounds \in Nat \ {0}
ASSUME RetryCapAssumption == RetryCap \in Nat

VARIABLE task

NoRow == [phase |-> "absent", step |-> "", round |-> 0, max |-> 0,
          last |-> "none", blocking |-> <<>>, session |-> FALSE, hold |-> FALSE,
          after |-> {}, check |-> "", merge |-> FALSE, inPlace |-> FALSE]

---------------------------------------------------------------------------
(* The rows launch inserts: --merge excludes --no-merge and in-place work. *)

NewRow(p, a, c, m, h, i) ==
  [NoRow EXCEPT !.phase = p, !.max = Rounds, !.after = a, !.check = c,
                !.merge = m, !.hold = h, !.inPlace = i]

NewRows ==
  {NewRow(p, a, c, m, h, i) :
     p \in {"running", "waiting"}, a \in SUBSET Others, c \in CheckSpecs,
     m \in BOOLEAN, h \in BOOLEAN, i \in BOOLEAN}

Launchable(r) ==
  /\ r.phase = "waiting" => r.after # {}
  /\ r.merge => ~r.hold /\ ~r.inPlace

Launch ==
  /\ task.phase = "absent"
  /\ task' \in {r \in NewRows : Launchable(r)}

(* A launch that failed deletes its row, whatever became of it meanwhile.  *)
Withdraw ==
  /\ task.phase # "absent"
  /\ task' = NoRow

RecordSession ==
  /\ task.phase # "absent"
  /\ ~task.session
  /\ task' = [task EXCEPT !.session = TRUE]

(* The command checked the row it read.                                    *)
SetHold ==
  /\ task.phase # "absent"
  /\ task' = [task EXCEPT !.hold = ~task.hold]

---------------------------------------------------------------------------
(* What observation() gathers for a task in t's phase.                     *)

When(relevant, values, default) == IF relevant THEN values ELSE {default}

Observations(t) ==
  [observed   : BOOLEAN,
   live       : LiveStates,
   stopped    : BOOLEAN,
   replied    : When(t.phase \in {"fixing", "merging"}, BOOLEAN, FALSE),
   settled    : When(t.phase \in {"running", "fixing"}, BOOLEAN, FALSE),
   graced     : When(t.phase \in {"running", "checking", "merging"}, BOOLEAN, FALSE),
   deps       : When(t.phase = "waiting", [t.after -> Phases], <<>>),
   dependents : When(t.phase \in {"running", "checking", "ready"}, SUBSET Others, {}),
   busy       : When(t.phase \in {"running", "checking", "merging"}, BOOLEAN, FALSE),
   verdict    : When(t.phase = "checking", {NoVerdict} \union Verdicts(Counts), NoVerdict),
   land       : When(t.phase = "merging", {"none"} \union Landings, "none")]

(* The row as it was read, and the row written: Transition writes the flow *)
(* fields, never the session.                                              *)
Seen(r, session) == [r EXCEPT !.session = session]

Back(r, u) == [u EXCEPT !.session = r.session]

Observe ==
  \E seen \in {FALSE, task.session}, o \in Observations(task) :
    /\ Changed(Seen(task, seen), NextMove(Seen(task, seen), o))
    /\ task' = Back(task, NextMove(Seen(task, seen), o).next)

Retry ==
  /\ Resumable(task)
  /\ task.step = "round" => task.max # RetryCap
  /\ task' = RetryMove(task).next

(* The effect of the move that led here could not be run: the session did  *)
(* not start, the check did not start, the message was not sent.           *)
EffectFails ==
  \/ /\ task.phase = "running" /\ task.after # {}
     /\ task' = To(task, "needs_you", "waiting")
  \/ /\ task.phase = "checking"
     /\ task' = To(task, "needs_you", "check")
  \/ /\ task.phase = "fixing" \/ (task.phase = "merging" /\ task.step = "asked")
     /\ task' = To(task, "needs_you", "")

---------------------------------------------------------------------------
(* The user's commands, and clearGone.                                     *)

(* The phase is written, the step is left as it was.                       *)
Finish ==
  /\ task.phase \in Unfinished
  /\ task' = [task EXCEPT !.phase = "done"]

(* Mutant: a finished task too.                                            *)
Cancel_Any == task.phase # "absent" /\ task' = To(task, "cancelled", "")

Cancel ==
  /\ task.phase \in Unfinished
  /\ task' = To(task, "cancelled", "")

ClearGone ==
  /\ task.phase = "running"
  /\ task' = To(task, "cancelled", "")

---------------------------------------------------------------------------
Init == task = NoRow

Next ==
  \/ Launch \/ Withdraw \/ RecordSession \/ SetHold
  \/ Finish \/ Cancel \/ ClearGone
  \/ Retry \/ EffectFails \/ Observe

vars == <<task>>

Spec == Init /\ [][Next]_vars

---------------------------------------------------------------------------
(* Properties.                                                             *)

(* The row is a row of the table.                                          *)
TypeOK == task \in Rows(Others)

(* The rounds are bounded: whatever is observed, a check runs only in a    *)
(* round from 1 to the maximum, and a fix is asked for only when a round   *)
(* is left for the check that follows it.                                  *)
RoundsBounded ==
  /\ task.round <= task.max
  /\ task.phase = "checking" => task.round >= 1
  /\ task.phase = "fixing" => task.round >= 2

(* The convergence guard reads the right counts: the history holds one     *)
(* count per round already judged, whatever checks failed to run, were run *)
(* again, or followed the user's own work on the task in between.          *)
HistoryAligned ==
  /\ task.round - 1 <= Len(task.blocking)
  /\ Len(task.blocking) <= task.round
  /\ task.phase = "fixing" => Len(task.blocking) = task.round - 1
  /\ task.phase = "needs_you" /\ task.step = "round" => Len(task.blocking) = task.round

(* Work of a task with a check is accepted (ready, merging, or stopped     *)
(* while merging) only after a check that passed.                          *)
AcceptedPassed ==
  \/ task.phase = "ready"
  \/ task.phase = "merging" /\ task.check # ""
  \/ task.phase = "needs_you" /\ task.step = "merge" /\ task.check # ""
  => task.last = "pass"

(* Only a task that was started gets anywhere: what is checked, fixed,     *)
(* merged or ready has a session.                                          *)
ProgressHasSession ==
  \/ task.phase \in {"checking", "fixing", "merging", "ready", "failed"}
  \/ task.phase = "needs_you" /\ task.step \in {"round", "check", "merge"}
  => task.session

(* The convergence guard: while the user granted no extra round, a fix is  *)
(* never asked of a worker whose reviewer findings did not shrink for two  *)
(* rounds in a row, in these rounds or in any earlier ones.                *)
ConvergenceGuard ==
  task.phase = "fixing" /\ task.check = "reviewer" /\ task.max = Rounds
  => \A n \in 3..Len(task.blocking) :
       \/ task.blocking[n] < task.blocking[n - 1]
       \/ task.blocking[n - 1] < task.blocking[n - 2]

(* A finished task is out of the list for good: its row stays in its       *)
(* phase, unless it is the row of a launch that failed, which goes.        *)
FinishedForGood ==
  [][Finished(task.phase) => task'.phase \in {task.phase, "absent"}]_vars

(* A task with a check enters merging only with a passed check, and only   *)
(* from the check itself, from ready, or on a retry of a stopped merge:    *)
(* work the user took over in between is checked again first.              *)
MergingEntered ==
  [][task.phase # "merging" /\ task'.phase = "merging" /\ task.check # ""
     => /\ task'.last = "pass"
        /\ task.phase = "checking" \/ task.phase = "ready" \/ task.step = "merge"]_vars

(* The strengthening the proof needs: a stopped check has a round to       *)
(* resume, and a launched task may be checked at least once.               *)
RoundsGranted ==
  /\ task.phase = "needs_you" /\ task.step \in {"round", "check"} => task.round >= 1
  /\ task.phase # "absent" => task.max >= 1

(* The inductive invariant.                                                *)
Inv ==
  /\ TypeOK
  /\ RoundsBounded
  /\ HistoryAligned
  /\ AcceptedPassed
  /\ ProgressHasSession
  /\ RoundsGranted
=============================================================================
