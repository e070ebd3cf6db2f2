------------------------------- MODULE Flow --------------------------------
(***************************************************************************)
(* The pure part of csquad's task flow (internal/flow/flow.go): from a     *)
(* task's row and what was observed about it, the row it moves to and the  *)
(* effect to run.  Nothing here has state.                                 *)
(*                                                                         *)
(* A row keeps the fields the flow decides on.  Texts (title, prompt,      *)
(* note, outcome) are left out, and so is updated_at: the modules that     *)
(* need the row's version keep it beside the row.  LastCheck is abstracted *)
(* to the kind of the last verdict and the blocking counts of the rounds.  *)
(* Instants are abstracted to the comparisons the code makes with them:    *)
(* an observation says whether Settle and Grace have passed.               *)
(***************************************************************************)
EXTENDS Integers, Sequences

---------------------------------------------------------------------------
(* Rows.                                                                   *)

Finals == {"done", "cancelled"}

Unfinished == {"waiting", "running", "checking", "fixing", "merging",
               "ready", "needs_you", "failed"}

(* "absent" stands for an id the table does not hold.                      *)
Phases == Finals \union Unfinished \union {"absent"}

(* "asked" is a step of merging; the others say what retry resumes.        *)
Steps == {"", "asked", "waiting", "round", "check", "merge"}

(* '' is no check; a command and a reviewer differ in the convergence      *)
(* guard.                                                                  *)
CheckSpecs == {"", "cmd", "reviewer"}

VerdictKinds == {"none", "pass", "fail", "error"}

Rows(ids) ==
  [phase : Phases, step : Steps, round : Nat, max : Nat,
   last : VerdictKinds, blocking : Seq(Nat),
   session : BOOLEAN, hold : BOOLEAN,
   after : SUBSET ids, check : CheckSpecs,
   merge : BOOLEAN, inPlace : BOOLEAN]

Finished(phase) == phase \in Finals

---------------------------------------------------------------------------
(* Observations.                                                           *)

LiveStates == {"working", "needs_input", "idle", "done", "failed", "stopped", "gone"}

Verdicts(counts) == [kind : {"pass", "fail", "error"}, count : counts]

NoVerdict == [kind |-> "none", count |-> 0]

Landings == {"done", "conflict", "problem"}

(* What is known of a task nothing was observed about.                     *)
NoObs ==
  [observed |-> FALSE, live |-> "gone",    \* the engine's answer
   stopped |-> FALSE,                      \* a Stop event after the row entered its step
   replied |-> FALSE,                      \* the worker answered csquad's message
   settled |-> FALSE, graced |-> FALSE,    \* Settle, Grace have passed in this step
   deps |-> <<>>,                          \* the phase of each task of after
   dependents |-> {},                      \* the waiting tasks that list this one
   busy |-> FALSE,                         \* the task lock or the check lock is held
   verdict |-> NoVerdict, land |-> "none"]

---------------------------------------------------------------------------
(* Moves.                                                                  *)

Effects == {"none", "start", "check", "send", "land"}

Move(next, effect) == [next |-> next, effect |-> effect]

Stay(t) == Move(t, "none")

Changed(t, m) == m.next # t

Acts(t, m) == Changed(t, m) \/ m.effect # "none"

To(t, phase, step) == [t EXCEPT !.phase = phase, !.step = step]

NeedsYou(t, resume) == Stay(To(t, "needs_you", resume))

Orchestrated(t) == t.check # "" \/ t.merge

(* Mutant: the hold is not read.                                           *)
Implicit_Held(t, dependents) == ~t.merge /\ dependents # {}

(* Merged for the tasks queued after it, unless the user holds it.         *)
Implicit(t, dependents) == ~t.merge /\ ~t.hold /\ dependents # {}

Merges(t, o) == t.merge \/ Implicit(t, o.dependents)

(* Mutant: a working session is taken to rest.                             *)
AtRest_Working(o) == o.observed /\ o.live \in {"working", "idle", "done"}

AtRest(o) == o.observed /\ o.live \in {"idle", "done"}

(* Mutant: an idle session counts in a fix round too.                      *)
TurnEnded_Settled(t, o) == AtRest(o) /\ (o.stopped \/ o.replied \/ o.settled)

(* The worker's turn ended.                                                *)
TurnEnded(t, o) ==
  /\ AtRest(o)
  /\ \/ o.stopped
     \/ IF t.phase \in {"fixing", "merging"} THEN o.replied ELSE o.settled

(* Mutant: a landing is taken for a loss.                                  *)
Lost_Busy(t, o) == o.observed /\ o.live \in {"failed", "gone"}

(* The session failed or disappeared, and no process is at work on the     *)
(* task that may have removed it on purpose.                               *)
Lost(t, o) == o.observed /\ ~o.busy /\ o.live \in {"failed", "gone"}

(* Mutant: the session's state is stored.                                  *)
LostMove_Live(t, o) == Stay(To(t, o.live, ""))

LostMove(t, o) ==
  IF o.live = "failed" THEN Stay(To(t, "failed", "")) ELSE NeedsYou(t, "")

---------------------------------------------------------------------------
(* Next, phase by phase.                                                   *)

(* Mutant: a cancelled dependency counts as done.                          *)
NextWaiting_Finished(t, o) ==
  IF \E d \in t.after : ~Finished(o.deps[d]) THEN Stay(t) ELSE Move(To(t, "running", ""), "start")

NextWaiting(t, o) ==
  IF \E d \in t.after : o.deps[d] \in {"absent", "cancelled"}
  THEN NeedsYou(t, "waiting")
  ELSE IF \E d \in t.after : o.deps[d] # "done"
  THEN Stay(t)
  ELSE Move(To(t, "running", ""), "start")

AtLeastOne(n) == IF n < 1 THEN 1 ELSE n

(* Mutant: only the first turn is checked.                                 *)
AfterWork_Once(t, o) ==
  IF t.check # "" /\ t.last = "none"
  THEN Move([To(t, "checking", "") EXCEPT !.round = AtLeastOne(t.round)], "check")
  ELSE Move(To(t, "merging", ""), "land")

AfterWork(t, o) ==
  IF t.check # ""
  THEN Move([To(t, "checking", "") EXCEPT !.round = AtLeastOne(t.round)], "check")
  ELSE IF Merges(t, o)
  THEN Move(To(t, "merging", ""), "land")
  ELSE Stay(t)

NextWorking(t, o) ==
  IF ~t.session
  THEN IF t.phase = "running" /\ t.after # {} /\ ~o.busy /\ o.graced
       THEN NeedsYou(t, "waiting")
       ELSE Stay(t)
  ELSE IF ~Orchestrated(t) /\ ~Implicit(t, o.dependents)
  THEN Stay(t)
  ELSE IF Lost(t, o)
  THEN LostMove(t, o)
  ELSE IF TurnEnded(t, o) THEN AfterWork(t, o) ELSE Stay(t)

(* The blocking counts once a verdict of the current round is in: those of *)
(* the earlier rounds, then its own; a check that failed to run adds none. *)
Prefix(s, n) == SubSeq(s, 1, IF n < Len(s) THEN n ELSE Len(s))

(* Mutant: a round counts each time it is judged.                          *)
History_Rerun(t, v) == IF v.kind = "error" THEN t.blocking ELSE Append(t.blocking, v.count)

History(t, v) ==
  IF v.kind = "error" THEN t.blocking
  ELSE Append(Prefix(t.blocking, t.round - 1), v.count)

(* Mutant: only growing counts are a plateau.                              *)
Plateau_Grew(h) ==
  Len(h) >= 3 /\ h[Len(h) - 1] > h[Len(h) - 2] /\ h[Len(h)] > h[Len(h) - 1]

(* The last three counts did not shrink.                                   *)
Plateau(h) ==
  /\ Len(h) >= 3
  /\ h[Len(h) - 1] >= h[Len(h) - 2]
  /\ h[Len(h)] >= h[Len(h) - 1]

Stuck(t, h) == t.check = "reviewer" /\ Plateau(h)

(* Mutant: one round too many.                                             *)
VerdictMove_Rounds(t, v, o) ==
  LET n == [t EXCEPT !.last = v.kind, !.blocking = History(t, v)]
  IN  IF v.kind = "error" THEN NeedsYou(n, "check")
      ELSE IF v.kind = "pass"
      THEN IF Merges(t, o) THEN Move(To(n, "merging", ""), "land") ELSE Stay(To(n, "ready", ""))
      ELSE IF t.round > t.max \/ Stuck(t, n.blocking)
      THEN NeedsYou(n, "round")
      ELSE Move([To(n, "fixing", "") EXCEPT !.round = t.round + 1], "send")

VerdictMove(t, v, o) ==
  LET n == [t EXCEPT !.last = v.kind, !.blocking = History(t, v)]
  IN  IF v.kind = "error" THEN NeedsYou(n, "check")
      ELSE IF v.kind = "pass"
      THEN IF Merges(t, o) THEN Move(To(n, "merging", ""), "land")
                           ELSE Stay(To(n, "ready", ""))
      ELSE IF t.round >= t.max \/ Stuck(t, n.blocking)
      THEN NeedsYou(n, "round")
      ELSE Move([To(n, "fixing", "") EXCEPT !.round = t.round + 1], "send")

NextChecking(t, o) ==
  IF o.verdict # NoVerdict THEN VerdictMove(t, o.verdict, o)
  ELSE IF ~o.busy /\ o.graced THEN NeedsYou(t, "check") ELSE Stay(t)

(* Mutant: a problem is taken for success.                                 *)
Landed_Anyway(t, land) ==
  IF land = "conflict" /\ t.step # "asked"
  THEN Move(To(t, "merging", "asked"), "send") ELSE Stay(To(t, "done", ""))

Landed(t, land) ==
  CASE land = "done"                          -> Stay(To(t, "done", ""))
    [] land = "conflict" /\ t.step # "asked"  -> Move(To(t, "merging", "asked"), "send")
    [] OTHER                                  -> NeedsYou(t, "merge")

(* Mutant: a landing that died is not repeated.                            *)
NextMerging_Once(t, o) ==
  IF o.land # "none" THEN Landed(t, o.land)
  ELSE IF Lost(t, o) THEN LostMove(t, o)
  ELSE Move(t, IF t.step = "asked" /\ TurnEnded(t, o) THEN "land" ELSE "none")

NextMerging(t, o) ==
  IF o.land # "none" THEN Landed(t, o.land)
  ELSE IF Lost(t, o) THEN LostMove(t, o)
  ELSE IF t.step = "asked"
  THEN Move(t, IF TurnEnded(t, o) THEN "land" ELSE "none")
  ELSE Move(t, IF ~o.busy /\ o.graced THEN "land" ELSE "none")

NextReady(t, o) ==
  IF Implicit(t, o.dependents) /\ AtRest(o)
  THEN Move(To(t, "merging", ""), "land")
  ELSE Stay(t)

(* Mutant: the user's own work is merged.                                  *)
NextStopped_Merges(t, o) ==
  IF t.session /\ o.observed /\ o.live = "working"
  THEN Stay(To(t, IF t.last = "pass" THEN "merging" ELSE "running", ""))
  ELSE Stay(t)

(* Back to work only when the session works again.                         *)
NextStopped(t, o) ==
  IF t.session /\ o.observed /\ o.live = "working"
  THEN Stay(To(t, "running", ""))
  ELSE Stay(t)

NextMove(t, o) ==
  CASE t.phase = "waiting"                  -> NextWaiting(t, o)
    [] t.phase \in {"running", "fixing"}    -> NextWorking(t, o)
    [] t.phase = "checking"                 -> NextChecking(t, o)
    [] t.phase = "merging"                  -> NextMerging(t, o)
    [] t.phase = "ready"                    -> NextReady(t, o)
    [] t.phase \in {"needs_you", "failed"}  -> NextStopped(t, o)
    [] OTHER                                -> Stay(t)

---------------------------------------------------------------------------
(* Retry: a needs_you task resumes where it stopped; one that stopped      *)
(* without a step cannot.                                                  *)

Resumable(t) == t.phase = "needs_you" /\ t.step \in {"waiting", "check", "merge", "round"}

RetryMove(t) ==
  CASE t.step = "waiting" -> Stay(To(t, "waiting", ""))
    [] t.step = "check"   -> Move(To(t, "checking", ""), "check")
    [] t.step = "merge"   -> Move(To(t, "merging", ""), "land")
    [] t.step = "round"   -> Move([To(t, "fixing", "") EXCEPT !.max = t.max + 1,
                                                              !.round = t.round + 1], "send")
    [] OTHER              -> Stay(t)
=============================================================================
