------------------------------- MODULE Squad --------------------------------
(***************************************************************************)
(* The csquad processes at work on one task list: the passes that advance  *)
(* the tasks (commands, Stop hooks, the status line), the checks they      *)
(* spawn, the effects they run, and the user's commands, over one SQLite   *)
(* table, one lock per task and per check round, the workers' sessions and *)
(* the tasks' branches.                                                    *)
(*                                                                         *)
(* A step is what the code does between two points where another process   *)
(* can be seen or can see it: a database statement, a lock, a call of the  *)
(* engine or of git.  A process works from the row it read (seen, ver); a  *)
(* pass over all tasks is modelled task by task, each from a row that may  *)
(* be as old as it likes.  ver is updated_at: it names the version of the  *)
(* row.  Locks are the operating system's: they go with the process.       *)
(***************************************************************************)
EXTENDS Flow

CONSTANTS
  Tasks,      \* task ids, an interval of numbers from 1
  Procs,      \* csquad processes that may run at a time
  Rounds,     \* max_rounds of a launched task
  Counts,     \* numbers of blocking findings a check may report
  Plays       \* bound: what is launched, and how often each of Kinds may happen

ASSUME TasksAssumption == Tasks \subseteq Nat \ {0}
ASSUME SquadRoundsAssumption == Rounds \in Nat \ {0}
ASSUME SquadCountsAssumption == Counts \subseteq Nat

(* The user's commands, what workers and people do outside csquad, and     *)
(* what fails.                                                             *)
Kinds == {"finish", "cancel", "discard", "hold", "release", "retry",
          "talk", "merge", "remove", "ask", "break", "late", "fault", "crash"}

(* --merge excludes --no-merge and in-place work.                          *)
Launches ==
  {a \in [after : SUBSET Tasks, check : CheckSpecs, merge : BOOLEAN, hold : BOOLEAN, inPlace : BOOLEAN] :
     a.merge => ~a.hold /\ ~a.inPlace}

ASSUME PlaysAssumption == Plays \subseteq [launches : SUBSET Launches, may : [Kinds -> Nat]]

VARIABLES
  row,        \* the table: a row of each id
  ver,        \* the rows' updated_at
  proc,       \* the processes
  session,    \* the engine's side: the state of each task's session ("idle"
              \* stands for "done" too, which the flow does not tell from it)
  inbox,      \* a message sent to the worker that it has not picked up
  work,       \* the task's branch: "none", "open" (unmerged commits), "merged"
  verdicts,   \* the verdict files
  spawned,    \* checks spawned that have not begun
  stops,      \* Stop hooks that ran and whose csquad has not begun
  reply,      \* the version at which the worker last answered
  changed,    \* the worker worked since its work was last given to a check
  left        \* what is left of the play: [launches, may]

vars == <<row, ver, proc, session, inbox, work, verdicts, spawned, stops, reply, changed, left>>

world == <<session, inbox, work, verdicts, spawned, stops, reply, changed>>

NoRow == [phase |-> "absent", step |-> "", round |-> 0, max |-> 0,
          last |-> "none", blocking |-> <<>>, session |-> FALSE, hold |-> FALSE,
          after |-> {}, check |-> "", merge |-> FALSE, inPlace |-> FALSE]

(* live is what the pass observed ("unknown" when it did not); at is the   *)
(* version a Stop event was dated in; move is the write or the effect that *)
(* is due.                                                                 *)
Idle == [pc |-> "idle", job |-> "", task |-> 0, seen |-> NoRow, ver |-> 0,
         live |-> "unknown", at |-> 0, move |-> Stay(NoRow), locks |-> {}]

Init ==
  /\ row = [t \in Tasks |-> NoRow]
  /\ ver = [t \in Tasks |-> 0]
  /\ proc = [p \in Procs |-> Idle]
  /\ session = [t \in Tasks |-> "none"]
  /\ inbox = [t \in Tasks |-> FALSE]
  /\ work = [t \in Tasks |-> "none"]
  /\ verdicts = {}
  /\ spawned = {}
  /\ stops = {}
  /\ reply = [t \in Tasks |-> 0]
  /\ changed = [t \in Tasks |-> FALSE]
  /\ left \in Plays

---------------------------------------------------------------------------
(* The table.                                                              *)

Listed(t) == row[t].phase \in Unfinished

Dependents(t) == {d \in Tasks : row[d].phase = "waiting" /\ t \in row[d].after}

Same(seen, version, t) == row[t].phase = seen.phase /\ ver[t] = version

(* Mutant: updated_at is not compared.                                     *)
Wins_Phase(p) ==
  LET t == proc[p].task
  IN  row[t].phase = proc[p].seen.phase /\ row[t].hold = proc[p].seen.hold

(* Transition's compare-and-set.                                           *)
Wins(p) ==
  LET t == proc[p].task
  IN  Same(proc[p].seen, proc[p].ver, t) /\ row[t].hold = proc[p].seen.hold

(* Mutant: the session is written.                                         *)
Transition_Session(t, next) ==
  /\ row' = [row EXCEPT ![t] = next]
  /\ ver' = [ver EXCEPT ![t] = @ + 1]

(* Mutant: the clock is believed.                                          *)
Transition_Back(t, next) ==
  /\ row' = [row EXCEPT ![t] = [next EXCEPT !.session = row[t].session, !.hold = row[t].hold]]
  /\ ver' = [ver EXCEPT ![t] = @ - 1]

(* updated_at moves when the phase or the step does; the session and the   *)
(* hold are not written.                                                   *)
Transition(t, next) ==
  /\ row' = [row EXCEPT ![t] = [next EXCEPT !.session = row[t].session, !.hold = row[t].hold]]
  /\ ver' = [ver EXCEPT ![t] = IF next.phase # row[t].phase \/ next.step # row[t].step
                               THEN @ + 1 ELSE @]

---------------------------------------------------------------------------
(* Processes and locks.                                                    *)

TaskLock(t) == <<"task", t, 0>>

CheckLock(t, round) == <<"check", t, round>>

Held(lock) == \E q \in Procs : lock \in proc[q].locks

(* A pass that asks whether a lock is held takes it for a moment.          *)
Probed(p, lock) ==
  \E q \in Procs \ {p} :
    /\ proc[q].pc = "decide"
    /\ \/ proc[q].seen.phase = "merging" /\ lock = TaskLock(proc[q].task)
       \/ /\ proc[q].seen.phase = "running" /\ ~proc[q].seen.session
          /\ lock = TaskLock(proc[q].task)

CanTake(lock) == ~Held(lock)

CanMiss(p, lock) == Held(lock) \/ Probed(p, lock)

At(p, pc) == proc[p].pc = pc

Become(p, r) == proc' = [proc EXCEPT ![p] = r]

(* The process ends, or goes on to tasks this one says nothing about; its  *)
(* locks are released.                                                     *)
End(p) == Become(p, Idle)

Spend(kind) == left.may[kind] > 0 /\ left' = [left EXCEPT !.may[kind] = @ - 1]

(* The row a process reads, and works from.                                *)
Reading(t) == [Idle EXCEPT !.task = t, !.seen = row[t], !.ver = ver[t]]

(* Where a decided move takes a process: its write, else its effect.       *)
Due(p, m) ==
  IF ~Acts(proc[p].seen, m) THEN End(p)
  ELSE Become(p, [proc[p] EXCEPT !.move = m, !.live = "unknown",
                                 !.pc = IF Changed(proc[p].seen, m) THEN "write" ELSE m.effect])

---------------------------------------------------------------------------
(* A pass.                                                                 *)

(* Some process is started, or some command run, that advances the tasks;  *)
(* its session is observed where the flow reads it.                        *)
List(p, t) ==
  /\ At(p, "idle") \/ (At(p, "stopped") /\ proc[p].task = t)
  /\ Listed(t)
  /\ LET r == row[t]
         watched == /\ r.session
                    /\ Orchestrated(r) \/ Implicit(r, Dependents(t))
                    /\ r.phase \in {"running", "fixing", "merging", "needs_you", "failed", "ready"}
     IN  Become(p, [Reading(t) EXCEPT !.pc = IF watched THEN "look" ELSE "decide",
                                      !.job = "pass", !.at = proc[p].at])
  /\ UNCHANGED <<row, ver, left, world>>

(* The list and the status line observe every session.                     *)
Show(p, t) ==
  /\ At(p, "idle")
  /\ row[t].phase = "running" /\ row[t].session
  /\ Become(p, [Reading(t) EXCEPT !.pc = "look", !.job = "show"])
  /\ UNCHANGED <<row, ver, left, world>>

(* csquad advance --stopped dates the event when it starts, then waits     *)
(* until the session no longer works, or for its deadline.                 *)
Stopped(p, t) ==
  /\ At(p, "idle")
  /\ \E hook \in stops :
       /\ hook.task = t
       /\ stops' = stops \ {hook}
       /\ IF hook.ver = ver[t] THEN UNCHANGED left ELSE Spend("late")
  /\ Become(p, [Idle EXCEPT !.pc = "stopped", !.task = t, !.at = ver[t]])
  /\ UNCHANGED <<row, ver, session, inbox, work, verdicts, spawned, reply, changed>>

(* A hook whose csquad never begins.                                       *)
LoseStop(hook) ==
  /\ stops' = stops \ {hook}
  /\ UNCHANGED <<row, ver, proc, session, inbox, work, verdicts, spawned, reply, changed, left>>

(* The event of a task that is out of the list moves nothing.              *)
StoppedLate(p) ==
  /\ At(p, "stopped")
  /\ ~Listed(proc[p].task)
  /\ End(p)
  /\ UNCHANGED <<row, ver, left, world>>

(* The engine's states of the listed tasks.                                *)
Look(p) ==
  /\ At(p, "look")
  /\ LET next == IF proc[p].job = "show" THEN "clear" ELSE "decide"
     IN  \/ /\ Become(p, [proc[p] EXCEPT !.pc = next, !.live = session[proc[p].task]])
            /\ UNCHANGED left
         \/ /\ Spend("fault")
            /\ Become(p, [proc[p] EXCEPT !.pc = next])
  /\ UNCHANGED <<row, ver, world>>

VerdictOf(t, seen, version) ==
  LET fit == {v \in verdicts : v.task = t /\ v.round = seen.round /\ v.for = version}
  IN  IF fit = {} THEN NoVerdict
      ELSE LET v == CHOOSE v \in fit : TRUE IN [kind |-> v.kind, count |-> v.count]

(* What the pass gathers, and what Next makes of it.  patient: Settle and  *)
(* Grace have passed.                                                      *)
Observation(p, patient) ==
  LET r == proc[p].seen
      t == proc[p].task
      live == proc[p].live
      stopped == proc[p].at >= proc[p].ver
  IN  [observed   |-> live # "unknown",
       live       |-> IF live = "unknown" THEN NoObs.live ELSE live,
       stopped    |-> stopped,
       replied    |-> /\ r.phase = "fixing" \/ (r.phase = "merging" /\ r.step = "asked")
                      /\ live = "idle" /\ ~stopped /\ reply[t] >= proc[p].ver,
       settled    |-> patient /\ r.phase \in {"running", "fixing"},
       graced     |-> patient /\ r.phase \in {"running", "checking", "merging"},
       deps       |-> IF r.phase = "waiting" THEN [d \in r.after |-> row[d].phase] ELSE <<>>,
       dependents |-> IF ~r.merge /\ ~r.hold /\ r.phase \in {"running", "checking", "ready"}
                      THEN Dependents(t) ELSE {},
       busy       |-> \/ r.phase = "running" /\ ~r.session /\ Held(TaskLock(t))
                      \/ r.phase = "checking" /\ Held(CheckLock(t, r.round))
                      \/ r.phase = "merging" /\ Held(TaskLock(t)),
       verdict    |-> IF r.phase = "checking" THEN VerdictOf(t, r, proc[p].ver) ELSE NoVerdict,
       land       |-> "none"]

Decide(p) ==
  /\ At(p, "decide")
  /\ \E patient \in BOOLEAN : Due(p, NextMove(proc[p].seen, Observation(p, patient)))
  /\ UNCHANGED <<row, ver, left, world>>

(* Mover.Apply: the compare-and-set, and the effect for the row as stored. *)
Write(p) ==
  /\ At(p, "write")
  /\ LET t == proc[p].task
         m == proc[p].move
     IN  IF ~Wins(p) THEN End(p) /\ UNCHANGED <<row, ver>>
         ELSE /\ Transition(t, m.next)
              /\ IF m.effect = "none" THEN End(p)
                 ELSE Become(p, [proc[p] EXCEPT !.pc = m.effect, !.seen = row'[t], !.ver = ver'[t],
                                                !.move = Idle.move])
  /\ UNCHANGED <<left, world>>

(* fail: to needs_you from the row the effect ran for.                     *)
Fail(p, step) ==
  Become(p, [proc[p] EXCEPT !.pc = "write", !.move = NeedsYou(proc[p].seen, step)])

---------------------------------------------------------------------------
(* The effects.                                                            *)

(* A csquad of its own, detached: it runs when it runs.                    *)
Spawn(t) == spawned' = spawned \union {t}

SpawnCheck(p) ==
  /\ At(p, "check")
  /\ \/ /\ Spawn(proc[p].task)
        /\ End(p)
        /\ UNCHANGED left
     \/ /\ Spend("fault")
        /\ Fail(p, "check")
        /\ UNCHANGED spawned
  /\ UNCHANGED <<row, ver, session, inbox, work, verdicts, stops, reply, changed>>

(* The session reads idle until the worker picks the message up.           *)
Send(p) ==
  /\ At(p, "send")
  /\ \/ /\ session[proc[p].task] \notin {"none", "gone"}
        /\ inbox' = [inbox EXCEPT ![proc[p].task] = TRUE]
        /\ End(p)
        /\ UNCHANGED left
     \/ /\ session[proc[p].task] \in {"none", "gone"}
        /\ Fail(p, "")
        /\ UNCHANGED <<inbox, left>>
     \/ /\ Spend("fault")
        /\ Fail(p, "")
        /\ UNCHANGED inbox
  /\ UNCHANGED <<row, ver, session, work, verdicts, spawned, stops, reply, changed>>

(* Taking the task lock and reading the row again.                         *)
Claim(p, job) ==
  LET t == proc[p].task
  IN  /\ CanTake(TaskLock(t))
      /\ Become(p, [proc[p] EXCEPT !.pc = job, !.job = job, !.seen = row[t], !.ver = ver[t],
                                   !.locks = @ \union {TaskLock(t)}])

Missed(p) == CanMiss(p, TaskLock(proc[p].task)) /\ End(p)

(* Mutant: the session is not read again.                                  *)
StartQueued_Again(p) ==
  /\ At(p, "start")
  /\ LET ok == Same(proc[p].seen, proc[p].ver, proc[p].task)
     IN  (ok /\ Claim(p, "starting")) \/ (~ok /\ End(p)) \/ Missed(p)
  /\ UNCHANGED <<row, ver, left, world>>

StartQueued(p) ==
  /\ At(p, "start")
  /\ LET t == proc[p].task
         ok == Same(proc[p].seen, proc[p].ver, t) /\ ~row[t].session
     IN  \/ ok /\ Claim(p, "starting")
         \/ ~ok /\ End(p)
         \/ Missed(p)
  /\ UNCHANGED <<row, ver, left, world>>

StartSession(t) ==
  /\ session' = [session EXCEPT ![t] = "working"]
  /\ work' = [work EXCEPT ![t] = IF row[t].inPlace THEN "none" ELSE "open"]

Starting(p) ==
  /\ At(p, "starting")
  /\ \/ /\ StartSession(proc[p].task)
        /\ Become(p, [proc[p] EXCEPT !.pc = "record"])
        /\ UNCHANGED left
     \/ /\ Spend("fault")
        /\ Fail(p, "waiting")
        /\ UNCHANGED <<session, work>>
  /\ UNCHANGED <<row, ver, inbox, verdicts, spawned, stops, reply, changed>>

(* SetSession.                                                             *)
Record(p) ==
  /\ At(p, "record")
  /\ LET t == proc[p].task
     IN  row' = IF row[t].phase = "absent" THEN row ELSE [row EXCEPT ![t].session = TRUE]
  /\ End(p)
  /\ UNCHANGED <<ver, left, world>>

Land(p) ==
  /\ At(p, "land")
  /\ LET t == proc[p].task
         ok == Same(proc[p].seen, proc[p].ver, t) /\ row[t].phase = "merging"
     IN  \/ ok /\ Claim(p, "landing")
         \/ ~ok /\ End(p)
         \/ Missed(p)
  /\ UNCHANGED <<row, ver, left, world>>

LandMove(p, result) == NextMove(proc[p].seen, [NoObs EXCEPT !.land = result])

(* The session and the branch decide: a worker at work, no branch, a       *)
(* conflict, or the branch fast-forwarded; problem stands for the rest     *)
(* (an unclean worktree, git refusing).                                    *)
Landing(p) ==
  /\ At(p, "landing")
  /\ LET t == proc[p].task
         s == session[t]
         rest == s \notin {"working", "needs_input"}
         onward(pc) == Become(p, [proc[p] EXCEPT !.pc = pc, !.move = LandMove(p, "done")])
     IN  \/ ~rest /\ Due(p, LandMove(p, "problem")) /\ UNCHANGED <<work, left>>
         \/ rest /\ proc[p].seen.inPlace /\ onward("remove") /\ UNCHANGED <<work, left>>
         \/ /\ rest /\ ~proc[p].seen.inPlace
            /\ \/ work[t] = "none" /\ Due(p, LandMove(p, "problem")) /\ UNCHANGED <<work, left>>
               \/ work[t] = "open" /\ Due(p, LandMove(p, "conflict")) /\ UNCHANGED <<work, left>>
               \/ /\ work[t] \in {"open", "merged"}
                  /\ work' = [work EXCEPT ![t] = "merged"]
                  /\ onward("clean")
                  /\ UNCHANGED left
         \/ Spend("fault") /\ Due(p, LandMove(p, "problem")) /\ UNCHANGED work
  /\ UNCHANGED <<row, ver, session, inbox, verdicts, spawned, stops, reply, changed>>

(* inspect and clean: git deletes what is proved to be in the target; a    *)
(* problem stops the command where it is.                                  *)
Clean(p) ==
  /\ At(p, "clean")
  /\ LET t == proc[p].task
         stop == IF proc[p].job = "landing" THEN Due(p, LandMove(p, "problem")) ELSE End(p)
     IN  \/ /\ work[t] # "open" \/ proc[p].job = "discard"
            /\ work' = [work EXCEPT ![t] = "none"]
            /\ Become(p, [proc[p] EXCEPT !.pc = "remove"])
            /\ UNCHANGED left
         \/ /\ work[t] = "open" /\ proc[p].job # "discard"
            /\ stop
            /\ UNCHANGED <<work, left>>
         \/ /\ Spend("fault")
            /\ stop
            /\ UNCHANGED work
  /\ UNCHANGED <<row, ver, session, inbox, verdicts, spawned, stops, reply, changed>>

(* The session of the row goes; that it could not be removed is only told. *)
Remove(p) ==
  /\ At(p, "remove")
  /\ \/ /\ session' = [session EXCEPT ![proc[p].task] =
                       IF @ = "none" \/ ~proc[p].seen.session THEN @ ELSE "gone"]
        /\ UNCHANGED left
     \/ /\ Spend("fault")
        /\ UNCHANGED session
  /\ IF proc[p].move = Idle.move THEN End(p)
     ELSE Become(p, [proc[p] EXCEPT !.pc = "write"])
  /\ UNCHANGED <<row, ver, inbox, work, verdicts, spawned, stops, reply, changed>>

---------------------------------------------------------------------------
(* csquad check.                                                           *)

Check(p, t) ==
  /\ At(p, "idle")
  /\ t \in spawned
  /\ spawned' = spawned \ {t}
  /\ IF row[t].phase = "checking"
     THEN Become(p, [Reading(t) EXCEPT !.pc = "checkLock", !.job = "check"])
     ELSE UNCHANGED proc
  /\ UNCHANGED <<row, ver, session, inbox, work, verdicts, stops, reply, changed, left>>

(* The lock of the round, the row again, and the verdict an earlier run of *)
(* the same check may have left.                                           *)
CheckClaim(p) ==
  /\ At(p, "checkLock")
  /\ LET t == proc[p].task
         lock == CheckLock(t, proc[p].seen.round)
         ok == row[t].phase = "checking" /\ row[t].round = proc[p].seen.round
         found == VerdictOf(t, row[t], ver[t])
         claimed == [proc[p] EXCEPT !.seen = row[t], !.ver = ver[t], !.locks = {lock}]
     IN  \/ Held(lock) /\ End(p) /\ UNCHANGED changed
         \/ CanTake(lock) /\ ~ok /\ End(p) /\ UNCHANGED changed
         \/ /\ CanTake(lock) /\ ok /\ found = NoVerdict
            /\ Become(p, [claimed EXCEPT !.pc = "checkRun"])
            /\ changed' = [changed EXCEPT ![t] = FALSE]
         \/ /\ CanTake(lock) /\ ok /\ found # NoVerdict
            /\ Become(p, [claimed EXCEPT !.pc = "checkApply"])
            /\ UNCHANGED changed
  /\ UNCHANGED <<row, ver, session, inbox, work, verdicts, spawned, stops, reply, left>>

(* checkRequest: the checkout of an in-place task, else a worktree of the  *)
(* task, is what a check looks at.                                         *)
Checkable(t, r) == r.inPlace \/ work[t] # "none"

NoAnswer == [kind |-> "error", count |-> 0]

(* A command's exit: what it printed is the one finding of a failure.      *)
CmdVerdicts == {[kind |-> "pass", count |-> 0], [kind |-> "fail", count |-> 1]}

(* A reviewer's answer counts the blocking ones of its findings, none when *)
(* all are minor; an answer that fails without findings has its summary    *)
(* for one.                                                                *)
ReviewVerdicts == {v \in Verdicts(Counts) : v.kind # "error"}

(* The check runs, or there is no verdict; what came of it is written to   *)
(* the round's file.                                                       *)
CheckRun(p) ==
  /\ At(p, "checkRun")
  /\ LET t == proc[p].task
         r == proc[p].seen
         others == {v \in verdicts : v.task # t \/ v.round # r.round}
         wrote(v) == verdicts' = others \union {[task |-> t, round |-> r.round, for |-> proc[p].ver,
                                                kind |-> v.kind, count |-> v.count]}
     IN  \/ /\ Checkable(t, r)
            /\ \E v \in IF r.check = "cmd" THEN CmdVerdicts ELSE ReviewVerdicts : wrote(v)
            /\ UNCHANGED left
         \/ Checkable(t, r) /\ Spend("fault") /\ wrote(NoAnswer)
         \/ ~Checkable(t, r) /\ wrote(NoAnswer) /\ UNCHANGED left
  /\ Become(p, [proc[p] EXCEPT !.pc = "checkApply"])
  /\ UNCHANGED <<row, ver, session, inbox, work, spawned, stops, reply, changed>>

CheckApply(p) ==
  /\ At(p, "checkApply")
  /\ LET t == proc[p].task
     IN  Due(p, NextMove(proc[p].seen, [NoObs EXCEPT !.verdict = VerdictOf(t, proc[p].seen, proc[p].ver),
                                                     !.dependents = Dependents(t)]))
  /\ UNCHANGED <<row, ver, left, world>>

---------------------------------------------------------------------------
(* The user's commands.                                                    *)

Parse(p, a) ==
  /\ At(p, "idle")
  /\ left' = [left EXCEPT !.launches = @ \ {a}]
  /\ \A d \in a.after : row[d].phase \notin {"absent", "cancelled"}
  /\ Become(p, [Idle EXCEPT !.pc = "insert", !.job = "launch",
                  !.seen = [NoRow EXCEPT !.max = Rounds, !.after = a.after, !.check = a.check,
                                         !.merge = a.merge, !.hold = a.hold, !.inPlace = a.inPlace]])
  /\ UNCHANGED <<row, ver, world>>

(* The highest number plus one.                                            *)
IsNextId(t) ==
  /\ \A u \in Tasks : row[u].phase # "absent" => u < t
  /\ t = 1 \/ (t - 1 \in Tasks /\ row[t - 1].phase # "absent")

(* The dependencies are read again.                                        *)
Insert(p) ==
  /\ At(p, "insert")
  /\ \E t \in Tasks : IsNextId(t) /\
     LET r == proc[p].seen
         ready == \A d \in r.after : row[d].phase = "done"
         new == [r EXCEPT !.phase = IF ready THEN "running" ELSE "waiting"]
         inserted == [proc[p] EXCEPT !.task = t, !.seen = new, !.ver = ver[t] + 1]
     IN  /\ row' = [row EXCEPT ![t] = new]
         /\ ver' = [ver EXCEPT ![t] = @ + 1]
         /\ Become(p, [inserted EXCEPT !.pc = IF ready THEN "launchLock" ELSE "queue"])
  /\ UNCHANGED <<left, world>>

(* A queued task's arguments are prepared, or its row goes again.          *)
Queue(p) ==
  /\ At(p, "queue")
  /\ \/ End(p) /\ UNCHANGED left
     \/ Spend("fault") /\ Become(p, [proc[p] EXCEPT !.pc = "delete"])
  /\ UNCHANGED <<row, ver, world>>

(* The lock is tried, and the launch goes on either way.                   *)
LaunchLock(p) ==
  /\ At(p, "launchLock")
  /\ LET lock == TaskLock(proc[p].task)
     IN  \/ /\ CanTake(lock)
            /\ Become(p, [proc[p] EXCEPT !.pc = "launchStart", !.locks = {lock}])
         \/ /\ CanMiss(p, lock)
            /\ Become(p, [proc[p] EXCEPT !.pc = "launchStart"])
  /\ UNCHANGED <<row, ver, left, world>>

LaunchStart(p) ==
  /\ At(p, "launchStart")
  /\ \/ /\ StartSession(proc[p].task)
        /\ Become(p, [proc[p] EXCEPT !.pc = "record"])
        /\ UNCHANGED left
     \/ /\ Spend("fault")
        /\ Become(p, [proc[p] EXCEPT !.pc = "delete", !.locks = {}])
        /\ UNCHANGED <<session, work>>
  /\ UNCHANGED <<row, ver, inbox, verdicts, spawned, stops, reply, changed>>

Delete(p) ==
  /\ At(p, "delete")
  /\ row' = [row EXCEPT ![proc[p].task] = NoRow]
  /\ End(p)
  /\ UNCHANGED <<ver, left, world>>

(* A command reads its task and refuses what it cannot be run on.          *)
Accepts(kind, r) ==
  CASE kind = "finish"  -> r.phase \in Unfinished \ {"waiting"} /\ r.session
    [] kind = "cancel"  -> r.phase \in Unfinished
    [] kind = "discard" -> r.phase \in Unfinished \union {"cancelled"}
    [] kind = "hold"    -> r.phase \in Unfinished \ {"merging"} /\ ~r.merge
    [] kind = "release" -> r.phase \in Unfinished /\ ~r.merge
    [] kind = "retry"   -> Resumable(r)

Command(p, t, kind) ==
  /\ At(p, "idle")
  /\ Accepts(kind, row[t])
  /\ Spend(kind)
  /\ LET pc == IF kind = "discard" /\ Listed(t) THEN "cancel" ELSE kind
     IN  Become(p, [Reading(t) EXCEPT !.pc = pc, !.job = kind])
  /\ UNCHANGED <<row, ver, world>>

Retry(p) ==
  /\ At(p, "retry")
  /\ Due(p, RetryMove(proc[p].seen))
  /\ UNCHANGED <<row, ver, left, world>>

(* SetHold: an update, with no compare-and-set.                            *)
SetHold(p) ==
  /\ proc[p].pc \in {"hold", "release"}
  /\ LET t == proc[p].task
     IN  row' = IF row[t].phase = "absent" THEN row
                ELSE [row EXCEPT ![t].hold = proc[p].pc = "hold"]
  /\ End(p)
  /\ UNCHANGED <<ver, left, world>>

Finish(p) ==
  /\ At(p, "finish")
  /\ LET t == proc[p].task
     IN  \/ Listed(t) /\ Claim(p, "finishing")
         \/ ~Listed(t) /\ End(p)
         \/ Missed(p)
  /\ UNCHANGED <<row, ver, left, world>>

(* inspect: an in-place task left nothing of csquad's; of another, commits *)
(* that are not in the target.                                             *)
Unmerged(t, r) == ~r.inPlace /\ work[t] = "open"

(* Nothing is removed while the session works, cannot be observed, or the  *)
(* work is unmerged.                                                       *)
Finishing(p) ==
  /\ At(p, "finishing")
  /\ LET t == proc[p].task
         refused == session[t] \in {"working", "needs_input"} \/ Unmerged(t, proc[p].seen)
     IN  \/ refused /\ End(p) /\ UNCHANGED left
         \/ /\ ~refused
            /\ Become(p, [proc[p] EXCEPT !.pc = IF proc[p].seen.inPlace THEN "remove" ELSE "clean",
                                         !.move = Stay([proc[p].seen EXCEPT !.phase = "done"])])
            /\ UNCHANGED left
         \/ Spend("fault") /\ End(p)
  /\ UNCHANGED <<row, ver, world>>

Cancelled(p) == [proc[p] EXCEPT !.move = Stay(To(proc[p].seen, "cancelled", "")), !.pc = "write"]

(* Mutant: the lock is not taken.                                          *)
Cancel_Unlocked(p) ==
  /\ At(p, "cancel")
  /\ Become(p, IF proc[p].seen.session THEN [proc[p] EXCEPT !.pc = "cancelStop"] ELSE Cancelled(p))
  /\ UNCHANGED <<row, ver, left, world>>

(* The lock, without reading again: a row read without a session is taken  *)
(* to have none.                                                           *)
Cancel(p) ==
  /\ At(p, "cancel")
  /\ LET lock == TaskLock(proc[p].task)
     IN  \/ /\ CanTake(lock)
            /\ proc' = [proc EXCEPT ![p] =
                 [(IF proc[p].seen.session THEN [proc[p] EXCEPT !.pc = "cancelStop"] ELSE Cancelled(p))
                    EXCEPT !.locks = {lock}]]
         \/ Missed(p)
  /\ UNCHANGED <<row, ver, left, world>>

(* The engine interrupts a turn and drops what waits for it; of the two    *)
(* engines one stops an idle session too.  No other session is stopped.    *)
Interrupted(state) == {"stopped"} \union ({state} \intersect {"idle"})

Interrupt(t) ==
  IF session[t] \in {"working", "needs_input", "idle"}
  THEN /\ \E s \in Interrupted(session[t]) : session' = [session EXCEPT ![t] = s]
       /\ inbox' = [inbox EXCEPT ![t] = FALSE]
  ELSE UNCHANGED <<session, inbox>>

(* The session is stopped; that it could not be is only told, that it      *)
(* cannot be observed ends the command.                                    *)
CancelStop(p) ==
  /\ At(p, "cancelStop")
  /\ LET t == proc[p].task
     IN  \/ /\ Interrupt(t)
            /\ Become(p, [proc[p] EXCEPT !.pc = "cancelling"])
            /\ UNCHANGED left
         \/ /\ Spend("fault")
            /\ Become(p, [proc[p] EXCEPT !.pc = "cancelling"]) \/ End(p)
            /\ UNCHANGED <<session, inbox>>
  /\ UNCHANGED <<row, ver, work, verdicts, spawned, stops, reply, changed>>

(* The row again; work that is not merged is kept, unless it is to be      *)
(* discarded.                                                              *)
Cancelling(p) ==
  /\ At(p, "cancelling")
  /\ LET t == proc[p].task
         kept == Unmerged(t, row[t]) /\ proc[p].job # "discard"
         read == [proc[p] EXCEPT !.seen = row[t], !.ver = ver[t],
                                 !.move = Stay(To(row[t], "cancelled", ""))]
     IN  \/ ~Listed(t) /\ End(p)
         \/ Listed(t) /\ kept /\ Become(p, [read EXCEPT !.pc = "write"])
         \/ Listed(t) /\ ~kept /\ Become(p, [read EXCEPT !.pc = "clean"])
  /\ UNCHANGED <<row, ver, left, world>>

(* cancel --discard of a cancelled task deletes what the cancel kept; the  *)
(* row is not read again.                                                  *)
Discard(p) ==
  /\ At(p, "discard")
  /\ LET lock == TaskLock(proc[p].task)
     IN  \/ CanTake(lock) /\ Become(p, [proc[p] EXCEPT !.pc = "discarding", !.locks = {lock}])
         \/ Missed(p)
  /\ UNCHANGED <<row, ver, left, world>>

Discarding(p) ==
  /\ At(p, "discarding")
  /\ LET t == proc[p].task
         clean == Become(p, [proc[p] EXCEPT !.pc = "clean"])
     IN  \/ proc[p].seen.session /\ Interrupt(t) /\ clean /\ UNCHANGED left
         \/ ~proc[p].seen.session /\ clean /\ UNCHANGED <<session, inbox, left>>
         \/ Spend("fault") /\ (clean \/ End(p)) /\ UNCHANGED <<session, inbox>>
  /\ UNCHANGED <<row, ver, work, verdicts, spawned, stops, reply, changed>>

(* clearGone: a running task whose session is gone and of which no branch  *)
(* is left leaves the list, from the row as it was listed.                 *)
ClearGone(p) ==
  /\ At(p, "clear")
  /\ LET t == proc[p].task
         empty == proc[p].live = "gone" /\ work[t] = "none"
     IN  \/ /\ empty /\ CanTake(TaskLock(t))
            /\ Become(p, [Cancelled(p) EXCEPT !.locks = {TaskLock(t)}, !.live = "unknown"])
         \/ empty /\ Missed(p)
         \/ ~empty /\ End(p)
  /\ UNCHANGED <<row, ver, left, world>>

---------------------------------------------------------------------------
(* The workers and the people around them.                                 *)

(* A turn ends, runs its Stop hook, and leaves an answer; while the        *)
(* worktree is there it leaves commits too.                                *)
TurnEnds(t) ==
  /\ session[t] = "working"
  /\ session' = [session EXCEPT ![t] = "idle"]
  /\ reply' = [reply EXCEPT ![t] = ver[t]]
  /\ changed' = [changed EXCEPT ![t] = TRUE]
  /\ work' = [work EXCEPT ![t] = IF @ = "none" THEN "none" ELSE "open"]
  /\ stops' = stops \union {[task |-> t, ver |-> ver[t]]}
  /\ UNCHANGED <<row, ver, proc, inbox, verdicts, spawned, left>>

(* A message also starts a session again that was stopped.                 *)
PicksUp(t) ==
  /\ inbox[t]
  /\ session[t] \in {"idle", "working", "needs_input", "stopped"}
  /\ session' = [session EXCEPT ![t] = "working"]
  /\ inbox' = [inbox EXCEPT ![t] = FALSE]
  /\ UNCHANGED <<row, ver, proc, work, verdicts, spawned, stops, reply, changed, left>>

(* What happens to a session from outside: the user talks to it, it asks   *)
(* (and is answered), it breaks or is stopped, it is removed.              *)
Outside(t) ==
  /\ \/ Spend("talk") /\ session[t] \in {"idle", "failed", "stopped"} /\ session' = [session EXCEPT ![t] = "working"]
     \/ Spend("ask") /\ session[t] = "working" /\ session' = [session EXCEPT ![t] = "needs_input"]
     \/ UNCHANGED left /\ session[t] = "needs_input" /\ session' = [session EXCEPT ![t] = "working"]
     \/ /\ Spend("break") /\ session[t] = "working"
        /\ \E s \in {"failed", "stopped"} : session' = [session EXCEPT ![t] = s]
     \/ Spend("remove") /\ session[t] \notin {"none", "gone"} /\ session' = [session EXCEPT ![t] = "gone"]
  /\ UNCHANGED <<row, ver, proc, inbox, work, verdicts, spawned, stops, reply, changed>>

(* The user merges the branch himself.                                     *)
UserMerges(t) ==
  /\ Spend("merge")
  /\ work[t] = "open"
  /\ work' = [work EXCEPT ![t] = "merged"]
  /\ UNCHANGED <<row, ver, proc, session, inbox, verdicts, spawned, stops, reply, changed>>

(* A process is killed; a spawned one may never begin.                     *)
Crash(p) ==
  /\ ~At(p, "idle")
  /\ Spend("crash")
  /\ End(p)
  /\ UNCHANGED <<row, ver, world>>

LoseSpawn(t) ==
  /\ t \in spawned
  /\ Spend("crash")
  /\ spawned' = spawned \ {t}
  /\ UNCHANGED <<row, ver, proc, session, inbox, work, verdicts, stops, reply, changed>>

---------------------------------------------------------------------------
Pass(p) == (\E t \in Tasks : List(p, t) \/ Show(p, t)) \/ StoppedLate(p) \/ Look(p) \/ Decide(p) \/ Write(p)

Effect(p) ==
  \/ SpawnCheck(p) \/ Send(p)
  \/ StartQueued(p) \/ Starting(p) \/ Record(p)
  \/ Land(p) \/ Landing(p) \/ Clean(p) \/ Remove(p)

Checker(p) == CheckClaim(p) \/ CheckRun(p) \/ CheckApply(p)

User(p) ==
  \/ \E a \in left.launches : Parse(p, a)
  \/ Insert(p) \/ Queue(p) \/ LaunchLock(p) \/ LaunchStart(p) \/ Delete(p)
  \/ \E t \in Tasks, kind \in {"finish", "cancel", "discard", "hold", "release", "retry"} :
       Command(p, t, kind)
  \/ Retry(p) \/ SetHold(p)
  \/ Finish(p) \/ Finishing(p)
  \/ Cancel(p) \/ CancelStop(p) \/ Cancelling(p)
  \/ Discard(p) \/ Discarding(p)
  \/ ClearGone(p)

World ==
  \/ \E t \in Tasks : TurnEnds(t) \/ PicksUp(t) \/ Outside(t) \/ UserMerges(t) \/ LoseSpawn(t)
  \/ \E hook \in stops : LoseStop(hook)

Next ==
  \/ \E p \in Procs :
       \/ Pass(p) \/ Effect(p) \/ Checker(p) \/ User(p) \/ Crash(p)
       \/ \E t \in Tasks : Stopped(p, t) \/ Check(p, t)
  \/ World

Spec == Init /\ [][Next]_vars

---------------------------------------------------------------------------
(* Properties.                                                             *)

Pcs == {"idle", "stopped", "look", "decide", "write", "check", "send", "start", "starting",
        "record", "land", "landing", "clean", "remove", "checkLock", "checkRun", "checkApply",
        "insert", "queue", "launchLock", "launchStart", "delete", "finish", "cancel", "discard", "hold",
        "release", "retry", "finishing", "cancelStop", "cancelling", "discarding", "clear"}

TypeOK ==
  /\ row \in [Tasks -> Rows(Tasks)]
  /\ ver \in [Tasks -> Nat]
  /\ session \in [Tasks -> LiveStates \union {"none"}]
  /\ inbox \in [Tasks -> BOOLEAN]
  /\ work \in [Tasks -> {"none", "open", "merged"}]
  /\ spawned \subseteq Tasks /\ stops \subseteq [task : Tasks, ver : Nat]
  /\ reply \in [Tasks -> Nat]
  /\ changed \in [Tasks -> BOOLEAN]
  /\ \A p \in Procs : proc[p].pc \in Pcs /\ proc[p].seen \in Rows(Tasks)

(* No process starts a session for a task that has one: of the processes   *)
(* that see a queued task ready, one starts it, once (startQueued).        *)
OneSession ==
  \A p \in Procs : proc[p].pc \in {"starting", "launchStart"} => session[proc[p].task] = "none"

(* A task queued after others has a session only when they are all done,   *)
(* whatever was cancelled, finished or withdrawn between the reading of    *)
(* the dependencies and the start.                                         *)
StartsAfterDependencies ==
  \A t \in Tasks : row[t].phase # "absent" /\ session[t] # "none"
                   => \A d \in row[t].after : row[d].phase = "done"

(* A cancelled task's worker is stopped: its session never works.          *)
CancelledIsStopped ==
  \A t \in Tasks : row[t].phase = "cancelled" => session[t] # "working"

(* p fast-forwards t's branch into the target in this step.                *)
FastForwards(p, t) ==
  At(p, "landing") /\ proc[p].task = t /\ work[t] = "open" /\ proc'[p].pc = "clean"

(* csquad merges a branch only while its task is merging: nothing takes a  *)
(* row out of merging while the process that claimed it lands it.          *)
MergesMerging ==
  [][\A t \in Tasks : (\E p \in Procs : FastForwards(p, t)) => row[t].phase = "merging"]_vars

(* A held task is not merged for the tasks queued after it.                *)
HeldNotMerged ==
  [][\A t \in Tasks : (\E p \in Procs : FastForwards(p, t)) => ~row[t].hold]_vars

(* A done task has no unmerged work left, whoever made it done and         *)
(* whatever its worker did meanwhile.                                      *)
DoneIsClean ==
  \A t \in Tasks : row[t].phase = "done" => row[t].inPlace \/ work[t] # "open"

(* Work that was removed is accounted for: the row is done or cancelled,   *)
(* or the process that removed it, and still holds the task's lock, is     *)
(* about to say so.  The cleanup and the write are separate steps.         *)
RemovedIsFinished ==
  \A t \in Tasks :
    row[t].session /\ ~row[t].inPlace /\ work[t] = "none"
    => \/ Finished(row[t].phase)
       \/ \E p \in Procs : proc[p].pc \in {"remove", "write"} /\ TaskLock(t) \in proc[p].locks

---------------------------------------------------------------------------
(* Liveness.  A process that is not killed goes on; passes keep coming     *)
(* (the status line, csquad wait) and sooner or later find Settle and      *)
(* Grace passed; a spawned check begins; a lock that is only probed is not *)
(* missed for ever; a worker takes its messages and ends its turns.        *)

Going(p) ==
  \/ Look(p) \/ Decide(p) \/ Write(p) \/ Effect(p) \/ Checker(p) \/ StoppedLate(p)
  \/ Insert(p) \/ Queue(p) \/ LaunchLock(p) \/ LaunchStart(p) \/ Delete(p)
  \/ \E t \in Tasks : At(p, "stopped") /\ List(p, t)

(* A pass over t that finds Settle and Grace passed.                       *)
LateDecide(p, t) ==
  /\ At(p, "decide")
  /\ proc[p].task = t
  /\ Due(p, NextMove(proc[p].seen, Observation(p, TRUE)))
  /\ UNCHANGED <<row, ver, left, world>>

(* A spawned check begins, or an effect finds the task's lock free.        *)
Claims(p, t) ==
  \/ Check(p, t)
  \/ Land(p) /\ proc[p].task = t /\ proc'[p].pc = "landing"
  \/ StartQueued(p) /\ proc[p].task = t /\ proc'[p].pc = "starting"

Fairness ==
  /\ \A p \in Procs : WF_vars(Going(p))
  /\ \A t \in Tasks :
       /\ SF_vars(\E p \in Procs : List(p, t))
       /\ SF_vars(\E p \in Procs : LateDecide(p, t))
       /\ SF_vars(\E p \in Procs : Claims(p, t))
       /\ WF_vars(TurnEnds(t) \/ PicksUp(t))

FairSpec == Spec /\ Fairness

(* csquad itself, neither the worker nor the user, has to do the next step. *)
CsquadsTurn(t) ==
  \/ row[t].phase = "checking"
  \/ row[t].phase = "merging" /\ row[t].step = ""
  \/ row[t].phase = "waiting" /\ \A d \in row[t].after : row[d].phase = "done"
  \/ row[t].phase = "running" /\ ~row[t].session /\ row[t].after # {}

(* What csquad does by itself comes to an end, also when the process that  *)
(* ran the check, that was to start it, that started the queued session or *)
(* that landed the merge died on the way: another one carries on, or the   *)
(* task is handed to its worker or to the user.                            *)
OwnStepsEnd == \A t \in Tasks : CsquadsTurn(t) ~> ~CsquadsTurn(t)
=============================================================================
