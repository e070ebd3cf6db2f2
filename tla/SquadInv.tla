------------------------------ MODULE SquadInv ------------------------------
(***************************************************************************)
(* What Squad keeps true, as the proofs of SquadProofs need it: what a     *)
(* process may assume of what it read and of what it is about to write,    *)
(* whatever happened since, and what of rows, sessions, branches and locks *)
(* goes together.  What Squad and SquadRow state of a run follows from it. *)
(* With it are the conditions (NoneWithdrawn, NoneRequeued, HeldBefore,    *)
(* NoneGivenUp, SeenThrough, Undisturbed) under which some of it holds.    *)
(***************************************************************************)
EXTENDS SquadRow

---------------------------------------------------------------------------
(* Several tasks.  Local is what a process knows; Onward how one of its    *)
(* steps takes it to another point while the table stays as it is.         *)

(* The points at which a process works on a task of the table.             *)
Working == Pcs \ {"idle", "stopped", "insert"}

(* ... that was not finished when it was read.                             *)
Open == {"look", "decide", "write", "check", "send", "start", "starting", "land", "landing",
         "checkLock", "checkRun", "checkApply", "retry", "cancel", "cancelStop", "cancelling",
         "finishing", "clear"}

(* A process that is to start a session.                                   *)
Starters == {"start", "starting", "launchLock", "launchStart"}

Commands == {"finish", "cancel", "discard", "hold", "release", "retry"}
Jobs == Commands \union {"", "pass", "show", "check", "launch", "starting", "landing", "finishing"}
Moves == [next : Rows(Tasks), effect : Effects]
Locks == {"task", "check"} \X Nat \X Nat
Calls == [pc : Pcs, job : Jobs, task : Tasks \union {0}, seen : Rows(Tasks), ver : Nat,
          live : LiveStates \union {"none", "unknown"}, at : Nat, move : Moves, locks : SUBSET Locks]

(* A row that got past its worker's first turn, ...                        *)
Advanced(r) ==
  \/ r.phase \in {"checking", "fixing", "merging", "ready"}
  \/ r.phase = "needs_you" /\ r.step \in {"check", "round", "merge"}

(* ... one that merges, or does when it is retried.                        *)
Merging(r) == r.phase = "merging" \/ (r.phase = "needs_you" /\ r.step = "merge")

(* What was asked for at launch does not change.                           *)
SameLaunch(n, r) == n.after = r.after /\ n.check = r.check /\ n.merge = r.merge /\ n.inPlace = r.inPlace

(* A move that changes a row r that is not finished.                       *)
Sound(r, m) ==
  /\ m \in Moves /\ SameLaunch(m.next, r) /\ m.next.session = r.session /\ m.next.hold = r.hold
  /\ r.phase \in Unfinished /\ m.next.phase # "absent"
  /\ m.next.phase = "waiting" => r.phase = "needs_you" /\ r.step = "waiting"
  /\ m.effect = "start" => r.phase = "waiting" /\ m.next.phase = "running"
  /\ m.effect = "check" => m.next.phase = "checking"
  /\ m.effect = "send" => m.next.phase \in {"fixing", "merging"}
  /\ m.effect = "land" => m.next.phase = "merging"
  /\ Advanced(m.next) => Advanced(r) \/ r.session
  /\ Merging(m.next) => Merging(r) \/ r.merge \/ ~r.hold

Local(c) ==
  /\ c \in Calls
  /\ c.pc \notin {"idle", "insert"} => c.task \in Tasks
  /\ c.pc \in Open => c.seen.phase \in Unfinished
  /\ c.pc = "insert" => c.seen.phase = "absent" /\ c.seen.step = "" /\ ~c.seen.session /\ (c.seen.merge => ~c.seen.hold)
  /\ c.pc = "write" => Sound(c.seen, c.move)
  /\ c.pc \in {"clean", "remove"} =>
       \/ c.move = Idle.move /\ c.job # "landing" /\ c.seen.phase = "cancelled"
       \/ Sound(c.seen, c.move) /\ c.move.effect = "none" /\ c.move.next.phase \in {"done", "cancelled"}
  /\ c.pc \in {"check", "checkRun", "checkApply"} => c.seen.phase = "checking"
  /\ c.pc = "landing" \/ (c.pc = "clean" /\ c.job = "landing") => c.seen.phase = "merging"
  /\ c.pc \in {"cancel", "cancelStop", "cancelling", "discard", "discarding", "finishing"} => c.job # "landing"
  /\ c.pc \in {"discard", "discarding"} => c.move = Idle.move /\ c.seen.phase = "cancelled"
  /\ c.pc = "retry" => Resumable(c.seen)
  /\ c.pc = "hold" => ~c.seen.merge

VerdictFiles == [task : Tasks, round : Nat, for : Nat, kind : {"pass", "fail", "error"}, count : Nat]

WorldOK ==
  /\ session \in [Tasks -> LiveStates \union {"none"}]
  /\ inbox \in [Tasks -> BOOLEAN]
  /\ work \in [Tasks -> {"none", "open", "merged"}]
  /\ verdicts \subseteq VerdictFiles
  /\ spawned \subseteq Tasks /\ stops \subseteq [task : Tasks, ver : Nat]
  /\ reply \in [Tasks -> Nat] /\ changed \in [Tasks -> BOOLEAN]

Typed ==
  /\ row \in [Tasks -> Rows(Tasks)] /\ ver \in [Tasks -> Nat]
  /\ left \in [launches : SUBSET Launches, may : [Kinds -> Nat]]
  /\ WorldOK
  /\ proc = [p \in Procs |-> proc[p]] /\ \A p \in Procs : Local(proc[p])

---------------------------------------------------------------------------
(* How a process goes on while the table stays as it is: it works on       *)
(* nothing, ...                                                            *)
Rests(d) == d.pc \notin Working

(* ... it reads a row of the table, ...                                    *)
Reads(c, d) ==
  /\ d.pc \in Working /\ row[d.task].phase # "absent" /\ d.seen = row[d.task]
  /\ d.pc \in Starters => d.pc = "starting" /\ c.pc = "start" /\ c.task = d.task
  /\ d.pc = "finish" => d.seen.session
  /\ d.pc = "finishing" => c.pc = "finish" /\ c.task = d.task
  /\ d.pc \notin {"record", "remove"}
  /\ d.pc \in {"write", "clean"} => d.move.next.phase = "cancelled" /\ d.move.effect = "none"

(* ... or it works on from the row it has.  Only a process that lands or   *)
(* finishes makes a task done, and its branch is removed first.            *)
WorksOn(c, d) ==
  /\ c.pc \in Working /\ d.pc \in Working /\ d.task = c.task /\ d.seen = c.seen
  /\ d.pc \in Starters => c.pc \in Starters
  /\ d.pc \notin {"record", "finish", "finishing", "landing"}
  /\ d.pc = "write" /\ d.move.effect = "start" => \A u \in c.seen.after : row[u].phase = "done"
  /\ d.pc \in {"write", "clean", "remove"} /\ d.move.next.phase = "done" =>
       \/ c.pc \in {"landing", "finishing"} /\ d.pc # "write" /\ (d.pc = "remove" => c.seen.inPlace)
       \/ c.pc = "clean" /\ d.pc = "remove" /\ d.move = c.move /\ work'[c.task] = "none"
       \/ c.pc = "remove" /\ d.pc = "write" /\ d.move = c.move

Onward(c, d) == Rests(d) \/ Reads(c, d) \/ WorksOn(c, d)

(* Sessions do not come to be, and removed work does not come back.        *)
NothingStarts ==
  /\ \A t \in Tasks : session'[t] = "none" <=> session[t] = "none"
  /\ \A t \in Tasks : work[t] = "none" => work'[t] = "none"

---------------------------------------------------------------------------
(* No launch is withdrawn.                                                 *)
NoneWithdrawn == \A p \in Procs : proc[p].pc # "delete"

(* No task whose start failed, or was given up on, is queued again (only a *)
(* retry writes that a task waits).                                        *)
NoneRequeued == \A p \in Procs : proc[p].pc = "write" => proc[p].move.next.phase # "waiting"

(* No task that merges is held: a hold comes before.                       *)
HeldBefore ==
  \A p \in Procs : proc[p].pc = "hold" =>
    /\ ~Merging(row[proc[p].task])
    /\ \A q \in Procs : proc[q].pc = "landing" => proc[q].task # proc[p].task

(* t has no branch, and no launch is about to make one.                    *)
Bare(t) ==
  /\ work[t] = "none"
  /\ \A p \in Procs : proc[p].pc \in {"launchLock", "launchStart"} => proc[p].task # t

(* No pass gives up a merge, its session failed or gone, while another     *)
(* process lands a branch.                                                 *)
NoneGivenUp ==
  \A p \in Procs : proc[p].pc = "write" /\ proc[p].job = "pass" /\ proc[p].seen.phase = "merging" =>
    \/ proc[p].move.next.phase = "merging"
    \/ Bare(proc[p].task)
    \/ \A q \in Procs : proc[q].pc = "landing" => proc[q].task # proc[p].task

Ready(t) == row[t].phase # "absent" /\ \A u \in row[t].after : row[u].phase = "done"

RowOK(t) ==
  /\ row[t].merge => ~row[t].hold
  /\ Advanced(row[t]) \/ row[t].phase = "done" => row[t].session
  /\ row[t].session => session[t] # "none"
  /\ session[t] # "none" => Ready(t)

(* What a process saw is still so in these respects.                       *)
Tied(c) ==
  c.pc \in Working =>
    /\ row[c.task].phase # "absent" /\ SameLaunch(c.seen, row[c.task])
    /\ c.seen.session => row[c.task].session
    /\ c.seen.phase = "cancelled" => row[c.task].phase = "cancelled"
    /\ c.seen.merge => ~c.seen.hold
    /\ Advanced(c.seen) => c.seen.session
    /\ c.pc \in {"finish", "finishing"} => c.seen.session
    /\ c.pc \in {"write", "clean", "remove"} /\ c.move.next.phase = "done" => c.seen.session
    /\ c.pc = "record" => session[c.task] # "none"
    /\ c.pc \in Starters \/ (c.pc = "write" /\ c.move.effect = "start") => Ready(c.task)

Ordered == Typed /\ (\A t \in Tasks : RowOK(t)) /\ \A p \in Procs : Tied(proc[p])

(* One process starts the session of a task, and nothing else does.        *)
Single ==
  /\ \A p \in Procs : proc[p].pc \in Starters =>
       /\ session[proc[p].task] = "none" /\ row[proc[p].task].phase # "waiting"
       /\ \A q \in Procs : proc[q].pc \in Starters /\ proc[q].task = proc[p].task => q = p
  /\ \A t \in Tasks : session[t] # "none" => row[t].phase # "waiting"

Removed(t) == row[t].inPlace \/ work[t] = "none"

Cleared ==
  /\ \A t \in Tasks : row[t].phase = "done" => Removed(t)
  /\ \A p \in Procs : proc[p].pc \in {"write", "remove"} /\ proc[p].move.next.phase = "done" => Removed(proc[p].task)

Apart ==
  /\ \A t \in Tasks : Merging(row[t]) => ~row[t].hold
  /\ \A p \in Procs : proc[p].pc \in Working /\ Merging(proc[p].seen) => ~proc[p].seen.hold
  /\ \A p \in Procs : proc[p].pc = "landing" => ~row[proc[p].task].hold

(* Rows, done rows and recorded sessions stay, and so do sessions.         *)
Grows ==
  /\ \A t \in Tasks : row[t].phase # "absent" =>
       /\ row'[t].phase # "absent" /\ SameLaunch(row'[t], row[t])
       /\ row[t].session => row'[t].session
       /\ row[t].phase \in {"done", "cancelled"} => row'[t].phase = row[t].phase
  /\ \A t \in Tasks : session[t] # "none" => session'[t] # "none"

---------------------------------------------------------------------------
(* Locks.                                                                  *)

(* Who takes a task out of merging holds its lock, unless it is a pass.    *)
Guarded(c) ==
  /\ c.pc \in {"starting", "landing", "clean", "remove", "finishing", "cancelStop", "cancelling", "discarding"}
       => TaskLock(c.task) \in c.locks
  /\ c.pc \in {"write", "send"} /\ c.seen.phase = "merging" /\ c.job # "pass" => TaskLock(c.task) \in c.locks
  /\ c.pc = "write" /\ c.job # "pass" /\ c.move.effect = "send" /\ c.move.next.phase = "merging"
       => c.seen.phase = "merging"
  /\ c.pc = "look" => c.job \in {"pass", "show"}
  /\ c.pc = "decide" => c.job = "pass"

(* A lock is one process's, and one lands what merges or has no branch.    *)
Alone ==
  /\ \A p \in Procs : Guarded(proc[p])
  /\ \A p \in Procs : \A q \in Procs \ {p} : \A l \in proc[p].locks : l \notin proc[q].locks
  /\ \A p \in Procs : proc[p].pc = "landing" => row[proc[p].task].phase = "merging" \/ Bare(proc[p].task)

---------------------------------------------------------------------------
(* Removed work.                                                           *)

(* c removed the work of its task, and is to write that the task is over.  *)
Closes(c) ==
  /\ c.pc \in {"remove", "write"} /\ c.move.next.phase \in {"done", "cancelled"}
  /\ TaskLock(c.task) \in c.locks

(* Who closes a task is not killed before it writes so, and nobody writes  *)
(* the row meanwhile: no pass gives up a merge, no hold is set.            *)
SeenThrough == \A p \in Procs : Closes(proc[p]) => ~Crash(p) /\ (Write(p) => Wins(p))

(* The work of t was removed.                                              *)
Gone(t) == session[t] # "none" /\ ~row[t].inPlace /\ work[t] = "none"

Accounted ==
  \A t \in Tasks : Gone(t) => \/ row[t].phase \in {"done", "cancelled"}
                              \/ \E p \in Procs : proc[p].task = t /\ Closes(proc[p])

---------------------------------------------------------------------------
(* The row of one task, Me: records, and moves of the flow.                *)

RowShape(r) ==
  r \in [phase : {r.phase}, step : {r.step}, round : {r.round}, max : {r.max},
         last : {r.last}, blocking : {r.blocking}, session : {r.session}, hold : {r.hold},
         after : {r.after}, check : {r.check}, merge : {r.merge}, inPlace : {r.inPlace}]

Shaped(d) ==
  d \in [pc : {d.pc}, job : {d.job}, task : {d.task}, seen : {d.seen}, ver : {d.ver},
         live : {d.live}, at : {d.at}, move : {d.move}, locks : {d.locks}]

(* A task that waits, or is handed back for it, waits for something.       *)
Waits(r) ==
  r.phase = "waiting" \/ (r.phase = "needs_you" /\ r.step = "waiting") => r.after # {}

(* What the effect of a move needs of the row it runs for.                 *)
Suits(effect, r) ==
  /\ effect = "check" => r.phase = "checking"
  /\ effect = "send" => r.phase = "fixing" \/ (r.phase = "merging" /\ r.step = "asked")
  /\ effect = "start" => r.phase = "running" /\ r.after # {}

(* A move of a row: it keeps the fields Transition does not write, and     *)
(* changes the phase or the step if it changes anything.                   *)
Fit(r, m) ==
  /\ RowShape(m.next)
  /\ m.next.session = r.session /\ m.next.hold = r.hold /\ m.next.after = r.after
  /\ m.next.phase # "absent"
  /\ Waits(m.next)
  /\ m.effect \in Effects
  /\ IF m.next = r THEN m.effect \in {"none", "land"}
     ELSE /\ Suits(m.effect, m.next)
          /\ m.next.phase # r.phase \/ m.next.step # r.step

Moved(r, u) ==
  \/ \E o \in Row!Observations(r) : u = NextMove(r, o).next
  \/ Resumable(r) /\ u = RetryMove(r).next
  \/ r.phase = "running" /\ r.after # {} /\ u = To(r, "needs_you", "waiting")
  \/ r.phase = "checking" /\ u = To(r, "needs_you", "check")
  \/ /\ r.phase = "fixing" \/ (r.phase = "merging" /\ r.step = "asked")
     /\ u = To(r, "needs_you", "")
  \/ r.phase \in Unfinished /\ u = [r EXCEPT !.phase = "done"]
  \/ r.phase \in Unfinished /\ u = To(r, "cancelled", "")

(* A move as a process keeps it until it writes it.                        *)
Legal(r, m) == Fit(r, m) /\ m.next # r /\ Moved(r, m.next)

Stored(r, u) == [u EXCEPT !.session = r.session, !.hold = r.hold]

VerdictsTyped ==
  \A v \in verdicts : v.kind \in {"pass", "fail", "error"} /\ v.count \in Counts \union {0, 1}

---------------------------------------------------------------------------
(* The processes that work on the task.                                    *)

(* What a process that is at pc knows of the row it read.                  *)
Placed(d) ==
  /\ d.pc \in {"look", "clear", "finishing", "cancel"} => d.seen.phase \in Unfinished
  /\ d.pc \in {"checkRun", "checkApply"} => d.seen.phase = "checking"
  /\ d.pc = "starting" => d.seen.phase = "running" /\ d.seen.after # {}
  /\ Suits(d.pc, d.seen)
  /\ d.pc = "landing" \/ (d.pc = "clean" /\ d.job = "landing") => d.seen.phase = "merging"
  /\ d.pc \in {"finishing", "cancel", "cancelStop", "cancelling", "discard", "discarding"}
     => d.job # "landing"
  /\ d.pc = "retry" => Resumable(d.seen)
  /\ d.pc \in {"discard", "discarding"} => d.move = Idle.move
  /\ d.pc = "write" => Legal(d.seen, d.move)
  /\ d.pc \in {"clean", "remove"} => d.move = Idle.move \/ Legal(d.seen, d.move)

(* A reading of a version differs from the row of that version in what     *)
(* does not move updated_at: a session recorded since, and the hold.       *)
Alike(seen, r) ==
  /\ seen = [r EXCEPT !.session = seen.session, !.hold = seen.hold]
  /\ seen.session => r.session

Current(d, r, v) ==
  /\ d.seen \in Rows(Tasks) /\ d.seen.phase # "absent" /\ Waits(d.seen)
  /\ d.ver \in Nat /\ d.ver <= v
  /\ d.ver = v /\ r.phase # "absent" => Alike(d.seen, r)

Sees(d, s) ==
  /\ d.live \in LiveStates \union {"unknown"}
  /\ d.pc \in {"look", "record"} => s # "none"

Asked(a) == [NoRow EXCEPT !.max = Rounds, !.after = a.after, !.check = a.check,
                          !.merge = a.merge, !.hold = a.hold, !.inPlace = a.inPlace]

OnMe(d) == d.task = Me /\ d.pc # "stopped"

(* A process, while the task's row, version and session are r, v and s.    *)
Good(d, r, v, s) ==
  /\ Shaped(d) /\ d.move.effect \in Effects
  /\ d.pc = "insert" => d.task = 0 /\ d.live = "unknown" /\ \E a \in Launches : d.seen = Asked(a)
  /\ OnMe(d) => Current(d, r, v) /\ Placed(d) /\ Sees(d, s)

SessionInv ==
  /\ session[Me] \in LiveStates \union {"none"}
  /\ row[Me].session => session[Me] # "none"

Shapes ==
  /\ row = [t \in Tasks |-> row[t]]
  /\ ver = [t \in Tasks |-> ver[t]]
  /\ session = [t \in Tasks |-> session[t]]
  /\ proc = [p \in Procs |-> proc[p]]
  /\ left \in [launches : SUBSET Launches, may : {left.may}]

---------------------------------------------------------------------------
(* The task's worker, while its work is checked.  Matches says what the    *)
(* phase of the row goes with, Dated that what is dated in a version is    *)
(* not of a later one, Sure what a process that read the row as it is      *)
(* knows of the worker.                                                    *)

Sending(d) == d.pc = "send" /\ d.task = Me

Unsent == \A p \in Procs : ~Sending(proc[p])

Turning == {"working", "needs_input"}

(* The worker rests and nothing is on its way to it, ...                   *)
AtEase == session[Me] \notin Turning \union {"none"} /\ ~inbox[Me] /\ Unsent

(* ... but for what p may be sending.                                      *)
EasedBy(p) == session[Me] \notin Turning \union {"none"} /\ ~inbox[Me] /\ \A q \in Procs \ {p} : ~Sending(proc[q])

(* The worker does not work again.                                         *)
Broken == session[Me] \in {"failed", "gone"}

(* The worker did what it was asked, ...                                   *)
Rested(r) ==
  \/ r.phase \in {"checking", "ready"}
  \/ r.phase = "merging" /\ r.step # "asked"
  \/ r.phase = "needs_you" /\ r.step \notin {"", "waiting"}

(* ... is lost or could not be told, ...                                   *)
GivenUp(r) == r.phase = "failed" \/ (r.phase = "needs_you" /\ r.step = "")

(* ... is asked for something, ...                                         *)
Asking(r) == r.phase = "fixing" \/ (r.phase = "merging" /\ r.step = "asked")

(* ... or is on what it was launched with.                                 *)
Early(r) == r.phase \in {"absent", "waiting", "running"} \/ (r.phase = "needs_you" /\ r.step = "waiting")

(* Something says that a turn ended in this version of the row.            *)
Answered ==
  \/ reply[Me] >= ver[Me]
  \/ \E h \in stops : h.task = Me /\ h.ver >= ver[Me]
  \/ \E p \in Procs : proc[p].task = Me /\ proc[p].at >= ver[Me]

(* The one message is with its sender, on its way, or taken.               *)
OneMessage ==
  /\ session[Me] # "none"
  /\ inbox[Me] => session[Me] \notin Turning /\ Unsent
  /\ session[Me] \in Turning => Unsent
  /\ \A p, q \in Procs : Sending(proc[p]) /\ Sending(proc[q]) => p = q

Matches(r) ==
  /\ Rested(r) => AtEase
  /\ GivenUp(r) => Broken \/ AtEase
  /\ Early(r) => ~inbox[Me] /\ Unsent
  /\ Asking(r) => OneMessage /\ (Answered => AtEase)

Dated ==
  /\ row[Me].phase # "absent" => ver[Me] >= 1
  /\ reply[Me] <= ver[Me]
  /\ \A h \in stops : h.task = Me => h.ver <= ver[Me]
  /\ \A v \in verdicts : v.task = Me => v.for <= ver[Me]
  /\ \A p \in Procs : proc[p].task = Me => proc[p].at <= ver[Me]
  /\ \A p \in Procs : proc[p].pc \in {"idle", "insert"} => proc[p].at = 0

(* A move from r to n, when ease says that the worker rests, broken that   *)
(* it is, and same that it did not work since its work was given to a      *)
(* check.                                                                  *)
Suited(r, n, ease, broken, same) ==
  /\ Rested(n) \/ Asking(n) => ease
  /\ GivenUp(n) => broken \/ ease
  /\ Early(n) => Early(r)
  /\ r.phase = "checking" /\ n.phase \in {"merging", "ready"} => same

(* What a process knows.                                                   *)
Sure(d, ease, broken, same) ==
  /\ d.pc = "decide" /\ d.live \in {"failed", "gone"} => broken
  /\ d.pc = "decide" /\ d.live \in {"idle", "done"} /\ d.seen.phase = "running" => ease
  /\ d.pc = "decide" /\ d.live = "working" => ~Rested(d.seen) /\ ~GivenUp(d.seen)
  /\ d.pc = "write" => Suited(d.seen, d.move.next, ease, broken, same)
  /\ d.pc \in {"land", "landing"} \/ (d.pc = "clean" /\ d.job = "landing") => ease
  /\ d.pc \in {"checkRun", "checkApply"} => same

(* A process that read the row as it is.                                   *)
Fresh(d) == OnMe(d) /\ d.ver = ver[Me] /\ row[Me].phase # "absent"

AtRestInv ==
  /\ Matches(row[Me])
  /\ Dated
  /\ row[Me].phase = "checking" => \A v \in verdicts : v.task = Me /\ v.for = ver[Me] => ~changed[Me]
  /\ \A p \in Procs : proc[p].pc = "look" => proc[p].live = "unknown"
  /\ \A p \in Procs : Fresh(proc[p]) => Sure(proc[p], AtEase, Broken, ~changed[Me])

Seeing(r, o, ease, broken, same) ==
  /\ Rested(r) => ease
  /\ o.observed /\ o.live \in {"failed", "gone"} => broken
  /\ AtRest(o) /\ (r.phase = "running" \/ (Asking(r) /\ (o.stopped \/ o.replied))) => ease
  /\ o.observed /\ o.live = "working" => ~Rested(r) /\ ~GivenUp(r)
  /\ r.phase = "checking" /\ o.verdict # NoVerdict => same
  /\ r.phase = "merging" /\ o.land # "none" => ease

Deals(r, m, ease, broken, same) ==
  /\ m.next # r => Suited(r, m.next, ease, broken, same)
  /\ m.next = r /\ m.effect = "land" => ease

(* Nobody talks to a worker but csquad, and no Stop hook is late: its      *)
(* csquad begins before the row moves on.                                  *)
Undisturbed == left.may["talk"] = 0 /\ left.may["late"] = 0
=============================================================================
