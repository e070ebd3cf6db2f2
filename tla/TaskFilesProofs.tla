-------------------------- MODULE TaskFilesProofs --------------------------
(* The lock of the first task of a number is exclusive while it is live,   *)
(* for any number of processes, files and withdrawn launches.  What the    *)
(* processes do with a task's settings leaves its lock to LockFile: what   *)
(* is proved of the lock holds here, and the lock keeps the settings its   *)
(* holder's.                                                               *)
EXTENDS TaskFiles, TLAPS

(* The processes that have nothing open, and those about to lock a file.   *)
Closeds == {"idle", "probes", "unlinks", "inserted", "listed"}
Openeds == {"opened", "discards", "probing", "launches"}

(* Before its launch a task has no file, and nobody means it.              *)
Unborn == row.gen = 0 =>
  /\ row.phase = "absent" /\ path = 0
  /\ \A p \in Procs : At(p, "idle") /\ opened[p] = 0

(* While the first of its number is live its file keeps its name: what is  *)
(* open is that file, and nobody is about to unlink it.                    *)
Named == First => \A p \in Procs : opened[p] \in {0, path} /\ proc[p].pc \notin {"finished", "unlinks"}

(* flock: a file has one holder, and who holds has it open.                *)
OneHolder == \A p, q \in held : opened[p] # 0 /\ (opened[p] = opened[q] => p = q)

Places == \A p \in Procs :
  /\ proc[p].pc \in Closeds => opened[p] = 0
  /\ proc[p].pc \in Openeds => opened[p] # 0
  /\ proc[p].pc \in {"locked", "works"} => p \in held
  /\ proc[p].pc = "discards" => row.phase = "over"

IInv == TypeOK /\ Unborn /\ Named /\ OneHolder /\ Places /\ OverIsLeft

(* What is open under a live name is one file, so flock gives it to one.   *)
LEMMA ExclusiveFollows == IInv => Exclusive
  BY DEF IInv, Exclusive, Named, OneHolder, TypeOK

(* At first nobody holds a lock.                                           *)
LEMMA InitIInv == Init => IInv
  BY NoInode, WithdrawalsAssumption DEF Init, IInv, TypeOK, Unborn, Named, OneHolder, Places, OverIsLeft, Live, At, Closeds, Openeds

(* Opening the name gives the file of the name, and a live task's name     *)
(* stands for the file everybody has.                                      *)
LEMMA OpenStep ==
  ASSUME IInv, NEW p \in Procs, Open(p), UNCHANGED <<row, held, left>>,
         proc[p].pc \in Closeds,
         NEW new \in [pc : Openeds, gen : Nat],
         proc' = [proc EXCEPT ![p] = new],
         row.gen # 0, new.pc = "discards" => row.phase = "over"
  PROVE  IInv'
<1> USE NoInode DEF IInv, TypeOK, Closeds, Openeds
<1>1. opened'[p] # 0 /\ opened'[p] = path' /\ path' \in Inodes
  BY DEF Open
<1>2. \A q \in Procs \ {p} : opened'[q] = opened[q] /\ proc'[q] = proc[q]
  BY DEF Open
<1>3. p \notin held
  BY DEF OneHolder, Places
<1>4. TypeOK'
  BY DEF Open
<1>5. Live /\ path # 0 => path' = path
  BY DEF Open
<1>6. Unborn'
  BY DEF Unborn
<1>7. Named'
  BY <1>1, <1>2, <1>5, <1>4 DEF Named, First, Live, Open
<1>8. OneHolder'
  BY <1>2, <1>3 DEF OneHolder
<1>9. Places'
  BY <1>1, <1>2, <1>4 DEF Places
<1>10. OverIsLeft'
  BY <1>2, <1>4 DEF OverIsLeft, At, Live, First, FirstOver
<1> QED
  BY <1>4, <1>6, <1>7, <1>8, <1>9, <1>10

(* Closing gives up the file and its lock.                                 *)
LEMMA CloseStep ==
  ASSUME IInv, NEW p \in Procs, Closed(p), Become(p, "idle"), UNCHANGED <<row, path, left>>
  PROVE  IInv'
  BY DEF IInv, TypeOK, Unborn, Named, OneHolder, Places, OverIsLeft, Closed, Become, At, Live, First, FirstOver,
         Closeds, Openeds

(* A lock is taken.                                                        *)
LEMMA LockStep ==
  ASSUME IInv, NEW p \in Procs, proc[p].pc \in Openeds, Lockable(p),
         held' = held \union {p}, NEW pc \in {"locked", "probed", "starts", "finished"}, Become(p, pc),
         pc = "finished" => ~Live,
         UNCHANGED <<row, path, opened, left>>
  PROVE  IInv'
<1> USE DEF IInv, TypeOK, Closeds, Openeds, Become
<1>1. TypeOK'
  BY DEF Places
<1>2. Unborn' /\ Named'
  BY DEF Unborn, Named, At, Live, First, FirstOver
<1>3. OneHolder'
  BY DEF OneHolder, Lockable, Places
<1>4. Places' /\ OverIsLeft'
  BY DEF Places, OverIsLeft, At, Live, First, FirstOver
<1> QED
  BY <1>1, <1>2, <1>3, <1>4

(* A step that only moves a process between places.                        *)
LEMMA MoveStep ==
  ASSUME IInv, NEW p \in Procs, NEW pc, Become(p, pc), UNCHANGED <<row, path, opened, held, left>>,
         \/ At(p, "idle") /\ row.gen # 0 /\ pc \in {"probes", "listed"}
         \/ At(p, "locked") /\ Live /\ pc = "works"
         \/ At(p, "listed") /\ pc = (IF Live THEN "idle" ELSE "unlinks")
  PROVE  IInv'
  BY DEF IInv, TypeOK, Unborn, Named, OneHolder, Places, OverIsLeft, Become, At, Live, First, FirstOver,
         Closeds, Openeds

(* The invariant is inductive.                                             *)
LEMMA NextIInv == IInv /\ [Next]_vars => IInv'
<1> SUFFICES ASSUME IInv, [Next]_vars PROVE IInv'
  OBVIOUS
<1>1. CASE UNCHANGED vars
  BY <1>1 DEF vars, IInv, TypeOK, Unborn, Named, OneHolder, Places, OverIsLeft, At, Live, First, FirstOver
<1>2. ASSUME NEW p \in Procs, Step(p) PROVE IInv'
  <2>0. TypeOK /\ (row.gen = 0 => row.phase = "absent" /\ At(p, "idle") /\ path = 0)
    BY DEF IInv, Unborn
  <2>1. CASE TryOpen(p)
    BY <2>0, <2>1, OpenStep DEF TryOpen, At, Live, First, FirstOver, Closeds, Openeds, TypeOK
  <2>16. CASE DiscardOpen(p)
    BY <2>0, <2>16, OpenStep DEF DiscardOpen, At, Closeds, Openeds, TypeOK
  <2>2. CASE TryLock(p)
    <3>1. At(p, "discards") => ~Live
      BY DEF IInv, Places, At, Live
    <3> QED
      BY <2>2, <3>1, LockStep DEF TryLock, At, Openeds
  <2>3. CASE TryFails(p) \/ HeldEnds(p) \/ Leave(p) \/ Launched(p) \/ Crash(p)
    BY <2>3, CloseStep DEF TryFails, HeldEnds, Leave, Launched, Crash
  <2>4. CASE HeldOpen(p) \/ PruneList(p)
    BY <2>0, <2>4, MoveStep DEF HeldOpen, PruneList
  <2>5. CASE HeldTry(p)
    <3>1. [proc[p] EXCEPT !.pc = "probing"] \in [pc : Openeds, gen : Nat]
      BY <2>0 DEF TypeOK, Openeds
    <3>2. proc' = [proc EXCEPT ![p] = [proc[p] EXCEPT !.pc = "probing"]]
      BY <2>5 DEF HeldTry, Become
    <3> QED
      BY <2>0, <2>5, <3>1, <3>2, OpenStep DEF HeldTry, At, Closeds
  <2>6. CASE HeldLock(p)
    BY <2>6, LockStep DEF HeldLock, At, Openeds
  <2>7. CASE Reread(p)
    BY <2>7, MoveStep DEF Reread
  <2>8. CASE Finish(p)
    <3>1. row.gen = 1 => \A q \in Procs : At(q, "works") => q = p
      BY <2>8, ExclusiveFollows DEF Finish, Exclusive, First, IInv, Places, At
    <3> QED
      BY <2>8, <3>1 DEF Finish, IInv, TypeOK, Unborn, Named, OneHolder, Places, OverIsLeft, Become, At,
                        Live, First, FirstOver, Closeds, Openeds
  <2>9. CASE Release(p)
    BY <2>9 DEF Release, IInv, TypeOK, Unborn, Named, OneHolder, Places, OverIsLeft, Become, At,
                Live, First, FirstOver, Closed, Closeds, Openeds
  <2>10. CASE Unlink(p)
    <3>1. ~First /\ ~First' /\ row.gen # 0
      BY <2>10, <2>0 DEF Unlink, IInv, Unborn, Named, First, Live, At
    <3>2. FirstOver' => FirstOver
      BY <2>10 DEF Unlink, FirstOver
    <3> QED
      BY <2>10, <3>1, <3>2 DEF Unlink, IInv, TypeOK, Unborn, Named, OneHolder, Places, OverIsLeft, Become, At,
                               Closeds, Openeds
  <2>11. CASE Launch(p)
    <3>1. /\ row' = [phase |-> "live", gen |-> row.gen + 1] /\ row.gen \in Nat
          /\ proc' = [proc EXCEPT ![p] = [pc |-> "inserted", gen |-> row.gen + 1]]
          /\ UNCHANGED <<path, opened, held, left>> /\ row.phase = "absent"
          /\ At(p, "idle")
      BY <2>11, <2>0 DEF Launch, TypeOK
    <3>2. TypeOK' /\ row'.gen # 0
      BY <3>1 DEF IInv, TypeOK
    <3>3. Unborn' /\ OverIsLeft' /\ OneHolder'
      BY <3>1, <3>2 DEF IInv, Unborn, OneHolder, OverIsLeft, FirstOver
    <3>4. Named'
      <4>1. CASE row.gen = 0
        BY <4>1, <3>1, <2>0 DEF IInv, Unborn, Named, At, TypeOK
      <4>2. CASE row.gen # 0
        BY <4>2, <3>1 DEF Named, First
      <4> QED
        BY <4>1, <4>2
    <3>5. Places'
      BY <3>1 DEF IInv, TypeOK, Places, At, Closeds, Openeds
    <3> QED
      BY <3>2, <3>3, <3>4, <3>5 DEF IInv
  <2>12. CASE LaunchOpen(p)
    <3>1. [proc[p] EXCEPT !.pc = "launches"] \in [pc : Openeds, gen : Nat]
      BY <2>0 DEF TypeOK, Openeds
    <3>2. proc' = [proc EXCEPT ![p] = [proc[p] EXCEPT !.pc = "launches"]]
      BY <2>12 DEF LaunchOpen, Become
    <3> QED
      BY <2>0, <2>12, <3>1, <3>2, OpenStep DEF LaunchOpen, At, Closeds
  <2>13. CASE LaunchLock(p)
    <3>1. CASE Lockable(p)
      BY <2>13, <3>1, LockStep DEF LaunchLock, At, Openeds
    <3>2. CASE ~Lockable(p)
      BY <2>13, <3>2 DEF LaunchLock, IInv, TypeOK, Unborn, Named, OneHolder, Places, OverIsLeft, Become, At,
                 Live, First, FirstOver, Closed, Closeds, Openeds
    <3> QED
      BY <3>1, <3>2
  <2>14. CASE Withdraw(p)
    BY <2>14 DEF Withdraw, IInv, TypeOK, Unborn, Named, OneHolder, Places, OverIsLeft, Become, At,
                 Live, First, FirstOver, Closed, Closeds, Openeds
  <2>15. CASE PruneRead(p)
    BY <2>15, MoveStep DEF PruneRead
  <2> QED
    BY <1>2, <2>1, <2>2, <2>3, <2>4, <2>5, <2>6, <2>7, <2>8, <2>9, <2>10, <2>11, <2>12, <2>13, <2>14, <2>15, <2>16
       DEF Step
<1> QED
  BY <1>1, <1>2 DEF Next

(* The lock of the first live task of a number has one holder, however its *)
(* files are unlinked and created again.                                   *)
THEOREM LockIsExclusive == Spec => []Exclusive
  BY InitIInv, NextIInv, ExclusiveFollows, PTL DEF Spec

(* Nobody works on the first task of a number once it is over.             *)
THEOREM OverTasksAreLeft == Spec => []OverIsLeft
<1>1. IInv => OverIsLeft
  BY DEF IInv
<1> QED
  BY <1>1, InitIInv, NextIInv, PTL DEF Spec

---------------------------------------------------------------------------
(* The files of a task.                                                    *)

(* Every step is one of the lock's, or leaves the lock alone.              *)
LEMMA FilesStepIsLockStep ==
  ASSUME NEW p \in Procs, FilesStep(p)
  PROVE  Step(p) \/ UNCHANGED vars
<1>1. CASE StartWrites(p) \/ LaunchReads(p) \/ QueueWrites(p) \/ StartQueued(p)
           \/ PruneLists(p) \/ PruneReads(p) \/ PruneRemoves(p)
  BY <1>1 DEF StartWrites, LaunchReads, QueueWrites, StartQueued, PruneLists, PruneReads, PruneRemoves
<1>2. CASE LaunchTask(p) \/ LaunchDone(p) \/ LaunchFailed(p) \/ SetEngineArgs(p) \/ QueueFailed(p)
  BY <1>2 DEF LaunchTask, LaunchDone, LaunchFailed, SetEngineArgs, QueueFailed, Step
<1>3. CASE QueuedDone(p) \/ QueuedFailed(p) \/ LeaveOrFinish(p) \/ RemoveFiles(p) \/ Dies(p)
  BY <1>3 DEF QueuedDone, QueuedFailed, LeaveOrFinish, RemoveFiles, Dies, Step
<1>4. CASE LockOnly(p)
  BY <1>4 DEF LockOnly, Step
<1> QED
  BY <1>1, <1>2, <1>3, <1>4 DEF FilesStep

(* Every step is a step of the lock, or leaves it alone.                   *)
LEMMA FilesNextIsLockNext == [FilesNext]_<<vars, filesVars>> => [Next]_vars
  BY FilesStepIsLockStep DEF FilesNext, Next, vars

(* The files of a task implement its lock: launching, queueing, starting,  *)
(* failing, pruning and removing take and release it as LockFile does.     *)
THEOREM FilesImplementLock == FilesSpec => Spec
<1>1. FilesInit => Init
  BY DEF FilesInit
<1> QED
  BY <1>1, FilesNextIsLockNext, PTL DEF FilesSpec, Spec

(* So no two processes start or stop the first task of a number at a time, *)
(* whatever happens to its files.                                          *)
THEOREM FilesLockIsExclusive == FilesSpec => []Exclusive
  BY FilesImplementLock, LockIsExclusive, PTL
---------------------------------------------------------------------------
(* The settings of the first task of a number, unless a pass started it    *)
(* before its arguments were stored.                                       *)

Clean == First /\ ~task.raced
Mine(f) == AsLaunched(f.vars)
Launching == {"inserted", "launches", "starts"}
Jobs == [pc : {"none", "read", "wrote", "queues", "queued", "lists", "prunes"}, env : Envs, user : Settings]

FilesTyped ==
  /\ settings \in Settings
  /\ task \in [by : Envs, queued : BOOLEAN, args : {"own", "file"}, worker : Settings, raced : BOOLEAN]
  /\ job \in [Procs -> Jobs]

(* Before the first launch nothing was written, and it is one process's.   *)
Fresh == row.gen = 0 => settings = NoFile /\ \A p \in Procs : job[p] = NoJob
OneLauncher == First => \A p, q \in Procs : proc[p].pc \in Launching /\ proc[q].pc \in Launching => p = q

(* Who queues the task is alone with its settings ...                      *)
Queueing == \A p \in Procs : job[p].pc \in {"queues", "queued"} =>
  /\ At(p, "inserted") /\ task.queued /\ task.args = "own" /\ ~task.worker.there
  /\ job[p].env = task.by
  /\ job[p].pc = "queued" => settings.there /\ Mine(settings)

(* ... and so is who starts it: under the lock, or in its launch.          *)
Starting == \A p \in Procs : job[p].pc \in {"read", "wrote"} =>
  /\ ~task.worker.there
  /\ task.queued => At(p, "works") /\ task.args = "file" /\ job[p].user.there /\ Mine(job[p].user)
  /\ ~task.queued => At(p, "starts") /\ job[p].user = NoFile /\ job[p].env = task.by
  /\ job[p].pc = "wrote" => settings = WithStopHook(Forwarded(job[p].user, job[p].env))

(* Pruned is what the session left.                                        *)
Pruning == \A p \in Procs : job[p].pc = "prunes" => task.worker.there

(* A launch that is under way has no worker yet.                           *)
Unstarted == ~task.queued => \A p \in Procs : proc[p].pc \in Launching => ~task.worker.there

Kept == task.args = "file" /\ ~task.worker.there => settings.there /\ Mine(settings)
Equipped == task.worker.there => task.worker.hooks > 0 /\ Mine(task.worker)
Kempt == Clean => Queueing /\ Starting /\ Pruning /\ Unstarted /\ Kept /\ Equipped

FilesInv == FilesTyped /\ Fresh /\ OneLauncher /\ Kempt

---------------------------------------------------------------------------
(* What is written for a start: the settings' own variables and, unless    *)
(* they choose a provider, the starter's beside them; and a hook.          *)
LEMMA WrittenFacts ==
  ASSUME NEW f \in Settings, NEW env \in Envs
  PROVE  /\ Forwarded(f, env) \in Settings /\ WithStopHook(Forwarded(f, env)) \in Settings
         /\ Forwarded(f, env).there /\ WithStopHook(Forwarded(f, env)).there
         /\ Forwarded(f, env).vars = IF f.vars["choice"] # Base THEN f.vars ELSE Merged(f.vars, env)
         /\ WithStopHook(Forwarded(f, env)).vars = Forwarded(f, env).vars
         /\ WithStopHook(Forwarded(f, env)).hooks > 0
<1> DEFINE g == Forwarded(f, env)
<1>1. Merged(f.vars, env) \in Variables
  BY DEF Merged, Settings, Envs, Variables
<1>2. g \in Settings /\ g.there /\ g.vars = IF f.vars["choice"] # Base THEN f.vars ELSE Merged(f.vars, env)
  BY <1>1 DEF Forwarded, Settings
<1> HIDE DEF g
<1>3. WithStopHook(g) \in Settings /\ WithStopHook(g).there /\ WithStopHook(g).vars = g.vars /\ WithStopHook(g).hooks > 0
  BY <1>2 DEF WithStopHook, Settings
<1> QED
  BY <1>2, <1>3 DEF g

(* The files at rest are typed.                                            *)
LEMMA RestTypes == NoFile \in Settings /\ NoTask \in [by : Envs, queued : BOOLEAN, args : {"own", "file"}, worker : Settings, raced : BOOLEAN]
                   /\ NoJob \in Jobs /\ NoJob.pc = "none" /\ ~NoFile.there /\ NoFile.vars = Bare
<1>1. Bare \in Variables /\ Bare \in Envs
  BY DEF Bare, Variables, Envs
<1> QED
  BY <1>1 DEF NoFile, Settings, NoTask, NoJob, Jobs

(* What settings without variables are given is the environment's.         *)
LEMMA MergedBare == ASSUME NEW env \in Envs PROVE Merged(Bare, env) = env /\ Bare["choice"] = Base
  BY DEF Merged, Bare, Envs, Variables, Kinds

(* A step that touches no settings, by a process that then means none, or  *)
(* means to prune what the session left.                                   *)
LEMMA IdleStep ==
  ASSUME FilesInv, NEW p \in Procs, NEW d \in Jobs, job' = [job EXCEPT ![p] = d],
         UNCHANGED <<settings, task>>,
         d.pc \in {"none", "lists"} \/ (d.pc = "prunes" /\ (Clean => task.worker.there)),
         \A q \in Procs \ {p} : proc'[q] = proc[q],
         proc'[p].pc \in Launching => proc[p].pc \in Launching,
         First' => First, row'.gen = row.gen, row.gen = 0 => d = NoJob
  PROVE  FilesInv'
<1>1. /\ job'[p] = d /\ \A q \in Procs \ {p} : job'[q] = job[q]
      /\ job' \in [Procs -> Jobs]
  BY DEF FilesInv, FilesTyped
<1>2. FilesTyped' /\ Fresh'
  BY <1>1 DEF FilesInv, FilesTyped, Fresh
<1>3. OneLauncher'
  BY DEF FilesInv, OneLauncher
<1>4. Clean' => Clean
  BY DEF Clean
<1>5. ASSUME Clean PROVE (Queueing /\ Starting /\ Pruning /\ Unstarted /\ Kept /\ Equipped)'
  <2>0. Queueing /\ Starting /\ Pruning /\ Unstarted /\ Kept /\ Equipped
    BY <1>5 DEF FilesInv, Kempt
  <2>1. Queueing'
    BY <1>1, <2>0 DEF Queueing, At, Mine, AsLaunched
  <2>2. Starting'
    BY <1>1, <2>0 DEF Starting, At, Mine, AsLaunched
  <2>3. Pruning' /\ Unstarted'
    BY <1>1, <1>5, <2>0 DEF Pruning, Unstarted
  <2>4. Kept' /\ Equipped'
    BY <2>0 DEF Kept, Equipped, Mine, AsLaunched
  <2> QED
    BY <2>1, <2>2, <2>3, <2>4
<1> QED
  BY <1>2, <1>3, <1>4, <1>5 DEF FilesInv, Kempt

(* A launch of another number's or a later task says nothing of the first. *)
LEMMA NotFirst ==
  ASSUME FilesTyped', Fresh', ~First'
  PROVE  FilesInv'
  BY DEF FilesInv, OneLauncher, Kempt, Clean

(* The launch that inserts the row begins with no settings.                *)
LEMMA LaunchTaskStep == ASSUME IInv, IInv', FilesInv, NEW p \in Procs, LaunchTask(p) PROVE FilesInv'
<1>1. PICK env \in Envs, queued \in BOOLEAN :
        /\ task' = [NoTask EXCEPT !.by = env, !.queued = queued]
        /\ job' = [job EXCEPT ![p] = [NoJob EXCEPT !.pc = IF queued THEN "queues" ELSE "none", !.env = env]]
  BY DEF LaunchTask
<1> DEFINE d == [NoJob EXCEPT !.pc = IF queued THEN "queues" ELSE "none", !.env = env]
           t == [NoTask EXCEPT !.by = env, !.queued = queued]
<1>2. d \in Jobs /\ d.pc = (IF queued THEN "queues" ELSE "none") /\ d.env = env
  <2>1. d = [[pc |-> "none", env |-> Bare, user |-> NoFile]
               EXCEPT !.pc = IF queued THEN "queues" ELSE "none", !.env = env]
    BY DEF NoJob
  <2> HIDE DEF d
  <2>2. d = [pc |-> IF queued THEN "queues" ELSE "none", env |-> env, user |-> NoFile]
    BY <2>1
  <2> QED
    BY <2>2, RestTypes DEF Jobs
<1>3. /\ t \in [by : Envs, queued : BOOLEAN, args : {"own", "file"}, worker : Settings, raced : BOOLEAN]
      /\ t.by = env /\ t.queued = queued /\ t.args = "own" /\ t.worker = NoFile
  BY RestTypes DEF NoTask
<1>4. task' = t /\ job' = [job EXCEPT ![p] = d] /\ settings' = settings
  BY <1>1 DEF LaunchTask
<1> HIDE DEF d, t
<1>5. job'[p] = d /\ \A q \in Procs \ {p} : job'[q] = job[q]
  BY <1>4 DEF FilesInv, FilesTyped
<1>6. FilesTyped'
  BY <1>2, <1>3, <1>4 DEF FilesInv, FilesTyped
<1>7. row'.gen = row.gen + 1 /\ row.gen \in Nat /\ At(p, "idle")
      /\ proc' = [proc EXCEPT ![p] = [pc |-> "inserted", gen |-> row.gen + 1]]
  BY DEF LaunchTask, Launch, IInv, TypeOK
<1>8. CASE row.gen # 0
  <2>1. row'.gen # 0 /\ row'.gen # 1
    BY <1>7, <1>8
  <2> QED
    BY <1>6, <2>1, NotFirst DEF Fresh, First
<1>9. CASE row.gen = 0
  <2>1. settings = NoFile /\ \A q \in Procs : job[q].pc = "none" /\ proc[q].pc = "idle"
    BY <1>9, RestTypes DEF FilesInv, Fresh, IInv, Unborn, At
  <2>2. proc'[p].pc = "inserted" /\ \A q \in Procs \ {p} : proc'[q].pc = "idle"
    BY <1>7, <2>1 DEF IInv, TypeOK
  <2>3. OneLauncher'
    BY <2>2 DEF OneLauncher, Launching
  <2>4. Queueing' /\ Starting' /\ Pruning'
    BY <1>2, <1>3, <1>4, <1>5, <2>1, <2>2, RestTypes DEF Queueing, Starting, Pruning, At
  <2>5. Unstarted' /\ Kept' /\ Equipped'
    BY <1>3, <1>4, RestTypes DEF Unstarted, Kept, Equipped
  <2>6. Fresh'
    BY <1>7, <1>9 DEF Fresh
  <2> QED
    BY <1>6, <2>3, <2>4, <2>5, <2>6 DEF FilesInv, Kempt
<1> QED
  BY <1>8, <1>9

(* While the row is live one process starts it: under the lock, or in its  *)
(* launch.                                                                 *)
LEMMA OneStarter ==
  ASSUME IInv, FilesInv, Clean, NEW p \in Procs, NEW q \in Procs, job[q].pc \in {"read", "wrote"},
         \/ task.queued /\ At(p, "works")
         \/ ~task.queued /\ At(p, "starts")
  PROVE  p = q
<1>1. CASE task.queued
  <2>1. At(q, "works") /\ p \in held /\ q \in held
    BY <1>1 DEF FilesInv, Kempt, Starting, IInv, Places, At
  <2> QED
    BY <2>1, ExclusiveFollows DEF Exclusive, Clean
<1>2. CASE ~task.queued
  BY <1>2 DEF FilesInv, Kempt, Starting, OneLauncher, Clean, At, Launching
<1> QED
  BY <1>1, <1>2

(* A start reads the settings its arguments name.                          *)
LEMMA StartReadsStep ==
  ASSUME IInv, FilesInv, NEW p \in Procs, NEW env \in Envs, StartReads(p, env), UNCHANGED vars,
         \/ At(p, "works") /\ task.queued /\ ~task.worker.there
         \/ At(p, "starts") /\ ~task.queued /\ task.args = "own" /\ env = task.by
  PROVE  FilesInv'
<1> DEFINE f == IF task.args = "file" THEN settings ELSE NoFile
           d == [pc |-> "read", env |-> env, user |-> f]
<1>1. /\ job[p].pc = "none" /\ (task.args = "file" => settings.there)
      /\ job' = [job EXCEPT ![p] = d]
      /\ task' = [task EXCEPT !.raced = @ \/ (task.queued /\ task.args = "own")]
      /\ settings' = settings
  BY DEF StartReads
<1>2. f \in Settings
  BY RestTypes DEF FilesInv, FilesTyped
<1> HIDE DEF f
<1>3. d \in Jobs /\ d.pc = "read" /\ d.env = env /\ d.user = f
  BY <1>2 DEF Jobs
<1> HIDE DEF d
<1>4. job'[p] = d /\ \A q \in Procs \ {p} : job'[q] = job[q]
  BY <1>1 DEF FilesInv, FilesTyped
<1>5. /\ task'.by = task.by /\ task'.queued = task.queued /\ task'.args = task.args
      /\ task'.worker = task.worker /\ task'.raced \in BOOLEAN
      /\ ~task'.raced => ~task.raced /\ ~(task.queued /\ task.args = "own")
      /\ task' \in [by : Envs, queued : BOOLEAN, args : {"own", "file"}, worker : Settings, raced : BOOLEAN]
  BY <1>1 DEF FilesInv, FilesTyped
<1>6. FilesTyped'
  BY <1>1, <1>3, <1>5 DEF FilesInv, FilesTyped
<1>7. row' = row /\ proc' = proc
  BY DEF vars
<1>8. Fresh' /\ OneLauncher'
  <2>1. row.gen # 0
    BY DEF IInv, Unborn, At
  <2> QED
    BY <1>7, <2>1 DEF FilesInv, Fresh, OneLauncher, First, Live
<1>9. ASSUME Clean' PROVE (Queueing /\ Starting /\ Pruning /\ Unstarted /\ Kept /\ Equipped)'
  <2>1. Clean /\ ~(task.queued /\ task.args = "own")
    BY <1>5, <1>7, <1>9 DEF Clean, First, Live
  <2>2. Queueing /\ Starting /\ Pruning /\ Unstarted /\ Kept /\ Equipped
    BY <2>1 DEF FilesInv, Kempt
  <2>3. Queueing'
    BY <1>1, <1>3, <1>4, <1>5, <1>7, <2>2 DEF Queueing, At, Mine, AsLaunched
  <2>4. Pruning' /\ Unstarted' /\ Kept' /\ Equipped'
    BY <1>1, <1>3, <1>4, <1>5, <1>7, <2>2 DEF Pruning, Unstarted, Kept, Equipped, Mine, AsLaunched
  <2>5. ~task.worker.there
    BY <2>2 DEF Unstarted, At, Launching
  <2>6. task.args \in {"own", "file"} /\ task.queued \in BOOLEAN
    BY DEF FilesInv, FilesTyped
  <2>7. /\ task.queued => At(p, "works") /\ task.args = "file" /\ f.there /\ Mine(f)
        /\ ~task.queued => At(p, "starts") /\ f = NoFile /\ env = task.by
    BY <1>1, <2>1, <2>2, <2>5, <2>6 DEF f, Kept
  <2>8. Starting'
    BY <1>1, <1>3, <1>4, <1>5, <1>7, <2>2, <2>5, <2>7 DEF Starting, At, Mine, AsLaunched
  <2> QED
    BY <2>3, <2>4, <2>8
<1> QED
  BY <1>6, <1>8, <1>9 DEF FilesInv, Kempt

(* What a start writes is the launcher's, whoever starts the task.         *)
LEMMA StartFacts ==
  ASSUME NEW f \in Settings, NEW env \in Envs,
         task.queued => f.there /\ Mine(f),
         ~task.queued => f = NoFile /\ env = task.by
  PROVE  LET s == WithStopHook(Forwarded(f, env)) IN s.there /\ Mine(s) /\ s.hooks > 0
<1> DEFINE s == WithStopHook(Forwarded(f, env))
<1>1. /\ s.there /\ s.hooks > 0
      /\ s.vars = IF f.vars["choice"] # Base THEN f.vars ELSE Merged(f.vars, env)
  BY WrittenFacts
<1> HIDE DEF s
<1>2. AsLaunched(s.vars)
  <2>1. CASE task.queued
    <3>1. CASE f.vars["choice"] # Base
      BY <1>1, <2>1, <3>1 DEF Mine
    <3>2. CASE f.vars["choice"] = Base
      <4>1. s.vars = Merged(f.vars, env) /\ AsLaunched(f.vars)
        BY <1>1, <2>1, <3>2 DEF Mine
      <4>2. task.by["choice"] = Base
        BY <4>1, <3>2 DEF AsLaunched, Kinds
      <4>3. \A k \in Kinds : task.by[k] # Base => s.vars[k] = task.by[k]
        BY <4>1 DEF AsLaunched, Merged
      <4> QED
        BY <4>2, <4>3 DEF AsLaunched
    <3> QED
      BY <3>1, <3>2
  <2>2. CASE ~task.queued
    <3>1. s.vars = task.by
      BY <1>1, <2>2, RestTypes, MergedBare
    <3> QED
      BY <3>1 DEF AsLaunched
  <2> QED
    BY <2>1, <2>2
<1>3. Mine(s)
  BY <1>2 DEF Mine
<1> QED
  BY <1>1, <1>3 DEF s

(* What is read is written, with the task's variables and hook.            *)
LEMMA StartWritesStep == ASSUME IInv, FilesInv, NEW p \in Procs, StartWrites(p) PROVE FilesInv'
<1> DEFINE f == job[p].user
           env == job[p].env
           d == [job[p] EXCEPT !.pc = "wrote"]
<1>1. /\ job[p].pc = "read" /\ job' = [job EXCEPT ![p] = d]
      /\ settings' = WithStopHook(Forwarded(f, env)) /\ UNCHANGED <<row, proc, task>>
  BY DEF StartWrites, vars
<1>2. f \in Settings /\ env \in Envs
  BY DEF FilesInv, FilesTyped, Jobs
<1>3. d \in Jobs /\ d.pc = "wrote" /\ d.user = f /\ d.env = env
  BY DEF FilesInv, FilesTyped, Jobs
<1> HIDE DEF d
<1>4. job'[p] = d /\ \A q \in Procs \ {p} : job'[q] = job[q]
  BY <1>1 DEF FilesInv, FilesTyped
<1>5. FilesTyped'
  BY <1>1, <1>2, <1>3, WrittenFacts DEF FilesInv, FilesTyped
<1>6. Fresh' /\ OneLauncher'
  BY <1>1, RestTypes DEF FilesInv, Fresh, OneLauncher, First, Live
<1>7. ASSUME Clean' PROVE (Queueing /\ Starting /\ Pruning /\ Unstarted /\ Kept /\ Equipped)'
  <2>1. Clean
    BY <1>1, <1>7 DEF Clean, First, Live
  <2>2. Queueing /\ Starting /\ Pruning /\ Unstarted /\ Kept /\ Equipped
    BY <2>1 DEF FilesInv, Kempt
  <2>3. /\ ~task.worker.there
        /\ task.queued => At(p, "works") /\ task.args = "file" /\ f.there /\ Mine(f)
        /\ ~task.queued => At(p, "starts") /\ f = NoFile /\ env = task.by
    BY <1>1, <2>2 DEF Starting
  <2>4. settings'.there /\ Mine(settings')
    BY <1>1, <1>2, <2>3, StartFacts DEF Mine, AsLaunched
  <2>5. \A q \in Procs \ {p} : job[q].pc \notin {"read", "wrote"}
    BY <2>1, <2>3, OneStarter
  <2>6. \A q \in Procs : job[q].pc \notin {"queues", "queued"}
    BY <2>2, <2>3 DEF Queueing
  <2>7. Queueing'
    BY <1>3, <1>4, <2>6 DEF Queueing
  <2>8. Starting'
    BY <1>1, <1>3, <1>4, <2>3, <2>5 DEF Starting, At, Mine, AsLaunched
  <2>9. Pruning' /\ Unstarted' /\ Equipped'
    BY <1>1, <1>3, <1>4, <2>2 DEF Pruning, Unstarted, Equipped, Mine, AsLaunched
  <2>10. Kept'
    BY <1>1, <2>4 DEF Kept, Mine, AsLaunched
  <2> QED
    BY <2>7, <2>8, <2>9, <2>10
<1> QED
  BY <1>5, <1>6, <1>7 DEF FilesInv, Kempt

(* The worker runs with what was written.                                  *)
LEMMA StartedStep ==
  ASSUME IInv, FilesInv, NEW p \in Procs, Started(p), Become(p, "idle"), UNCHANGED row
  PROVE  FilesInv'
<1>1. /\ job[p].pc = "wrote" /\ job' = [job EXCEPT ![p] = NoJob]
      /\ task' = [task EXCEPT !.worker = settings] /\ settings' = settings
      /\ row' = row /\ proc' = [proc EXCEPT ![p].pc = "idle"]
  BY DEF Started, Become
<1>2. job'[p] = NoJob /\ \A q \in Procs \ {p} : job'[q] = job[q]
  BY <1>1 DEF FilesInv, FilesTyped
<1>3. proc'[p].pc = "idle" /\ \A q \in Procs \ {p} : proc'[q] = proc[q]
  BY <1>1 DEF IInv, TypeOK
<1>4. /\ task'.by = task.by /\ task'.queued = task.queued /\ task'.args = task.args
      /\ task'.worker = settings /\ task'.raced = task.raced
      /\ task' \in [by : Envs, queued : BOOLEAN, args : {"own", "file"}, worker : Settings, raced : BOOLEAN]
  BY <1>1 DEF FilesInv, FilesTyped
<1>5. FilesTyped'
  BY <1>1, <1>4, RestTypes DEF FilesInv, FilesTyped
<1>6. Fresh' /\ OneLauncher'
  BY <1>1, <1>2, <1>3 DEF FilesInv, Fresh, OneLauncher, First, Live, Launching
<1>7. ASSUME Clean' PROVE (Queueing /\ Starting /\ Pruning /\ Unstarted /\ Kept /\ Equipped)'
  <2>1. Clean
    BY <1>1, <1>4, <1>7 DEF Clean, First, Live
  <2>2. Queueing /\ Starting /\ Pruning /\ Unstarted /\ Kept /\ Equipped
    BY <2>1 DEF FilesInv, Kempt
  <2>3. /\ task.queued => At(p, "works") /\ task.args = "file" /\ job[p].user.there /\ Mine(job[p].user)
        /\ ~task.queued => At(p, "starts") /\ job[p].user = NoFile /\ job[p].env = task.by
        /\ settings = WithStopHook(Forwarded(job[p].user, job[p].env))
    BY <1>1, <2>2 DEF Starting
  <2>4. job[p].user \in Settings /\ job[p].env \in Envs
    BY DEF FilesInv, FilesTyped, Jobs
  <2>5. settings.there /\ Mine(settings) /\ settings.hooks > 0
    BY <2>3, <2>4, StartFacts DEF Mine, AsLaunched
  <2>6. \A q \in Procs \ {p} : job[q].pc \notin {"read", "wrote"}
    BY <2>1, <2>3, OneStarter
  <2>7. \A q \in Procs : job[q].pc \notin {"queues", "queued"}
    BY <2>2, <2>3 DEF Queueing
  <2>8. Queueing' /\ Starting' /\ Pruning'
    BY <1>2, <1>4, <2>5, <2>6, <2>7, RestTypes DEF Queueing, Starting, Pruning
  <2>9. Unstarted'
    <3>1. CASE task.queued
      BY <1>4, <3>1 DEF Unstarted
    <3>2. CASE ~task.queued
      <4>1. \A q \in Procs : proc[q].pc \in Launching => q = p
        BY <2>1, <2>3, <3>2 DEF FilesInv, OneLauncher, Clean, At, Launching
      <4> QED
        BY <1>3, <4>1 DEF Unstarted, Launching
    <3> QED
      BY <3>1, <3>2
  <2>10. Kept' /\ Equipped'
    BY <1>4, <2>5 DEF Kept, Equipped, Mine, AsLaunched
  <2> QED
    BY <2>8, <2>9, <2>10
<1> QED
  BY <1>5, <1>6, <1>7 DEF FilesInv, Kempt

(* A start that failed gives back the settings it read.                    *)
LEMMA QueuedFailedStep == ASSUME IInv, FilesInv, NEW p \in Procs, QueuedFailed(p) PROVE FilesInv'
<1>1. /\ job[p].pc \in {"read", "wrote"} /\ job' = [job EXCEPT ![p] = NoJob]
      /\ settings' \in {settings, job[p].user}
      /\ task' = task /\ row' = row /\ proc' = [proc EXCEPT ![p].pc = "idle"] /\ At(p, "works")
  BY DEF QueuedFailed, StartFailed, Leave, Become
<1>2. job'[p] = NoJob /\ \A q \in Procs \ {p} : job'[q] = job[q]
  BY <1>1 DEF FilesInv, FilesTyped
<1>3. proc'[p].pc = "idle" /\ \A q \in Procs \ {p} : proc'[q] = proc[q]
  BY <1>1 DEF IInv, TypeOK
<1>4. FilesTyped'
  BY <1>1, RestTypes DEF FilesInv, FilesTyped, Jobs
<1>5. Fresh' /\ OneLauncher'
  BY <1>1, <1>2, <1>3, RestTypes DEF FilesInv, Fresh, OneLauncher, First, Live, Launching
<1>6. ASSUME Clean' PROVE (Queueing /\ Starting /\ Pruning /\ Unstarted /\ Kept /\ Equipped)'
  <2>1. Clean
    BY <1>1, <1>6 DEF Clean, First, Live
  <2>2. Queueing /\ Starting /\ Pruning /\ Unstarted /\ Kept /\ Equipped
    BY <2>1 DEF FilesInv, Kempt
  <2>3. task.queued /\ task.args = "file" /\ settings'.there /\ Mine(settings')
    <3>1. /\ task.queued /\ task.args = "file" /\ ~task.worker.there
          /\ job[p].user.there /\ Mine(job[p].user)
      BY <1>1, <2>2 DEF Starting, At
    <3>2. settings.there /\ Mine(settings)
      BY <2>2, <3>1 DEF Kept
    <3>3. CASE settings' = settings
      BY <3>1, <3>2, <3>3 DEF Mine, AsLaunched
    <3>4. CASE settings' = job[p].user
      BY <1>1, <3>1, <3>4 DEF Mine, AsLaunched
    <3> QED
      BY <1>1, <3>1, <3>3, <3>4
  <2>4. \A q \in Procs \ {p} : job[q].pc \notin {"read", "wrote"}
    BY <1>1, <2>1, <2>3, OneStarter
  <2>5. \A q \in Procs : job[q].pc \notin {"queues", "queued"}
    BY <2>2, <2>3 DEF Queueing
  <2>6. Queueing' /\ Starting' /\ Pruning'
    BY <1>1, <1>2, <2>2, <2>4, <2>5, RestTypes DEF Queueing, Starting, Pruning
  <2>7. Unstarted' /\ Kept' /\ Equipped'
    BY <1>1, <2>2, <2>3 DEF Unstarted, Kept, Equipped, Mine, AsLaunched
  <2> QED
    BY <2>6, <2>7
<1> QED
  BY <1>4, <1>5, <1>6 DEF FilesInv, Kempt

(* The settings of a queued task are its launcher's.                       *)
LEMMA QueueWritesStep == ASSUME IInv, FilesInv, NEW p \in Procs, QueueWrites(p) PROVE FilesInv'
<1> DEFINE d == [job[p] EXCEPT !.pc = "queued"]
<1>1. /\ job[p].pc = "queues" /\ job' = [job EXCEPT ![p] = d] /\ settings' = Forwarded(NoFile, job[p].env)
      /\ UNCHANGED <<row, proc, task>>
  BY DEF QueueWrites, vars
<1>2. d \in Jobs /\ d.pc = "queued" /\ d.env = job[p].env
  BY DEF FilesInv, FilesTyped, Jobs
<1> HIDE DEF d
<1>3. job'[p] = d /\ \A q \in Procs \ {p} : job'[q] = job[q]
  BY <1>1 DEF FilesInv, FilesTyped
<1>4. job[p].env \in Envs
  BY DEF FilesInv, FilesTyped, Jobs
<1>5. settings' \in Settings /\ settings'.there /\ settings'.vars = job[p].env
  BY <1>1, <1>4, WrittenFacts, RestTypes, MergedBare
<1>6. FilesTyped'
  BY <1>1, <1>2, <1>5 DEF FilesInv, FilesTyped
<1>7. Fresh' /\ OneLauncher'
  BY <1>1, RestTypes DEF FilesInv, Fresh, OneLauncher, First, Live
<1>8. ASSUME Clean' PROVE (Queueing /\ Starting /\ Pruning /\ Unstarted /\ Kept /\ Equipped)'
  <2>1. Clean
    BY <1>1, <1>8 DEF Clean, First, Live
  <2>2. Queueing /\ Starting /\ Pruning /\ Unstarted /\ Kept /\ Equipped
    BY <2>1 DEF FilesInv, Kempt
  <2>3. At(p, "inserted") /\ task.queued /\ task.args = "own" /\ ~task.worker.there /\ job[p].env = task.by
    BY <1>1, <2>2 DEF Queueing
  <2>4. \A q \in Procs : job[q].pc \notin {"read", "wrote"}
    BY <2>2, <2>3 DEF Starting
  <2>5. Queueing'
    BY <1>1, <1>2, <1>3, <1>5, <2>2, <2>3 DEF Queueing, At, Mine, AsLaunched
  <2>6. Starting' /\ Pruning'
    BY <1>1, <1>2, <1>3, <2>2, <2>4 DEF Starting, Pruning
  <2>7. Unstarted' /\ Kept' /\ Equipped'
    BY <1>1, <2>2, <2>3 DEF Unstarted, Kept, Equipped, Mine, AsLaunched
  <2> QED
    BY <2>5, <2>6, <2>7
<1> QED
  BY <1>6, <1>7, <1>8 DEF FilesInv, Kempt

(* The arguments name settings that were written.                          *)
LEMMA SetEngineArgsStep == ASSUME IInv, FilesInv, NEW p \in Procs, SetEngineArgs(p) PROVE FilesInv'
<1>1. /\ job[p].pc = "queued" /\ job' = [job EXCEPT ![p] = NoJob] /\ settings' = settings
      /\ row' = row /\ proc' = [proc EXCEPT ![p].pc = "idle"]
      /\ task' \in {task, [task EXCEPT !.args = "file"]}
  BY DEF SetEngineArgs, Launched, Become
<1>2. job'[p] = NoJob /\ \A q \in Procs \ {p} : job'[q] = job[q]
  BY <1>1 DEF FilesInv, FilesTyped
<1>3. proc'[p].pc = "idle" /\ \A q \in Procs \ {p} : proc'[q] = proc[q]
  BY <1>1 DEF IInv, TypeOK
<1>4. /\ task'.by = task.by /\ task'.queued = task.queued
      /\ task'.worker = task.worker /\ task'.raced = task.raced
      /\ task' \in [by : Envs, queued : BOOLEAN, args : {"own", "file"}, worker : Settings, raced : BOOLEAN]
  BY <1>1 DEF FilesInv, FilesTyped
<1>5. FilesTyped'
  BY <1>1, <1>4, RestTypes DEF FilesInv, FilesTyped
<1>6. Fresh' /\ OneLauncher'
  BY <1>1, <1>2, <1>3 DEF FilesInv, Fresh, OneLauncher, First, Live, Launching
<1>7. ASSUME Clean' PROVE (Queueing /\ Starting /\ Pruning /\ Unstarted /\ Kept /\ Equipped)'
  <2>1. Clean
    BY <1>1, <1>4, <1>7 DEF Clean, First, Live
  <2>2. Queueing /\ Starting /\ Pruning /\ Unstarted /\ Kept /\ Equipped
    BY <2>1 DEF FilesInv, Kempt
  <2>3. /\ At(p, "inserted") /\ task.queued /\ task.args = "own" /\ ~task.worker.there
        /\ settings.there /\ Mine(settings)
    BY <1>1, <2>2 DEF Queueing
  <2>4. \A q \in Procs : job[q].pc \notin {"read", "wrote"}
    BY <2>2, <2>3 DEF Starting
  <2>5. \A q \in Procs \ {p} : job[q].pc \notin {"queues", "queued"}
    BY <2>1, <2>2, <2>3 DEF Queueing, FilesInv, OneLauncher, Clean, At, Launching
  <2>6. Queueing' /\ Starting' /\ Pruning'
    BY <1>2, <1>4, <2>2, <2>4, <2>5, RestTypes DEF Queueing, Starting, Pruning
  <2>7. Unstarted' /\ Kept' /\ Equipped'
    BY <1>1, <1>4, <2>2, <2>3 DEF Unstarted, Kept, Equipped, Mine, AsLaunched
  <2> QED
    BY <2>6, <2>7
<1> QED
  BY <1>5, <1>6, <1>7 DEF FilesInv, Kempt

(* Settings are removed of a task that is over, or whose session is gone.  *)
LEMMA RemoveStep == ASSUME IInv, FilesInv, NEW p \in Procs, RemoveFiles(p) \/ PruneRemoves(p) PROVE FilesInv'
<1>1. settings' = NoFile /\ task' = task /\ row' = row
  BY DEF RemoveFiles, PruneRemoves, Release, vars
<1>2. CASE RemoveFiles(p)
  <2>1. At(p, "finished") /\ job' = job
    BY <1>2 DEF RemoveFiles, Release
  <2>2. FilesTyped'
    BY <1>1, <2>1, RestTypes DEF FilesInv, FilesTyped
  <2>3. Fresh'
    BY <1>1, <2>1 DEF FilesInv, Fresh
  <2>4. ~First'
    BY <1>1, <2>1 DEF IInv, Named, First, Live, At
  <2> QED
    BY <2>2, <2>3, <2>4, NotFirst
<1>3. CASE PruneRemoves(p)
  <2>1. job[p].pc = "prunes" /\ job' = [job EXCEPT ![p] = NoJob] /\ proc' = proc
    BY <1>3 DEF PruneRemoves, vars
  <2>2. job'[p] = NoJob /\ \A q \in Procs \ {p} : job'[q] = job[q]
    BY <2>1 DEF FilesInv, FilesTyped
  <2>3. FilesTyped'
    BY <1>1, <2>1, RestTypes DEF FilesInv, FilesTyped
  <2>4. Fresh' /\ OneLauncher'
    BY <1>1, <2>1, <2>2 DEF FilesInv, Fresh, OneLauncher, First, Live
  <2>5. ASSUME Clean' PROVE (Queueing /\ Starting /\ Pruning /\ Unstarted /\ Kept /\ Equipped)'
    <3>1. Queueing /\ Starting /\ Pruning /\ Unstarted /\ Kept /\ Equipped
      BY <1>1, <2>5 DEF FilesInv, Kempt, Clean, First, Live
    <3>2. task.worker.there
      BY <2>1, <3>1 DEF Pruning
    <3>3. Queueing' /\ Starting' /\ Pruning'
      BY <1>1, <2>2, <3>1, <3>2, RestTypes DEF Queueing, Starting, Pruning
    <3>4. Unstarted' /\ Kept' /\ Equipped'
      BY <1>1, <2>1, <3>1, <3>2 DEF Unstarted, Kept, Equipped, Mine, AsLaunched
    <3> QED
      BY <3>3, <3>4
  <2> QED
    BY <2>3, <2>4, <2>5 DEF FilesInv, Kempt
<1> QED
  BY <1>2, <1>3

(* A launch that failed is withdrawn.                                      *)
LEMMA FailedStep == ASSUME IInv, FilesInv, NEW p \in Procs, LaunchFailed(p) \/ QueueFailed(p) PROVE FilesInv'
<1>1. /\ row' = [row EXCEPT !.phase = "absent"] /\ row \in [phase : {"absent", "live", "over"}, gen : Nat]
      /\ job' = [job EXCEPT ![p] = NoJob] /\ task' = task /\ settings' \in {settings, job[p].user}
      /\ ~At(p, "idle")
  BY DEF LaunchFailed, QueueFailed, Withdraw, StartFailed, IInv, TypeOK, At
<1>2. FilesTyped'
  BY <1>1, RestTypes DEF FilesInv, FilesTyped, Jobs
<1>3. Fresh'
  BY <1>1 DEF Fresh, IInv, Unborn
<1>4. ~First'
  BY <1>1 DEF First, Live
<1> QED
  BY <1>2, <1>3, <1>4, NotFirst

(* The lock's other steps launch nothing and know nothing of the settings. *)
LEMMA OtherStep == ASSUME IInv, FilesInv, NEW p \in Procs, LeaveOrFinish(p) \/ LockOnly(p) PROVE FilesInv'
<1> DEFINE d == job[p]
<1>1. job[p].pc = "none" /\ UNCHANGED <<settings, task, job>>
  BY DEF LeaveOrFinish, LockOnly, filesVars
<1>2. d \in Jobs /\ d.pc = "none" /\ job' = [job EXCEPT ![p] = d] /\ (row.gen = 0 => d = NoJob)
  BY <1>1 DEF FilesInv, FilesTyped, Fresh
<1>3. /\ \A q \in Procs \ {p} : proc'[q] = proc[q]
      /\ proc'[p].pc \in Launching => proc[p].pc \in Launching
      /\ row'.gen = row.gen /\ (First' => First)
  <2>1. CASE LeaveOrFinish(p)
    BY <2>1 DEF LeaveOrFinish, Leave, Finish, Become, IInv, TypeOK, Launching, First, Live
  <2>2. CASE TryOpen(p) \/ DiscardOpen(p) \/ TryLock(p) \/ TryFails(p) \/ Reread(p)
    BY <2>2 DEF TryOpen, DiscardOpen, TryLock, TryFails, Reread, Become, IInv, TypeOK, Launching, First, Live
  <2>3. CASE HeldOpen(p) \/ HeldTry(p) \/ HeldLock(p) \/ HeldEnds(p)
    BY <2>3 DEF HeldOpen, HeldTry, HeldLock, HeldEnds, Become, IInv, TypeOK, Launching, First, Live
  <2>4. CASE LaunchOpen(p) \/ LaunchLock(p)
    BY <2>4 DEF LaunchOpen, LaunchLock, Become, At, IInv, TypeOK, Launching, First, Live
  <2>5. CASE PruneList(p) \/ PruneRead(p) \/ Unlink(p)
    BY <2>5 DEF PruneList, PruneRead, Unlink, Become, IInv, TypeOK, Launching, First, Live
  <2> QED
    BY <2>1, <2>2, <2>3, <2>4, <2>5 DEF LockOnly
<1> HIDE DEF d
<1> QED
  BY <1>1, <1>2, <1>3, IdleStep

(* A process that dies, or looks for files to prune, is out of the way.    *)
LEMMA PruneStep == ASSUME IInv, FilesInv, NEW p \in Procs, Dies(p) \/ PruneLists(p) \/ PruneReads(p) PROVE FilesInv'
<1>1. CASE Dies(p)
  <2>1. /\ job' = [job EXCEPT ![p] = NoJob] /\ UNCHANGED <<settings, task>>
        /\ row' = row /\ proc' = [proc EXCEPT ![p].pc = "idle"]
    BY <1>1 DEF Dies, Crash, Become
  <2>2. proc'[p].pc = "idle" /\ \A q \in Procs \ {p} : proc'[q] = proc[q]
    BY <2>1 DEF IInv, TypeOK
  <2> QED
    BY <2>1, <2>2, RestTypes, IdleStep DEF Launching, First, Live
<1>2. CASE PruneLists(p) \/ PruneReads(p)
  <2>1. UNCHANGED <<settings, task, row, proc>> /\ row.gen # 0
    BY <1>2, RestTypes DEF PruneLists, PruneReads, vars, FilesInv, Fresh
  <2>2. PICK pc \in {"none", "lists", "prunes"} :
          /\ job' = [job EXCEPT ![p].pc = pc]
          /\ pc = "prunes" => ~Live \/ task.worker.there
    BY <1>2 DEF PruneLists, PruneReads
  <2> DEFINE d == [job[p] EXCEPT !.pc = pc]
  <2>3. d \in Jobs /\ d.pc = pc
    BY DEF FilesInv, FilesTyped, Jobs
  <2>4. job' = [job EXCEPT ![p] = d]
    BY <2>2
  <2> HIDE DEF d
  <2> QED
    BY <2>1, <2>2, <2>3, <2>4, IdleStep DEF First, Live, Clean
<1> QED
  BY <1>1, <1>2

(* The invariant of the files is inductive.                                *)
LEMMA FilesInvNext == IInv /\ IInv' /\ FilesInv /\ [FilesNext]_<<vars, filesVars>> => FilesInv'
<1> SUFFICES ASSUME IInv, IInv', FilesInv, [FilesNext]_<<vars, filesVars>> PROVE FilesInv'
  OBVIOUS
<1>1. CASE UNCHANGED <<vars, filesVars>>
  BY <1>1 DEF vars, filesVars, FilesInv, FilesTyped, Fresh, OneLauncher, Kempt, Clean, First, Live, Queueing, Starting,
              Pruning, Unstarted, Kept, Equipped, Mine, AsLaunched, At
<1>2. ASSUME NEW p \in Procs, FilesStep(p) PROVE FilesInv'
  <2>1. CASE LaunchTask(p)
    BY <2>1, LaunchTaskStep
  <2>2. CASE LaunchReads(p)
    <3>1. task.by \in Envs
      BY DEF FilesInv, FilesTyped
    <3> QED
      BY <2>2, <3>1, StartReadsStep DEF LaunchReads
  <2>3. CASE StartQueued(p)
    BY <2>3, StartReadsStep DEF StartQueued
  <2>4. CASE StartWrites(p)
    BY <2>4, StartWritesStep
  <2>5. CASE LaunchDone(p) \/ QueuedDone(p)
    BY <2>5, StartedStep DEF LaunchDone, QueuedDone, Launched, Leave
  <2>6. CASE LaunchFailed(p) \/ QueueFailed(p)
    BY <2>6, FailedStep
  <2>7. CASE QueuedFailed(p)
    BY <2>7, QueuedFailedStep
  <2>8. CASE QueueWrites(p)
    BY <2>8, QueueWritesStep
  <2>9. CASE SetEngineArgs(p)
    BY <2>9, SetEngineArgsStep
  <2>10. CASE RemoveFiles(p) \/ PruneRemoves(p)
    BY <2>10, RemoveStep
  <2>11. CASE LeaveOrFinish(p) \/ LockOnly(p)
    BY <2>11, OtherStep
  <2>12. CASE Dies(p) \/ PruneLists(p) \/ PruneReads(p)
    BY <2>12, PruneStep
  <2> QED
    BY <1>2, <2>1, <2>2, <2>3, <2>4, <2>5, <2>6, <2>7, <2>8, <2>9, <2>10, <2>11, <2>12 DEF FilesStep
<1> QED
  BY <1>1, <1>2 DEF FilesNext

(* At first there is no task and no file of one.                           *)
LEMMA FilesInitInv == FilesInit => FilesInv
<1> SUFFICES ASSUME FilesInit PROVE FilesInv
  OBVIOUS
<1>1. FilesTyped /\ Fresh
  BY RestTypes DEF FilesInit, FilesTyped, Fresh
<1>2. ~First /\ \A p \in Procs : proc[p].pc \notin Launching
  BY DEF FilesInit, Init, First, Live, Launching
<1> QED
  BY <1>1, <1>2 DEF FilesInv, OneLauncher, Kempt, Clean

(* Both invariants hold of every state.                                    *)
LEMMA FilesInvHolds == FilesSpec => [](IInv /\ FilesInv)
<1>1. FilesInit => IInv /\ FilesInv
  BY FilesInitInv, InitIInv DEF FilesInit
<1>2. (IInv /\ FilesInv) /\ [FilesNext]_<<vars, filesVars>> => (IInv /\ FilesInv)'
  BY FilesNextIsLockNext, NextIInv, FilesInvNext
<1> QED
  BY <1>1, <1>2, PTL DEF FilesSpec

(* A queued task that no worker has yet keeps its settings, its launcher's *)
(* variables in them, whatever starts, fails, dies and prunes around it,   *)
(* for any number of processes and sessions (Queue, Start, prune).         *)
THEOREM SettingsAreKept == FilesSpec => []KeptForRetry
<1>1. FilesInv => KeptForRetry
  BY DEF FilesInv, Kempt, Clean, Kept, Mine, KeptForRetry
<1> QED
  BY <1>1, FilesInvHolds, PTL

(* A worker runs with its launcher's variables and the Stop hook, whoever  *)
(* starts it (Start, taskSettings, startQueued).                           *)
THEOREM WorkersAreAsLaunched == FilesSpec => []WorkerAsLaunched
<1>1. FilesInv => WorkerAsLaunched
  BY DEF FilesInv, Kempt, Clean, Equipped, Mine, WorkerAsLaunched
<1> QED
  BY <1>1, FilesInvHolds, PTL
=============================================================================
