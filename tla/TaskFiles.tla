----------------------------- MODULE TaskFiles ------------------------------
(***************************************************************************)
(* The files of a task: its lock (LockFile) and its settings,              *)
(* settings/T12.json, which Claude Code reads when the session starts.     *)
(* They hold the provider variables of the session that launched the task, *)
(* a token among them, and the Stop hook.  A queued task's are written     *)
(* when it is launched, without the hook, and its row's arguments then     *)
(* name the file; whoever starts it, in whatever environment, reads them   *)
(* back, writes them with the hook, and on a failure puts them back.       *)
(*                                                                         *)
(* Two kinds of variables are forwarded: those that choose a provider, its *)
(* URL and its token together, and others, such as ANTHROPIC_MODEL.  Only  *)
(* the first keep a starter's from being added, so a task whose launcher   *)
(* had none runs with the provider of whoever starts it.                   *)
(***************************************************************************)
EXTENDS LockFile

CONSTANTS
  Sessions,   \* sessions whose environment has provider variables
  Base        \* for a variable that is not set

VARIABLES
  settings,   \* the file: whose variables it holds, and how many Stop hooks
  task,       \* the row: who launched it, and what its arguments name; what
              \* its worker was started with; raced: a pass started it before
              \* its arguments were stored
  job         \* what each process does with the settings

filesVars == <<settings, task, job>>

(* The session a variable of each kind is of.  An environment is what one  *)
(* session has to forward: nothing in csquad's background processes, and   *)
(* nothing where the user's or the project's settings choose a provider.   *)
Kinds == {"choice", "model"}
Variables == [Kinds -> Sessions \union {Base}]
Envs == {v \in Variables : \A k, l \in Kinds : Base \in {v[k], v[l]} \/ v[k] = v[l]}
Bare == [k \in Kinds |-> Base]
NoFile == [vars |-> Bare, hooks |-> 0, there |-> FALSE]
Settings == [vars : Variables, hooks : 0..2, there : BOOLEAN]
NoTask == [by |-> Bare, queued |-> FALSE, args |-> "own", worker |-> NoFile, raced |-> FALSE]
NoJob == [pc |-> "none", env |-> Bare, user |-> NoFile]

FilesInit ==
  /\ Init
  /\ settings = NoFile
  /\ task = NoTask
  /\ job = [p \in Procs |-> NoJob]

---------------------------------------------------------------------------
(* Start and Queue.                                                        *)

(* Mutant: the variables of whoever starts the session win.                *)
Forwarded_Starter(user, env) ==
  [user EXCEPT !.vars = [k \in Kinds |-> IF env[k] # Base THEN env[k] ELSE user.vars[k]], !.there = TRUE]

(* taskSettings: settings that choose a provider are left alone, others    *)
(* get the variables of csquad's environment that they do not have.        *)
Merged(own, env) == [k \in Kinds |-> IF own[k] # Base THEN own[k] ELSE env[k]]
Forwarded(user, env) ==
  [user EXCEPT !.vars = IF user.vars["choice"] # Base THEN @ ELSE Merged(user.vars, env), !.there = TRUE]

(* WithStopHook (at most 2, a bound).                                      *)
WithStopHook(s) == [s EXCEPT !.hooks = IF @ < 2 THEN @ + 1 ELSE @]

(* Start: --settings is read ...                                           *)
StartReads(p, env) ==
  /\ job[p].pc = "none"
  /\ task.args = "file" => settings.there
  /\ job' = [job EXCEPT ![p] = [pc |-> "read", env |-> env,
                                user |-> IF task.args = "file" THEN settings ELSE NoFile]]
  /\ task' = [task EXCEPT !.raced = @ \/ (task.queued /\ task.args = "own")]
  /\ UNCHANGED settings

(* ... and written with what the task needs (writePrivate replaces it).    *)
StartWrites(p) ==
  /\ job[p].pc = "read"
  /\ settings' = WithStopHook(Forwarded(job[p].user, job[p].env))
  /\ job' = [job EXCEPT ![p].pc = "wrote"]
  /\ UNCHANGED <<vars, task>>

Started(p) ==
  /\ job[p].pc = "wrote"
  /\ task' = [task EXCEPT !.worker = settings]
  /\ job' = [job EXCEPT ![p] = NoJob]
  /\ UNCHANGED settings

(* Mutant: what was written for the start goes.                            *)
StartFailed_Removes(p) ==
  /\ job[p].pc = "wrote"
  /\ settings' = NoFile
  /\ job' = [job EXCEPT ![p] = NoJob]
  /\ UNCHANGED task

(* claude failed: a queued task's settings are kept for its retry, others  *)
(* removed.  When the settings or the prompt's file could not be written,  *)
(* what is there stays.                                                    *)
StartFailed(p) ==
  /\ \/ job[p].pc = "wrote" /\ settings' = job[p].user
     \/ job[p].pc \in {"read", "wrote"} /\ UNCHANGED settings
  /\ job' = [job EXCEPT ![p] = NoJob]
  /\ UNCHANGED task

---------------------------------------------------------------------------
(* launch.                                                                 *)

LaunchTask(p) ==
  /\ job[p].pc = "none"
  /\ Launch(p)
  /\ \E env \in Envs, queued \in BOOLEAN :
       /\ task' = [NoTask EXCEPT !.by = env, !.queued = queued]
       /\ job' = [job EXCEPT ![p] = [NoJob EXCEPT !.pc = IF queued THEN "queues" ELSE "none", !.env = env]]
  /\ UNCHANGED settings

LaunchReads(p) ==
  /\ At(p, "starts") /\ task.args = "own" /\ ~task.queued
  /\ StartReads(p, task.by)
  /\ UNCHANGED vars

LaunchDone(p) == At(p, "starts") /\ Launched(p) /\ Started(p)
LaunchFailed(p) == Withdraw(p) /\ StartFailed(p)

(* Queue writes the settings, then the arguments that name them.           *)
QueueWrites(p) ==
  /\ At(p, "inserted") /\ job[p].pc = "queues"
  /\ settings' = Forwarded(NoFile, job[p].env)
  /\ job' = [job EXCEPT ![p].pc = "queued"]
  /\ UNCHANGED <<vars, task>>

SetEngineArgs(p) ==
  /\ job[p].pc = "queued"
  /\ Launched(p)
  /\ task' = IF Live /\ row.gen = proc[p].gen THEN [task EXCEPT !.args = "file"] ELSE task
  /\ job' = [job EXCEPT ![p] = NoJob]
  /\ UNCHANGED settings

QueueFailed(p) ==
  /\ job[p].pc \in {"queues", "queued"}
  /\ Withdraw(p)
  /\ job' = [job EXCEPT ![p] = NoJob]
  /\ UNCHANGED <<settings, task>>

---------------------------------------------------------------------------
(* startQueued, in a command of some session or in the background.         *)

StartQueued(p) ==
  /\ At(p, "works") /\ task.queued /\ ~task.worker.there
  /\ \E env \in Envs : StartReads(p, env)
  /\ UNCHANGED vars

QueuedDone(p) == At(p, "works") /\ Leave(p) /\ Started(p)
(* Mutant: the error path returns without the deferred release.            *)
QueuedFailed_Keeps(p) ==
  /\ At(p, "works") /\ Become(p, "idle")
  /\ StartFailed(p)
  /\ UNCHANGED <<row, path, opened, held, left>>

QueuedFailed(p) == At(p, "works") /\ Leave(p) /\ StartFailed(p)

(* Other work on the task ends, or begins to end it; removeFiles removes   *)
(* the settings before it releases the lock.                               *)
LeaveOrFinish(p) ==
  /\ job[p].pc = "none"
  /\ Leave(p) \/ Finish(p)
  /\ UNCHANGED filesVars

RemoveFiles(p) ==
  /\ Release(p)
  /\ settings' = NoFile
  /\ UNCHANGED <<task, job>>

---------------------------------------------------------------------------
(* prune of the settings; LockFile has that of the locks.                  *)

PruneLists(p) ==
  /\ At(p, "idle") /\ job[p].pc = "none" /\ settings.there
  /\ job' = [job EXCEPT ![p].pc = "lists"]
  /\ UNCHANGED <<vars, settings, task>>

(* A task whose session is gone loses them though it is not over.          *)
PruneReads(p) ==
  /\ job[p].pc = "lists"
  /\ \E gone \in {FALSE, task.worker.there} :
       job' = [job EXCEPT ![p].pc = IF Live /\ ~gone THEN "none" ELSE "prunes"]
  /\ UNCHANGED <<vars, settings, task>>

PruneRemoves(p) ==
  /\ job[p].pc = "prunes"
  /\ settings' = NoFile
  /\ job' = [job EXCEPT ![p] = NoJob]
  /\ UNCHANGED <<vars, task>>

---------------------------------------------------------------------------

Dies(p) ==
  /\ Crash(p)
  /\ job' = [job EXCEPT ![p] = NoJob]
  /\ UNCHANGED <<settings, task>>

LockOnly(p) ==
  /\ job[p].pc = "none"
  /\ \/ TryOpen(p) \/ DiscardOpen(p) \/ TryLock(p) \/ TryFails(p) \/ Reread(p)
     \/ HeldOpen(p) \/ HeldTry(p) \/ HeldLock(p) \/ HeldEnds(p)
     \/ (~task.queued /\ LaunchOpen(p)) \/ LaunchLock(p)
     \/ PruneList(p) \/ PruneRead(p) \/ Unlink(p)
  /\ UNCHANGED filesVars

FilesStep(p) ==
  \/ LaunchTask(p) \/ LaunchReads(p) \/ StartWrites(p) \/ LaunchDone(p) \/ LaunchFailed(p)
  \/ QueueWrites(p) \/ SetEngineArgs(p) \/ QueueFailed(p)
  \/ StartQueued(p) \/ QueuedDone(p) \/ QueuedFailed(p)
  \/ LeaveOrFinish(p) \/ RemoveFiles(p) \/ LockOnly(p) \/ Dies(p)
  \/ PruneLists(p) \/ PruneReads(p) \/ PruneRemoves(p)

FilesNext == \E p \in Procs : FilesStep(p)

FilesSpec == FilesInit /\ [][FilesNext]_<<vars, filesVars>>

---------------------------------------------------------------------------
(* Properties.                                                             *)

(* The files' variables have their types; a start is under way only in a   *)
(* launch, or under the task's lock; a queued task alone names a file.     *)
FilesTypeOK ==
  /\ settings \in Settings
  /\ task \in [by : Envs, queued : BOOLEAN, args : {"own", "file"}, worker : Settings, raced : BOOLEAN]
  /\ job \in [Procs -> [pc : {"none", "read", "wrote", "queues", "queued", "lists", "prunes"}, env : Envs, user : Settings]]
  /\ \A p \in Procs : job[p].pc \in {"read", "wrote"} => At(p, "starts") \/ At(p, "works")
  /\ task.args = "file" => task.queued

(* The variables a launch forwarded, all of them when they choose a        *)
(* provider: then no other session's are among them.                       *)
AsLaunched(v) ==
  /\ \A k \in Kinds : task.by[k] # Base => v[k] = task.by[k]
  /\ task.by["choice"] # Base => v = task.by

(* A queued task that no worker has yet, or whose start failed or died,    *)
(* has its settings, with the variables of the session that launched it    *)
(* and, if those chose a provider, no others, though csquads prune, start  *)
(* and fail around it (Queue, Start, prune).                               *)
KeptForRetry ==
  First /\ ~task.raced /\ task.args = "file" /\ ~task.worker.there =>
    settings.there /\ AsLaunched(settings.vars)

(* A worker is started with the Stop hook and with the variables of the    *)
(* session that launched it, whoever starts it; with those of its starter  *)
(* beside them only if the launcher's chose no provider (taskSettings).    *)
WorkerAsLaunched ==
  First /\ ~task.raced /\ task.worker.there =>
    task.worker.hooks > 0 /\ AsLaunched(task.worker.vars)
=============================================================================
