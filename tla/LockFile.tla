------------------------------ MODULE LockFile ------------------------------
(***************************************************************************)
(* The file behind a task's lock.  flock locks what a process has opened,  *)
(* not the name logs/T12.lock: removeFiles and prune unlink the name of a  *)
(* task that is over, and a process that opened it before locks a file     *)
(* that nobody else can find.  Squad takes a task's lock as exclusive;     *)
(* this module is why it may, and when it may not.                         *)
(*                                                                         *)
(* One task number.  Its row is live until a process finishes it; a launch *)
(* that fails withdraws it, and the next launch gets the same number.      *)
(***************************************************************************)
EXTENDS Naturals

CONSTANTS
  Procs,        \* csquad processes
  Inodes,       \* files that may exist at a time
  Withdrawals   \* bound: launches whose start fails

ASSUME NoInode == 0 \notin Inodes
ASSUME WithdrawalsAssumption == Withdrawals \in Nat

VARIABLES
  row,      \* the task's row, gen counting the launches of its number
  path,     \* the file the name stands for, 0 for none
  opened,   \* the file each process has opened, 0 for none
  held,     \* the processes whose flock succeeded
  proc,     \* where each process is, and the launch it means
  left      \* withdrawals left

vars == <<row, path, opened, held, proc, left>>

Live == row.phase = "live"
At(p, pc) == proc[p].pc = pc
Become(p, pc) == proc' = [proc EXCEPT ![p].pc = pc]

Init ==
  /\ row = [phase |-> "absent", gen |-> 0]
  /\ path = 0
  /\ opened = [p \in Procs |-> 0]
  /\ held = {}
  /\ proc = [p \in Procs |-> [pc |-> "idle", gen |-> 0]]
  /\ left = Withdrawals

---------------------------------------------------------------------------
(* flock.Try opens the name, creating the file, and locks what it opened.  *)

Open(p) ==
  \/ /\ path # 0
     /\ opened' = [opened EXCEPT ![p] = path]
     /\ UNCHANGED path
  \/ /\ path = 0
     /\ \E i \in Inodes :
          /\ \A q \in Procs : opened[q] # i
          /\ path' = i
          /\ opened' = [opened EXCEPT ![p] = i]

Lockable(p) == \A q \in held : opened[q] # opened[p]

Closed(p) ==
  /\ opened' = [opened EXCEPT ![p] = 0]
  /\ held' = held \ {p}

(* A process that read the row tries its lock to work on the task; cancel  *)
(* --discard tries that of a cancelled one, to delete what was kept.       *)
TryOpen(p) ==
  /\ At(p, "idle") /\ Live
  /\ Open(p)
  /\ proc' = [proc EXCEPT ![p] = [pc |-> "opened", gen |-> row.gen]]
  /\ UNCHANGED <<row, held, left>>

DiscardOpen(p) ==
  /\ At(p, "idle") /\ row.phase = "over"
  /\ Open(p)
  /\ proc' = [proc EXCEPT ![p] = [pc |-> "discards", gen |-> row.gen]]
  /\ UNCHANGED <<row, held, left>>

TryLock(p) ==
  /\ At(p, "opened") \/ At(p, "discards")
  /\ Lockable(p)
  /\ held' = held \union {p}
  /\ Become(p, IF At(p, "opened") THEN "locked" ELSE "finished")
  /\ UNCHANGED <<row, path, opened, left>>

TryFails(p) ==
  /\ At(p, "opened") \/ At(p, "discards")
  /\ ~Lockable(p)
  /\ Closed(p)
  /\ Become(p, "idle")
  /\ UNCHANGED <<row, path, left>>

(* Held stats the name first, then tries the lock for a moment.            *)
HeldOpen(p) ==
  /\ At(p, "idle") /\ path # 0
  /\ Become(p, "probes")
  /\ UNCHANGED <<row, path, opened, held, left>>

HeldTry(p) ==
  /\ At(p, "probes")
  /\ Open(p)
  /\ Become(p, "probing")
  /\ UNCHANGED <<row, held, left>>

HeldLock(p) ==
  /\ At(p, "probing") /\ Lockable(p)
  /\ held' = held \union {p}
  /\ Become(p, "probed")
  /\ UNCHANGED <<row, path, opened, left>>

HeldEnds(p) ==
  /\ At(p, "probed") \/ (At(p, "probing") /\ ~Lockable(p))
  /\ Closed(p)
  /\ Become(p, "idle")
  /\ UNCHANGED <<row, path, left>>

---------------------------------------------------------------------------
(* The processes that hold it.                                             *)

(* Mutant: the row is not read again under the lock.                       *)
Reread_Not(p) ==
  /\ At(p, "locked")
  /\ Become(p, "works")
  /\ UNCHANGED <<row, path, opened, held, left>>

(* With the lock the row is read again and a task that is over is left:    *)
(* first of all by startQueued, land and finish, by cancel when it has     *)
(* asked for the session and stopped it.                                   *)
Reread(p) ==
  /\ At(p, "locked")
  /\ Live /\ row.gen = proc[p].gen
  /\ Become(p, "works")
  /\ UNCHANGED <<row, path, opened, held, left>>

Leave(p) ==
  /\ At(p, "works") \/ At(p, "locked")
  /\ Closed(p)
  /\ Become(p, "idle")
  /\ UNCHANGED <<row, path, left>>

(* Mutant: the lock's file is removed before the row is over.              *)
Finish_FileFirst(p) ==
  /\ At(p, "works")
  /\ Live /\ row.gen = proc[p].gen
  /\ path' = 0
  /\ Become(p, "finished")
  /\ UNCHANGED <<row, opened, held, left>>

(* finish, cancel, discard, a landing: the row is over, then removeFiles   *)
(* releases the lock and unlinks its name.  clearIfEmpty and the cancel of *)
(* a task without a session do not read it again: a row that moved refuses *)
(* their write.                                                            *)
Finish(p) ==
  /\ At(p, "works") \/ At(p, "locked")
  /\ Live /\ row.gen = proc[p].gen
  /\ row' = [row EXCEPT !.phase = "over"]
  /\ Become(p, "finished")
  /\ UNCHANGED <<path, opened, held, left>>

Release(p) ==
  /\ At(p, "finished")
  /\ Closed(p)
  /\ Become(p, "unlinks")
  /\ UNCHANGED <<row, path, left>>

Unlink(p) ==
  /\ At(p, "unlinks")
  /\ path' = 0
  /\ Become(p, "idle")
  /\ UNCHANGED <<row, opened, held, left>>

---------------------------------------------------------------------------
(* launch inserts the row, then tries the lock and goes on without it when *)
(* that fails; one that only queues its task takes no lock.                *)

Launch(p) ==
  /\ At(p, "idle")
  /\ row.phase = "absent"
  /\ row' = [phase |-> "live", gen |-> row.gen + 1]
  /\ proc' = [proc EXCEPT ![p] = [pc |-> "inserted", gen |-> row.gen + 1]]
  /\ UNCHANGED <<path, opened, held, left>>

LaunchOpen(p) ==
  /\ At(p, "inserted")
  /\ Open(p)
  /\ Become(p, "launches")
  /\ UNCHANGED <<row, held, left>>

LaunchLock(p) ==
  /\ At(p, "launches")
  /\ IF Lockable(p)
     THEN held' = held \union {p} /\ UNCHANGED opened
     ELSE Closed(p)
  /\ Become(p, "starts")
  /\ UNCHANGED <<row, path, left>>

Launched(p) ==
  /\ At(p, "starts") \/ At(p, "inserted")
  /\ Closed(p)
  /\ Become(p, "idle")
  /\ UNCHANGED <<row, path, left>>

(* The start failed: the lock is released, the row deleted, the file left. *)
Withdraw(p) ==
  /\ At(p, "starts") \/ At(p, "inserted")
  /\ left > 0 /\ row = [phase |-> "live", gen |-> proc[p].gen]
  /\ Closed(p)
  /\ row' = [row EXCEPT !.phase = "absent"]
  /\ left' = left - 1
  /\ Become(p, "idle")
  /\ UNCHANGED path

---------------------------------------------------------------------------
(* prune lists the files, reads the table, then removes the files of tasks *)
(* that are over or not in it.                                             *)

PruneList(p) ==
  /\ At(p, "idle") /\ path # 0
  /\ Become(p, "listed")
  /\ UNCHANGED <<row, path, opened, held, left>>

PruneRead(p) ==
  /\ At(p, "listed")
  /\ Become(p, IF Live THEN "idle" ELSE "unlinks")
  /\ UNCHANGED <<row, path, opened, held, left>>

Crash(p) ==
  /\ ~At(p, "idle")
  /\ Closed(p)
  /\ Become(p, "idle")
  /\ UNCHANGED <<row, path, left>>

Step(p) ==
  \/ TryOpen(p) \/ DiscardOpen(p) \/ TryLock(p) \/ TryFails(p)
  \/ HeldOpen(p) \/ HeldTry(p) \/ HeldLock(p) \/ HeldEnds(p)
  \/ Reread(p) \/ Leave(p) \/ Finish(p) \/ Release(p) \/ Unlink(p)
  \/ Launch(p) \/ LaunchOpen(p) \/ LaunchLock(p) \/ Launched(p) \/ Withdraw(p)
  \/ PruneList(p) \/ PruneRead(p) \/ Crash(p)

Next == \E p \in Procs : Step(p)

Spec == Init /\ [][Next]_vars

---------------------------------------------------------------------------
(* Properties.                                                             *)

TypeOK ==
  /\ row \in [phase : {"absent", "live", "over"}, gen : Nat]
  /\ path \in Inodes \union {0}
  /\ opened \in [Procs -> Inodes \union {0}]
  /\ held \subseteq {p \in Procs : opened[p] # 0}
  /\ proc \in [Procs -> [pc : {"idle", "opened", "discards", "locked", "works", "probes", "probing", "probed",
                              "finished", "unlinks", "inserted", "launches", "starts", "listed"},
                         gen : Nat]]
  /\ left \in Nat

(* The first task of its number is live, or over.                          *)
First == row.gen = 1 /\ Live
FirstOver == row.gen = 1 /\ row.phase = "over"

(* While a task is not over, two processes never hold its lock at a time,  *)
(* though names are unlinked and created again (flock.go, removeFiles,     *)
(* prune).  A prune that read the table between a launch withdrawn and the *)
(* next one of its number does unlink the name of a live task: this is     *)
(* about the first of a number.                                            *)
Exclusive == First => \A p, q \in held : p = q

(* Nobody who locked a live task's file and read its row again works on it *)
(* once it is over: whoever locks a file that was unlinked behind its back *)
(* reads the row again and leaves (startQueued, land, finish, the cleanup  *)
(* of cancel).  What cancel stops before it reads again, and a discard of  *)
(* what a cancelled task kept, are outside.                                *)
OverIsLeft == FirstOver => \A p \in Procs : ~At(p, "works")
=============================================================================
