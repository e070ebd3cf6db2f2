------------------------------- MODULE Agents -------------------------------
(***************************************************************************)
(* The `claude agents` calls of the csquad processes on one machine.  A    *)
(* call asks Claude Code's background service, which may hang: every call  *)
(* has a deadline, is recorded in cache/claude-agents/ while it runs, and  *)
(* one whose csquad died is killed by the next csquad that sweeps.  The    *)
(* status line waits a little for a call in flight and takes its answer    *)
(* from cache/claude-agents.json.                                          *)
(*                                                                         *)
(* Time is kept as ages, which a tick adds one to, each up to the first    *)
(* value nothing tells from a later one.  A deadline that is due is met    *)
(* before time goes on.                                                    *)
(***************************************************************************)
EXTENDS Naturals, FiniteSets

CONSTANTS
  Commands,    \* csquad commands and hooks: they always ask themselves
  StatusLines, \* status lines: they share the answer of a call in flight
  ShareWait,   \* how long a status line waits for another's call
  Timeout,     \* how long a call may take (AgentsTimeout)
  OrphanAge,   \* a call older than this has lost its csquad
  DownFor,     \* how long a process remembers that there was no answer
  Crashes      \* bound: how many csquad processes are killed

ASSUME LimitsAssumption ==
  /\ ShareWait \in Nat /\ Timeout \in Nat /\ Timeout > 0 /\ OrphanAge \in Nat /\ DownFor \in Nat
  /\ Crashes \in Nat
  /\ ShareWait + Timeout < OrphanAge

Procs == Commands \union StatusLines

(* Where ages stop: of a question, of an answer kept, of its reading.      *)
Long == OrphanAge + 1
Stale == ShareWait + 2
Ancient == ShareWait + Timeout + 2

VARIABLES
  up,      \* the background service answers
  proc,    \* the processes: where they are, the age of their question, and
           \* of the last call of theirs that got no answer
  call,    \* the call each process has made: whether it runs, is recorded
           \* and was served, its age, and the age of the reading it got
  orphans, \* calls whose csquad died
  file,    \* the answer kept for others: the age of the file, and of the
           \* reading in it (an old one stands for no file)
  crashes

vars == <<up, proc, call, orphans, file, crashes>>

NoCall == [runs |-> FALSE, recorded |-> FALSE, served |-> FALSE, age |-> 0, read |-> 0]

Init ==
  /\ up \in BOOLEAN
  /\ proc = [p \in Procs |-> [pc |-> "idle", since |-> 0, down |-> DownFor]]
  /\ call = [p \in Procs |-> NoCall]
  /\ orphans = {}
  /\ file = [written |-> Stale, read |-> Ancient]
  /\ crashes = Crashes

---------------------------------------------------------------------------
(* The service, and time.                                                  *)

Older(a, last) == IF a < last THEN a + 1 ELSE a

OlderCall(c) == [c EXCEPT !.age = IF c.runs THEN Older(@, Timeout) ELSE @,
                          !.read = IF c.served THEN Older(@, Timeout) ELSE @]

(* What must happen before the time may pass.                              *)
Due(p) ==
  \/ proc[p].pc = "calling" /\ call[p].age >= Timeout
  \/ proc[p].pc = "sharing" /\ proc[p].since > ShareWait
  \/ proc[p].pc \in {"asks", "started", "reaped"}

Tick ==
  /\ \A p \in Procs : ~Due(p)
  /\ proc' = [p \in Procs |-> [proc[p] EXCEPT
       !.pc = IF @ = "rests" THEN "idle" ELSE @,
       !.since = IF proc[p].pc \in {"idle", "rests"} THEN 0 ELSE Older(@, Long), !.down = Older(@, DownFor)]]
  /\ call' = [p \in Procs |-> OlderCall(call[p])]
  /\ orphans' = {[c EXCEPT !.since = Older(@, Long)] : c \in orphans}
  /\ file' = [written |-> Older(file.written, Stale), read |-> Older(file.read, Ancient)]
  /\ UNCHANGED <<up, crashes>>

Flip ==
  /\ up' = ~up
  /\ UNCHANGED <<proc, call, orphans, file, crashes>>

(* The service answers a call: what it says is of now.                     *)
Serve(p) ==
  /\ up /\ call[p].runs /\ ~call[p].served
  /\ call' = [call EXCEPT ![p].served = TRUE, ![p].read = 0]
  /\ UNCHANGED <<up, proc, orphans, file, crashes>>

(* An orphan that is answered prints its list to nobody and exits.         *)
ServeOrphan ==
  /\ up
  /\ \E c \in orphans : orphans' = orphans \ {c}
  /\ UNCHANGED <<up, proc, call, file, crashes>>

---------------------------------------------------------------------------
(* The record of calls.                                                    *)

(* Mutant: the limit of a call is the age from which it is an orphan's.    *)
Expired_AtTimeout(since) == since >= Timeout

Expired(since) == since > OrphanAge

(* Sweep kills and forgets what has run too long and forgets what exited;  *)
(* the calls it returns are the recorded ones that run on.                 *)
Running == {p \in Procs : call[p].runs /\ call[p].recorded /\ ~Expired(proc[p].since)}

(* Mutant: only calls of living processes are looked at.                   *)
SweptOrphans_Known == orphans

SweptOrphans == {c \in orphans : c.recorded => ~Expired(c.since)}

Busy == Running # {} \/ \E c \in SweptOrphans : c.recorded

Sweep ==
  /\ call' = [p \in Procs |-> IF call[p].recorded /\ p \notin Running
                             THEN [call[p] EXCEPT !.runs = FALSE, !.recorded = FALSE] ELSE call[p]]
  /\ orphans' = SweptOrphans

---------------------------------------------------------------------------
(* Agents, share and agents.                                               *)

(* A process asks at most once a tick (bound).                             *)
Returns(p) == [proc EXCEPT ![p].pc = "rests", ![p].since = 0]

(* Within DownFor of a call without an answer, the next one fails at once. *)
Refused(p) ==
  /\ proc[p].pc = "idle" /\ proc[p].down < DownFor
  /\ proc' = Returns(p)
  /\ UNCHANGED <<up, call, orphans, file, crashes>>

Ask(p) ==
  /\ proc[p].pc = "idle" /\ proc[p].down >= DownFor
  /\ Sweep
  /\ proc' = [proc EXCEPT ![p].pc = IF p \in StatusLines /\ Busy THEN "sharing" ELSE "asks",
                          ![p].since = 0]
  /\ UNCHANGED <<up, file, crashes>>

(* Mutant: whatever answer is kept will do.                                *)
FreshFor_Any(p) == file.written < Stale

(* The answer kept was written since p asked.                              *)
FreshFor(p) == file.written < Stale /\ file.written <= proc[p].since

ShareAnswer(p) ==
  /\ proc[p].pc = "sharing" /\ FreshFor(p)
  /\ proc' = Returns(p)
  /\ UNCHANGED <<up, call, orphans, file, crashes>>

(* The call ended without an answer: p asks itself.                        *)
ShareEnds(p) ==
  /\ proc[p].pc = "sharing" /\ ~FreshFor(p)
  /\ Sweep /\ ~Busy
  /\ proc' = [proc EXCEPT ![p].pc = "asks"]
  /\ UNCHANGED <<up, file, crashes>>

ShareGivesUp(p) ==
  /\ proc[p].pc = "sharing" /\ ~FreshFor(p)
  /\ Sweep /\ Busy
  /\ proc[p].since >= ShareWait
  /\ proc' = Returns(p)
  /\ UNCHANGED <<up, file, crashes>>

(* Its context may have less time left than ShareWait.                     *)
ShareCut(p) ==
  /\ proc[p].pc = "sharing"
  /\ proc' = Returns(p)
  /\ UNCHANGED <<up, call, orphans, file, crashes>>

(* The child starts, then it is recorded, dated when its process asked.    *)
Start(p) ==
  /\ proc[p].pc = "asks"
  /\ call' = [call EXCEPT ![p] = [NoCall EXCEPT !.runs = TRUE]]
  /\ proc' = [proc EXCEPT ![p].pc = "started"]
  /\ UNCHANGED <<up, orphans, file, crashes>>

Track(p) ==
  /\ proc[p].pc = "started"
  /\ call' = [call EXCEPT ![p].recorded = TRUE]
  /\ proc' = [proc EXCEPT ![p].pc = "calling"]
  /\ UNCHANGED <<up, orphans, file, crashes>>

(* The child exits with its answer and is forgotten ...                    *)
Reap(p) ==
  /\ proc[p].pc = "calling" /\ call[p].runs /\ call[p].served
  /\ call' = [call EXCEPT ![p].runs = FALSE, ![p].recorded = FALSE]
  /\ proc' = [proc EXCEPT ![p].pc = "reaped"]
  /\ UNCHANGED <<up, orphans, file, crashes>>

(* ... and the answer is kept for the others and returned.                 *)
Save(p) ==
  /\ proc[p].pc = "reaped"
  /\ file' = [written |-> 0, read |-> call[p].read]
  /\ call' = [call EXCEPT ![p] = NoCall]
  /\ proc' = [Returns(p) EXCEPT ![p].down = DownFor]
  /\ UNCHANGED <<up, orphans, crashes>>

(* Mutant: the limit is only told to the child.                            *)
TimedOut_Told(p) ==
  /\ proc[p].pc = "calling" /\ call[p].age >= Timeout
  /\ ~call[p].runs
  /\ call' = [call EXCEPT ![p] = NoCall]
  /\ proc' = [Returns(p) EXCEPT ![p].down = 0]
  /\ UNCHANGED <<up, orphans, file, crashes>>

(* No answer within the limit: the child's process group is killed.        *)
TimedOut(p) ==
  /\ proc[p].pc = "calling" /\ call[p].runs /\ call[p].age >= Timeout
  /\ call' = [call EXCEPT ![p] = NoCall]
  /\ proc' = [Returns(p) EXCEPT ![p].down = 0]
  /\ UNCHANGED <<up, orphans, file, crashes>>

(* claude fails, prints no list, or was killed by another's sweep: an      *)
(* error, nothing kept, and no memory of it.                               *)
Fail(p) ==
  /\ proc[p].pc = "calling"
  /\ call' = [call EXCEPT ![p] = NoCall]
  /\ proc' = Returns(p)
  /\ UNCHANGED <<up, orphans, file, crashes>>

(* A csquad dies; its child lives on.  The next csquad takes its place.    *)
Crash(p) ==
  /\ proc[p].pc \notin {"idle", "rests"} /\ crashes > 0
  /\ crashes' = crashes - 1
  /\ orphans' = IF call[p].runs
                THEN orphans \union {[since |-> proc[p].since, recorded |-> call[p].recorded]} ELSE orphans
  /\ call' = [call EXCEPT ![p] = NoCall]
  /\ proc' = [proc EXCEPT ![p] = [pc |-> "rests", since |-> 0, down |-> DownFor]]
  /\ UNCHANGED <<up, file>>

Share(p) == ShareAnswer(p) \/ ShareEnds(p) \/ ShareGivesUp(p)
Make(p) == Start(p) \/ Track(p) \/ Reap(p) \/ Save(p) \/ TimedOut(p)

Next ==
  \/ Tick \/ Flip \/ ServeOrphan
  \/ \E p \in Procs : Serve(p) \/ Refused(p) \/ Ask(p) \/ ShareCut(p) \/ Share(p) \/ Make(p) \/ Fail(p) \/ Crash(p)

(* Timers fire and processes run on; somebody keeps asking.  Nothing is    *)
(* assumed of the service.                                                 *)
Fairness ==
  /\ WF_vars(Tick)
  /\ \A p \in Procs : WF_vars(Make(p)) /\ WF_vars(Share(p)) /\ WF_vars(Ask(p) \/ Refused(p))

Spec == Init /\ [][Next]_vars
FairSpec == Spec /\ Fairness

---------------------------------------------------------------------------
(* Properties.                                                             *)

TypeOK ==
  /\ up \in BOOLEAN
  /\ proc \in [Procs -> [pc : {"idle", "rests", "asks", "sharing", "started", "calling", "reaped"},
                         since : 0..Long, down : 0..DownFor]]
  /\ call \in [Procs -> [runs : BOOLEAN, recorded : BOOLEAN, served : BOOLEAN,
                         age : 0..Timeout, read : 0..Timeout]]
  /\ \A p \in Procs : call[p].recorded => call[p].runs /\ proc[p].pc = "calling"
  /\ orphans \subseteq [since : 0..Long, recorded : BOOLEAN]
  /\ file \in [written : 0..Stale, read : 0..Ancient]
  /\ crashes \in 0..Crashes

(* A sweep kills the calls of dead csquads only, never one that a living   *)
(* csquad waits for, though it is dated before the wait to share           *)
(* (agents.go:124, 199; Sweep).                                            *)
OnlyOrphansKilled == \A p \in Procs : proc[p].pc \in {"started", "calling"} => call[p].runs

(* A command's list is read after the command asked, so what a pass        *)
(* decides is of its own time; the status line's shared list may have been *)
(* read before it asked, by no more than a call may take, however calls    *)
(* overlap and overwrite each other's answer (agents.go:154, 221).         *)
AnswersAreRecent ==
  [][\A p \in Procs :
       /\ Save(p) => call[p].read <= proc[p].since
       /\ ShareAnswer(p) => file.read <= proc[p].since + Timeout]_vars

(* Whoever asks is answered or told that nobody answers, be the service    *)
(* hung or the csquad whose call is shared dead.                           *)
AsksEnd == \A p \in Procs : proc[p].pc \notin {"idle", "rests"} ~> proc[p].pc \in {"idle", "rests"}

(* A recorded call of a dead csquad does not run for ever, though the      *)
(* service never answers it (proc.Sweep).                                  *)
OrphansEnd == <>[](\A c \in orphans : ~c.recorded)
=============================================================================
