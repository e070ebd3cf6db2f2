------------------------------ MODULE Threads -------------------------------
(***************************************************************************)
(* The Codex engine on one thread.  Each operation (Start, Send, Stop,     *)
(* Remove, States) is a few requests over one connection to the app-server *)
(* daemon, which may refuse a request, not answer it, or carry it out      *)
(* after its caller has given up.  The thread lives on meanwhile: turns    *)
(* start, end and ask, the daemon unloads it, the user types in it.        *)
(*                                                                         *)
(* A request that gets no answer within its limit breaks the connection,   *)
(* and its process does not ask again for a while (DownFor): here, for its *)
(* next operation.                                                         *)
(***************************************************************************)
EXTENDS Integers, FiniteSets

CONSTANTS
  Procs,   \* csquad processes
  Turns,   \* bound: turns of the thread
  Limit,   \* bound: operations
  Hangs,   \* bound: how often the daemon stops answering
  Refusals \* bound: requests the daemon refuses

ASSUME BoundsAssumption == Turns \in Nat /\ Limit \in Nat /\ Hangs \in Nat /\ Refusals \in Nat

VARIABLES
  daemon,  \* none (nothing listens), up, or hung
  thread,  \* its life, its name, and its newest turn
  proc,    \* each process: its operation, the request it is at, its connection
           \* (open, or down), the turn it has read, how it ended
  late,    \* requests whose callers gave up
  sent,    \* how many messages each process set out to send ...
  got,     \* ... and how many of them the thread got
  was,     \* what the thread was while each process looked (Kind)
  left

vars == <<daemon, thread, proc, late, sent, got, was, left>>

Ops == {"start", "send", "stop", "remove", "look"}
NoTurn == [id |-> 0, st |-> "none", old |-> FALSE]

(* The first request of each operation.                                    *)
First(op) == CASE op = "start" -> "thread/start" [] op = "stop" -> "turns/list"
               [] op = "remove" -> "archive" [] OTHER -> "read"

Over(op, how, down) == [op |-> op, at |-> "over", call |-> "none", open |-> FALSE, down |-> down, id |-> 0, how |-> how]

(* A turn that was asked for is listed as interrupted, without a message   *)
(* of the user's, until it runs; one cut off before it ran stays so.       *)
Works(t) == t.turn.st \in {"young", "runs", "asks"}
Bare == {"young", "cut"}

(* What a thread is, to who looks at it: csquad tells a young turn from    *)
(* one cut off by its age alone.                                           *)
Kind(t) ==
  CASE t.turn.st = "young" /\ t.turn.old -> "slow"
    [] t.turn.st = "cut" /\ ~t.turn.old -> "cut"
    [] OTHER -> IF Works(t) THEN "works" ELSE "rests"

Init ==
  /\ daemon \in {"none", "up"}
  /\ thread \in [life : {"none", "unloaded", "loaded"}, named : {FALSE}, turn : {NoTurn}]
  /\ thread.life = "loaded" => daemon = "up"
  /\ proc = [p \in Procs |-> Over("none", "none", FALSE)]
  /\ late = {}
  /\ sent = [p \in Procs |-> 0] /\ got = [p \in Procs |-> 0]
  /\ was = [p \in Procs |-> {}]
  /\ left = [ops |-> Limit, hangs |-> Hangs, refusals |-> Refusals]

Looks(p) == proc[p].op = "look" /\ proc[p].at \notin {"dial", "over"}

(* The thread changes to t.                                                *)
Becomes(t) ==
  /\ thread' = t
  /\ was' = [p \in Procs |-> IF Looks(p) THEN was[p] \union {Kind(t)} ELSE was[p]]

---------------------------------------------------------------------------
(* The thread and the daemon.                                              *)

TurnGoesOn ==
  /\ daemon # "none"
  /\ \/ thread.turn.st = "young" /\ Becomes([thread EXCEPT !.turn.st = "runs", !.turn.old = FALSE])
     \/ thread.turn.st = "young" /\ Becomes([thread EXCEPT !.turn.st = "cut"])
     \/ /\ thread.turn.st = "runs"
        /\ \E s \in {"asks", "completed", "questions", "failed", "error", "interrupted"} :
              Becomes([thread EXCEPT !.turn.st = s])
     \/ thread.turn.st = "asks" /\ Becomes([thread EXCEPT !.turn.st = "runs"])
  /\ UNCHANGED <<daemon, proc, late, sent, got, left>>

(* YoungTurn passes; it makes a difference to a bare turn only.            *)
Age ==
  /\ thread.turn.st \in Bare /\ ~thread.turn.old
  /\ Becomes([thread EXCEPT !.turn.old = TRUE])
  /\ UNCHANGED <<daemon, proc, late, sent, got, left>>

Newer(st) == [thread EXCEPT !.life = "loaded", !.turn = [id |-> @.id + 1, st |-> st, old |-> FALSE]]

UserTypes ==
  /\ daemon # "none" /\ thread.life \in {"loaded", "unloaded"} /\ ~Works(thread) /\ thread.turn.id < Turns
  /\ Becomes(Newer("young"))
  /\ UNCHANGED <<daemon, proc, late, sent, got, left>>

Unload ==
  /\ daemon # "none" /\ thread.life = "loaded" /\ ~Works(thread)
  /\ Becomes([thread EXCEPT !.life = "unloaded"])
  /\ UNCHANGED <<daemon, proc, late, sent, got, left>>

Hang ==
  /\ daemon = "up" /\ left.hangs > 0
  /\ daemon' = "hung"
  /\ left' = [left EXCEPT !.hangs = @ - 1]
  /\ UNCHANGED <<thread, proc, late, sent, got, was>>

Recover ==
  /\ daemon = "hung"
  /\ daemon' = "up"
  /\ UNCHANGED <<thread, proc, late, sent, got, was, left>>

---------------------------------------------------------------------------
(* What the daemon does with a request: [ok], [t]he thread after it, and   *)
(* how many messages the thread [got].                                     *)

Answer(ok, t, n) == [ok |-> ok, t |-> t, n |-> n]
Unknown == Answer("notLoaded", thread, 0)
Error == Answer("error", thread, 0)
Active(t) == t.turn.st \in {"runs", "asks"}

Served(m, id) ==
  CASE m \in {"read", "turns/list"} -> Answer("ok", thread, 0)
    [] m \in {"thread/start", "resume"} -> Answer("ok", [thread EXCEPT !.life = "loaded"], 0)
    [] m = "archive" -> Answer("ok", [thread EXCEPT !.life = "archived",
                                 !.turn.st = IF @ = "young" THEN "cut"
                                             ELSE IF Works(thread) THEN "interrupted" ELSE @], 0)
    [] m = "name/set" -> Answer("ok", [thread EXCEPT !.named = TRUE], 0)
    [] m = "steer" -> IF Active(thread) /\ thread.turn.id = id THEN Answer("ok", thread, 1) ELSE Error
    [] m = "interrupt" -> IF Active(thread) /\ thread.turn.id = id
                          THEN Answer("ok", [thread EXCEPT !.turn.st = "interrupted"], 0) ELSE Error
    [] m = "turn/start" -> IF Works(thread) THEN Answer("ok", thread, 1)
                           ELSE IF thread.turn.id < Turns THEN Answer("ok", Newer("young"), 1) ELSE Error

(* An unloaded thread is read, resumed and archived, and no more.          *)
Serves(m) ==
  \/ m = "thread/start" \/ thread.life = "loaded"
  \/ thread.life = "unloaded" /\ m \in {"read", "turns/list", "resume", "archive"}

Outcome(m, id) == IF Serves(m) THEN Served(m, id) ELSE Unknown

(* The type thread/read shows: a young turn does not show in it.           *)
Type(t) == IF t.life = "unloaded" THEN "notLoaded"
           ELSE IF Active(t) THEN "active"
           ELSE IF t.turn.st = "error" THEN "systemError" ELSE "idle"

---------------------------------------------------------------------------
(* Mutant: a broken connection is dialled again.                           *)
Ask_Redials(c, m) == [c EXCEPT !.at = m, !.call = "asked", !.open = TRUE]

(* The next request; on a broken connection it fails at once.              *)
Ask(c, m) == [c EXCEPT !.at = m, !.call = IF c.open THEN "asked" ELSE "error"]

AskOf(c, m, turn) == [Ask(c, m) EXCEPT !.id = turn.id]
End(c, how) == Over(c.op, how, c.down)

---------------------------------------------------------------------------
(* The operations: what a caller c does on the answer r to the request it  *)
(* is at, which was carried out on the thread t.                           *)

(* Start: the thread, its name, its first turn; undone when one fails.     *)
Start(c, r) ==
  CASE c.at = "thread/start" -> IF r = "ok" THEN Ask(c, "name/set") ELSE End(c, "error")
    [] c.at = "name/set" -> IF r = "ok" THEN Ask(c, "turn/start") ELSE Ask(c, "archive")
    [] c.at = "turn/start" -> IF r = "ok" THEN End(c, "ok") ELSE Ask(c, "archive")
    [] c.at = "archive" -> End(c, IF r = "ok" THEN "undone" ELSE "left")

(* Send: into the running turn, else a new turn, of a thread loaded again  *)
(* when it was not.                                                        *)
Send(c, r, t) ==
  IF r = "ok"
  THEN CASE c.at = "read" -> Ask(c, IF Type(t) = "active" THEN "turns/list"
                                    ELSE IF Type(t) = "notLoaded" THEN "resume" ELSE "turn/start")
         [] c.at = "turns/list" -> IF Active(t) THEN AskOf(c, "steer", t.turn) ELSE Ask(c, "turn/start")
         [] c.at = "resume" -> Ask(c, "turn/start")
         [] c.at \in {"steer", "turn/start"} -> End(c, "ok")
  ELSE IF c.at \in {"turns/list", "steer"} THEN Ask(c, "turn/start") ELSE End(c, "error")

Stop(c, r, t) ==
  IF r # "ok" THEN End(c, "error")
  ELSE IF c.at = "turns/list" /\ Active(t) THEN AskOf(c, "interrupt", t.turn) ELSE End(c, "ok")

(* Remove: a thread that is gone was removed already.                      *)
Remove(c, r) == End(c, IF r = "error" THEN "error" ELSE "ok")

LiveOf(type, turn, young) ==
  IF type = "active" THEN IF turn.st = "asks" THEN "needs_input" ELSE "working"
  ELSE IF type = "systemError" \/ turn.st = "failed" THEN "failed"
  ELSE IF turn.st \in {"runs", "asks"} \/ young THEN "working"
  ELSE IF turn.st = "questions" THEN "needs_input"
  ELSE IF turn.st \in Bare \union {"interrupted"} THEN "stopped" ELSE "idle"

(* Mutant: an interrupted turn is an interrupted turn.                     *)
Live_Old(type, turn) == LiveOf(type, turn, FALSE)

(* Live: a turn that shows as interrupted without a message, and is        *)
(* younger than YoungTurn, works; an older one was stopped.                *)
Live(type, turn) == LiveOf(type, turn, turn.st \in Bare /\ ~turn.old)

(* States: the thread, and unless it is active its newest turn.            *)
Look(c, r, t) ==
  CASE r = "error" -> End(c, "error")
    [] r = "notLoaded" -> End(c, IF c.at = "read" THEN "gone" ELSE "idle")
    [] OTHER -> IF c.at = "read" /\ Type(t) \notin {"active", "systemError"} THEN Ask(c, "turns/list")
                ELSE End(c, Live(IF c.at = "read" THEN Type(t) ELSE "idle", t.turn))

On(c, r, t) ==
  CASE c.op = "start" -> Start(c, r) [] c.op = "send" -> Send(c, r, t) [] c.op = "stop" -> Stop(c, r, t)
    [] c.op = "remove" -> Remove(c, r) [] c.op = "look" -> Look(c, r, t)

---------------------------------------------------------------------------
(* The calls.                                                              *)

Handle(p) ==
  /\ daemon = "up" /\ proc[p].call = "asked"
  /\ LET a == Outcome(proc[p].at, proc[p].id) IN
       /\ Becomes(a.t)
       /\ got' = [got EXCEPT ![p] = @ + a.n]
       /\ proc' = [proc EXCEPT ![p] = On(@, a.ok, thread)]
  /\ UNCHANGED <<daemon, late, sent, left>>

Refuse(p) ==
  /\ daemon = "up" /\ proc[p].call = "asked" /\ left.refusals > 0
  /\ left' = [left EXCEPT !.refusals = @ - 1]
  /\ proc' = [proc EXCEPT ![p] = On(@, "error", thread)]
  /\ UNCHANGED <<daemon, thread, late, sent, got, was>>

(* A request whose caller gave up is carried out after all, or lost.       *)
HandleLate ==
  /\ daemon = "up"
  /\ \E r \in late :
       /\ late' = late \ {r}
       /\ \/ LET a == Outcome(r.at, r.id) IN
               /\ Becomes(a.t)
               /\ got' = [got EXCEPT ![r.by] = @ + a.n]
          \/ UNCHANGED <<thread, got, was>>
  /\ UNCHANGED <<daemon, proc, sent, left>>

GivesUp(p) ==
  /\ proc[p].call = "asked" /\ daemon = "hung"
  /\ proc' = [proc EXCEPT ![p] = On([@ EXCEPT !.open = FALSE, !.down = TRUE], "error", thread)]
  /\ late' = late \union {[by |-> p, at |-> proc[p].at, id |-> proc[p].id]}
  /\ UNCHANGED <<daemon, thread, sent, got, was, left>>

(* Mutant: only what reads has a limit.                                    *)
TimedOut_Reads(p) == proc[p].at \in {"read", "turns/list"} /\ GivesUp(p)

(* call: no answer within the limit.                                       *)
TimedOut(p) == GivesUp(p)

(* The next request on a broken connection.                                *)
FailsAtOnce(p) ==
  /\ proc[p].call = "error"
  /\ proc' = [proc EXCEPT ![p] = On(@, "error", thread)]
  /\ UNCHANGED <<daemon, thread, late, sent, got, was, left>>

Begin(p) ==
  /\ proc[p].at = "over" /\ left.ops > 0
  /\ left' = [left EXCEPT !.ops = @ - 1]
  /\ \E op \in Ops :
       /\ op = "start" <=> thread.life = "none" /\ \A q \in Procs : sent[q] = 0
       /\ proc' = [proc EXCEPT ![p] = [Over(op, "none", @.down) EXCEPT !.at = "dial"]]
       /\ sent' = [sent EXCEPT ![p] = @ + (IF op \in {"start", "send"} THEN 1 ELSE 0)]
  /\ was' = [was EXCEPT ![p] = {}]
  /\ UNCHANGED <<daemon, thread, late, got>>

(* dial: the daemon is started when nothing listens (it may fail to); one  *)
(* that does not answer, or did not before, is an error.                   *)
Dial(p) ==
  /\ proc[p].at = "dial"
  /\ \/ /\ ~proc[p].down /\ daemon # "hung"
        /\ daemon' = "up"
        /\ proc' = [proc EXCEPT ![p] = [@ EXCEPT !.open = TRUE, !.at = First(proc[p].op), !.call = "asked"]]
     \/ /\ proc[p].down \/ daemon # "up"
        /\ proc' = [proc EXCEPT ![p] = Over(@.op, "error", daemon = "hung" /\ ~@.down)]
        /\ UNCHANGED daemon
  /\ was' = [was EXCEPT ![p] = IF proc[p].op = "look" THEN {Kind(thread)} ELSE {}]
  /\ UNCHANGED <<thread, late, sent, got, left>>

Next ==
  \/ TurnGoesOn \/ Age \/ UserTypes \/ Unload \/ Hang \/ Recover \/ HandleLate
  \/ \E p \in Procs : Begin(p) \/ Dial(p) \/ Handle(p) \/ Refuse(p) \/ TimedOut(p) \/ FailsAtOnce(p)

(* A daemon that is up answers, limits expire, processes run on.           *)
Fairness ==
  \A p \in Procs : WF_vars(Dial(p)) /\ WF_vars(Handle(p) \/ Refuse(p) \/ TimedOut(p) \/ FailsAtOnce(p))

Spec == Init /\ [][Next]_vars
FairSpec == Spec /\ Fairness

---------------------------------------------------------------------------
(* Properties.                                                             *)

Requests == {"read", "turns/list", "steer", "resume", "turn/start", "interrupt", "archive", "thread/start", "name/set"}
TurnStates == {"none", "young", "runs", "asks", "completed", "questions", "failed", "error", "interrupted", "cut"}
Failures == {"error", "undone"}
Lives == {"working", "needs_input", "idle", "failed", "stopped", "gone"}
TurnsOf == [id : 0..Turns, st : TurnStates, old : BOOLEAN]

TypeOK ==
  /\ daemon \in {"none", "up", "hung"}
  /\ thread \in [life : {"none", "loaded", "unloaded", "archived"}, named : BOOLEAN, turn : TurnsOf]
  /\ proc \in [Procs -> [op : Ops \union {"none"}, at : Requests \union {"dial", "over"},
                         call : {"none", "asked", "error"}, open : BOOLEAN, down : BOOLEAN,
                         id : 0..Turns, how : Failures \union Lives \union {"none", "ok", "left"}]]
  /\ late \subseteq [by : Procs, at : Requests, id : 0..Turns]
  /\ sent \in [Procs -> Nat] /\ got \in [Procs -> Nat]
  /\ was \in [Procs -> SUBSET {"works", "rests", "slow", "cut"}]

(* A message reaches the thread at most once, though steering may fail     *)
(* because the turn ended, may get no answer and be carried out later      *)
(* (Send, the broken connection).                                          *)
SentOnce == \A p \in Procs : got[p] <= sent[p]

(* What States reports was so at some moment while it looked, though the   *)
(* thread and its newest turn are read one after the other and a new turn  *)
(* is first listed as interrupted.  It is wrong in the two ways its age    *)
(* test allows and in no other: a turn that takes longer than YoungTurn to *)
(* begin reads as stopped, one cut off before it began as working until it *)
(* is that old (Live, YoungTurn).                                          *)
LookIsTrue ==
  \A p \in Procs : proc[p].op = "look" /\ proc[p].at = "over" =>
    /\ proc[p].how \in {"idle", "failed", "gone"} => was[p] \intersect {"rests", "cut"} # {}
    /\ proc[p].how = "stopped" => was[p] \intersect {"rests", "slow"} # {}
    /\ proc[p].how = "working" => was[p] \intersect {"works", "cut"} # {}

(* Every operation ends, though the daemon stops answering in the middle   *)
(* of it and never answers again (limit, down).                            *)
OpsEnd == \A p \in Procs : proc[p].at # "over" ~> proc[p].at = "over"
=============================================================================
