------------------------------ MODULE Notices -------------------------------
(***************************************************************************)
(* The notifications of one task.  Every csquad process that observes the  *)
(* task's session (the status line, a Stop hook, a command), and every one *)
(* that moves its row, may find an event worth a notification.  They agree *)
(* through three columns of the row: notified (the class last seen), at    *)
(* (the time of that observation) and phase (the version of the row whose  *)
(* phase event was sent), which ClaimNotice compares and sets.             *)
(*                                                                         *)
(* What moves the row is Squad's and TaskFlow's business; here any writer  *)
(* may move it to any phase its task can be in.  The task has its session: *)
(* before that nobody observes it.  A reading of the session is taken by   *)
(* the observer's own call after it noted the time, or by a call another   *)
(* csquad has in flight, whose answer the status line shares (Agents.tla). *)
(*                                                                         *)
(* Times are compared, never added, so only their order is kept: a tick of *)
(* the clock renumbers those in use.                                       *)
(***************************************************************************)
EXTENDS Integers, FiniteSets, FiniteSetsExt

CONSTANTS
  Observers,  \* csquad processes that may look at the task at a time
  Targets,    \* the phases the row may move to
  States,     \* the states the session may be in
  Moves,      \* bound: how often the row moves
  Turns,      \* bound: how often the session changes
  Crashes     \* bound: how many processes are killed

ASSUME ObserversAssumption == IsFiniteSet(Observers)
ASSUME MovesAssumption == Moves \in Nat
ASSUME TargetsAssumption ==
  Targets \subseteq {"running", "checking", "fixing", "merging", "ready", "needs_you", "failed", "done", "cancelled"}
ASSUME StatesAssumption == States \subseteq {"working", "needs_input", "idle", "failed"}

VARIABLES
  row,      \* the row: phase, ver (updated_at), and what ClaimNotice keeps
  session,  \* the engine's side: the state of the session
  shared,   \* the reading of a call in flight
  now,      \* the clock
  obs,      \* the processes
  told,     \* the notifications sent: how many of each row version's phase event
  lost,     \* versions whose phase event nobody is left to send
  left      \* what is left of the bounds

vars == <<row, session, shared, now, obs, told, lost, left>>

Quiet == ""
Finals == {"done", "cancelled"}
Phases == {"running"} \union Targets
Classes == {"needs_input", "needs_you", "ready", "failed", "done", "merged", Quiet}
Versions == 0..Moves

Finished(r) == r.phase \in Finals

(* The class an observation of session state s shows of r.  A question is  *)
(* news of a worker that was told something, or is to be accepted; a turn  *)
(* that ends, or a session that fails, only of a task without a flow.      *)
NoticeClass(r, s) ==
  CASE r.phase \in {"needs_you", "failed"} -> r.phase
    [] r.phase = "checking" \/ Finished(r) -> Quiet
    [] OTHER -> IF s = "needs_input" THEN "needs_input"
                ELSE IF r.phase = "ready" THEN "ready"
                ELSE IF r.phase # "running" \/ r.flow THEN Quiet
                ELSE IF s = "failed" THEN "failed" ELSE IF s = "idle" THEN "done" ELSE Quiet

(* The class of a phase csquad moved r to: only a landing says merged.     *)
PhaseClass(r) ==
  CASE r.phase \in {"ready", "needs_you", "failed"} -> r.phase
    [] r.phase = "done" /\ r.merge -> "merged"
    [] OTHER -> Quiet

NoObs == [pc |-> "idle", seen |-> 0, notified |-> Quiet, told |-> FALSE, phase |-> "running",
          at |-> 0, class |-> Quiet]

(* The event c of the row o has read is one of its phase: failed is an     *)
(* event of the session too.                                               *)
PhaseEvent(o, c) == c \in {"ready", "needs_you", "merged"} \/ (c = "failed" /\ obs[o].phase = "failed")

Init ==
  /\ row \in [phase : {"running"}, ver : {0}, flow : BOOLEAN, merge : BOOLEAN,
              notified : {Quiet}, at : {0}, sentFor : {Moves + 1}]
  /\ row.merge => row.flow
  /\ session \in States \intersect {"working", "idle"}
  /\ shared = session
  /\ now = 1
  /\ obs = [o \in Observers |-> NoObs]
  /\ told = [v \in Versions |-> 0]
  /\ lost = {}
  /\ left = [moves |-> Moves, turns |-> Turns, crashes |-> Crashes]

---------------------------------------------------------------------------
(* The world: the session works and answers, the clock goes on.            *)

Turn ==
  /\ left.turns > 0
  /\ \E s \in States \ {session} : session' = s
  /\ left' = [left EXCEPT !.turns = @ - 1]
  /\ UNCHANGED <<row, shared, now, obs, told, lost>>

Serve ==
  /\ shared # session
  /\ shared' = session
  /\ UNCHANGED <<row, session, now, obs, told, lost, left>>

Timed == {o \in Observers : obs[o].pc \in {"asked", "read", "dated"}}
Stamps == {row.at} \union {obs[o].at : o \in Timed}
Rank(t) == Cardinality({s \in Stamps : s < t})

Tick ==
  /\ now \in Stamps
  /\ row' = [row EXCEPT !.at = Rank(@)]
  /\ obs' = [o \in Observers |-> IF o \in Timed THEN [obs[o] EXCEPT !.at = Rank(@)] ELSE obs[o]]
  /\ now' = Cardinality(Stamps)
  /\ UNCHANGED <<session, shared, told, lost, left>>

---------------------------------------------------------------------------
(* The processes.                                                          *)

Copy(r) == [NoObs EXCEPT !.seen = r.ver, !.phase = r.phase, !.notified = r.notified,
                         !.told = (r.sentFor = r.ver)]

(* A command, a hook or the status line reads the row ...                  *)
Look(o) ==
  /\ obs[o].pc = "idle"
  /\ ~Finished(row)
  /\ obs' = [obs EXCEPT ![o] = [Copy(row) EXCEPT !.pc = "looked"]]
  /\ UNCHANGED <<row, session, shared, now, told, lost, left>>

(* ... notes the time and asks the engine ...                              *)
Ask(o) ==
  /\ obs[o].pc = "looked"
  /\ obs' = [obs EXCEPT ![o].pc = "asked", ![o].at = now]
  /\ UNCHANGED <<row, session, shared, now, told, lost, left>>

(* notice: a class the row read before already records needs no write.     *)
Worth(o, c) == c # obs[o].notified \/ (PhaseEvent(o, c) /\ ~obs[o].told)

(* What o will claim: the class c, dated at; the rest was looked at.       *)
Claims(o, c, at) == [NoObs EXCEPT !.seen = obs[o].seen, !.phase = obs[o].phase, !.at = at, !.class = c]

(* ... whose call reads the session at some time after that; with the row  *)
(* read before it shows a class, worth a claim or not ...                  *)
Read(o) ==
  /\ obs[o].pc = "asked"
  /\ now > obs[o].at
  /\ \E s \in {session, shared} :
       LET c == NoticeClass([row EXCEPT !.phase = obs[o].phase], s) IN
       obs' = [obs EXCEPT ![o] = IF Worth(o, c) THEN [Claims(o, c, @.at) EXCEPT !.pc = "read"] ELSE NoObs]
  /\ UNCHANGED <<row, session, shared, now, told, lost, left>>

(* ... or fails; then there is nothing to record.                          *)
NoAnswer(o) ==
  /\ obs[o].pc = "asked"
  /\ now > obs[o].at
  /\ obs' = [obs EXCEPT ![o] = NoObs]
  /\ UNCHANGED <<row, session, shared, now, told, lost, left>>

(* Mutant: an observation that went by the row's own class is refused.     *)
Won_NeverAgain(o, c) ==
  /\ row.phase = obs[o].phase
  /\ row.ver = obs[o].seen
  /\ row.at < obs[o].at
  /\ row.notified = Quiet
  /\ row.notified # c

(* ClaimNotice's comparison: the row as it was read, a newer observation,  *)
(* and news in it.                                                         *)
Won(o, c) ==
  /\ row.phase = obs[o].phase
  /\ row.ver = obs[o].seen
  /\ row.at < obs[o].at
  /\ IF PhaseEvent(o, c) THEN row.notified # c \/ row.sentFor # row.ver ELSE row.notified # c

(* Mutant: a phase event is sent whenever the class changes.               *)
MustSend_OnChange(o, c) == c # Quiet

MustSend(o, c) == IF PhaseEvent(o, c) THEN row.sentFor # row.ver ELSE c # Quiet

(* ClaimNotice's write; the winner then starts `csquad notify send`.       *)
Claim(o, c) ==
  IF Won(o, c)
  THEN /\ row' = [row EXCEPT !.notified = c, !.at = obs[o].at,
                             !.sentFor = IF PhaseEvent(o, c) THEN row.ver ELSE @]
       /\ obs' = [obs EXCEPT ![o] = IF MustSend(o, c)
                                    THEN [NoObs EXCEPT !.pc = "won", !.class = c, !.seen = row.ver,
                                                       !.phase = row.phase]
                                    ELSE NoObs]
  ELSE /\ UNCHANGED row
       /\ obs' = [obs EXCEPT ![o] = NoObs]

Observed(o) ==
  /\ obs[o].pc = "read"
  /\ Claim(o, obs[o].class)
  /\ UNCHANGED <<session, shared, now, told, lost, left>>

(* A compare-and-set of a pass, a check or a landing moves the row; the    *)
(* process that wrote it goes on to `moved`, which has something to say of *)
(* some phases (the version is new, so it is worth a claim).  finish and   *)
(* cancel say nothing, also of a task that was launched to be merged.      *)
(* Without a check nothing is checked or ready.                            *)
Move(o) ==
  /\ obs[o].pc = "idle"
  /\ ~Finished(row)
  /\ left.moves > 0
  /\ left' = [left EXCEPT !.moves = @ - 1]
  /\ \E p \in Targets \ {row.phase} :
       /\ ~row.flow => p \notin {"checking", "fixing", "ready"}
       /\ row' = [row EXCEPT !.phase = p, !.ver = @ + 1]
       /\ \/ /\ PhaseClass(row') # Quiet
             /\ obs' = [obs EXCEPT ![o] = [NoObs EXCEPT !.pc = "moved", !.seen = row'.ver, !.phase = p,
                                                        !.class = PhaseClass(row')]]
             /\ UNCHANGED lost
          \/ /\ PhaseClass(row') = Quiet \/ p \in Finals
             /\ lost' = IF PhaseClass(row') = Quiet THEN lost ELSE lost \union {row'.ver}
             /\ UNCHANGED obs
  /\ UNCHANGED <<session, shared, now, told>>

(* Mutant: the event of a move is dated by the observation that led to it. *)
MovedAt_Observed(o) ==
  /\ obs[o].pc = "moved"
  /\ obs' = [obs EXCEPT ![o].pc = "dated", ![o].at = row.at]
  /\ UNCHANGED <<row, session, shared, now, told, lost, left>>

(* The event of the move is dated when it is written.  The git commands,   *)
(* the check or the engine's call that led to the move took time since the *)
(* last claim: its stamp is not of this millisecond.                       *)
MovedAt(o) ==
  /\ obs[o].pc = "moved"
  /\ now # row.at
  /\ obs' = [obs EXCEPT ![o].pc = "dated", ![o].at = now]
  /\ UNCHANGED <<row, session, shared, now, told, lost, left>>

Moved(o) ==
  /\ obs[o].pc = "dated"
  /\ Claim(o, obs[o].class)
  /\ UNCHANGED <<session, shared, now, told, lost, left>>

(* The detached `csquad notify send`.                                      *)
NotifySend(o) ==
  /\ obs[o].pc = "won"
  /\ told' = IF PhaseEvent(o, obs[o].class) THEN [told EXCEPT ![obs[o].seen] = @ + 1] ELSE told
  /\ obs' = [obs EXCEPT ![o] = NoObs]
  /\ UNCHANGED <<row, session, shared, now, lost, left>>

(* Nobody else sends what o has claimed, nor the event of a landing, which *)
(* no observation repeats.                                                 *)
Alone(o) ==
  \/ obs[o].pc = "won" /\ PhaseEvent(o, obs[o].class)
  \/ obs[o].pc \in {"moved", "dated"} /\ obs[o].phase = "done"

Crash(o) ==
  /\ obs[o].pc # "idle"
  /\ left.crashes > 0
  /\ left' = [left EXCEPT !.crashes = @ - 1]
  /\ lost' = IF Alone(o) THEN lost \union {obs[o].seen} ELSE lost
  /\ obs' = [obs EXCEPT ![o] = NoObs]
  /\ UNCHANGED <<row, session, shared, now, told>>

Step(o) == Ask(o) \/ Read(o) \/ Observed(o) \/ MovedAt(o) \/ Moved(o) \/ NotifySend(o)

Next ==
  \/ Turn \/ Serve \/ Tick
  \/ \E o \in Observers : Look(o) \/ Step(o) \/ NoAnswer(o) \/ Move(o) \/ Crash(o)

(* Processes run on, the status line keeps looking, and of its calls some  *)
(* answer.                                                                 *)
Fairness ==
  /\ WF_vars(Tick) /\ WF_vars(Serve)
  /\ \A o \in Observers : WF_vars(Look(o)) /\ WF_vars(Step(o)) /\ SF_vars(Read(o))

Spec == Init /\ [][Next]_vars
FairSpec == Spec /\ Fairness

---------------------------------------------------------------------------
(* Properties.                                                             *)

TypeOK ==
  /\ row \in [phase : Phases, ver : Versions, flow : BOOLEAN, merge : BOOLEAN,
              notified : Classes, at : Nat, sentFor : 0..(Moves + 1)]
  /\ session \in States /\ shared \in States
  /\ now \in Nat
  /\ obs \in [Observers -> [pc : {"idle", "looked", "asked", "read", "moved", "dated", "won"},
                            seen : Versions, notified : Classes, told : BOOLEAN,
                            phase : Phases, at : Nat, class : Classes]]
  /\ told \in [Versions -> Nat]
  /\ lost \subseteq Versions

(* However many processes find it, a phase event (ready, needs you,        *)
(* failed, merged) is sent at most once for a version of the row, held     *)
(* messages, late observations and a failure of the session itself in      *)
(* between included (ClaimNotice's notified_phase, store.go:365-368).      *)
PhaseSentOnce == \A v \in Versions : told[v] <= 1

(* What csquad recorded never gets stuck on a past observation: once the   *)
(* session and the row rest, the class recorded is the one they show, late *)
(* and shared readings notwithstanding (ClaimNotice's comparison of the    *)
(* times and versions).                                                    *)
Settles == <>[](Finished(row) \/ row.notified = NoticeClass(row, session))

(* A phase event is sent at last, unless the process that claimed it was  *)
(* killed: ready, needs you and failed though the one that moved the row   *)
(* dies before it claims them, because every observation repeats them;     *)
(* merged by the one that landed (App.moved, App.observed).  While the     *)
(* session asks for input a ready task shows that instead.                 *)
PhaseTold ==
  <>[](\/ PhaseClass(row) = Quiet
       \/ row.phase = "ready" /\ session = "needs_input"
       \/ told[row.ver] = 1
       \/ row.ver \in lost)
=============================================================================
