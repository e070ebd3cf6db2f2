--------------------------- MODULE NoticesProofs ----------------------------
(***************************************************************************)
(* A phase event is sent at most once, for any number of observers, moves  *)
(* and crashes: who wins the claim of a version's event is alone with it,  *)
(* because the winning write stores that version (notified_phase).  And it *)
(* is not lost but with its process: what the row stores as sent for was   *)
(* sent, or is owed by who claimed it, or was lost with it (Accounted).    *)
(***************************************************************************)
EXTENDS Notices, FiniteSetTheorems, TLAPS

(* o has claimed the phase event of version v and not sent it yet.         *)
Owes(o, v) == obs[o].pc = "won" /\ PhaseEvent(o, obs[o].class) /\ obs[o].seen = v

(* The version grows within its bound.                                     *)
Versioned == row.ver \in Nat /\ left.moves \in Nat /\ row.ver + left.moves = Moves

(* What no row stores was neither sent nor claimed.                        *)
Unclaimed == \A v \in Versions : v > row.ver \/ (v = row.ver /\ row.sentFor # v) =>
  told[v] = 0 /\ \A o \in Observers : ~Owes(o, v)

(* An event claimed is not sent, and claimed by one.                       *)
Claimed == \A o \in Observers : \A v \in Versions : Owes(o, v) =>
  told[v] = 0 /\ \A q \in Observers : Owes(q, v) => q = o

IInv == TypeOK /\ Versioned /\ Unclaimed /\ Claimed /\ PhaseSentOnce

(* An observer between two observations.                                   *)
LEMMA IdleTypes == NoObs \in [pc : {"idle"}, seen : Versions, notified : Classes, told : BOOLEAN, phase : Phases,
                             at : Nat, class : Classes]
  BY MovesAssumption DEF NoObs, Versions, Classes, Phases

(* At first nothing was sent.                                              *)
LEMMA InitIInv == Init => IInv
<1> SUFFICES ASSUME Init PROVE IInv
  OBVIOUS
<1>1. row.ver = 0 /\ row.sentFor = Moves + 1 /\ left.moves = Moves
      /\ told = [v \in Versions |-> 0] /\ obs = [o \in Observers |-> NoObs]
  BY DEF Init
<1>2. TypeOK
  BY IdleTypes, MovesAssumption DEF Init, TypeOK, Versions, Phases, Classes
<1>3. \A o \in Observers, v \in Versions : ~Owes(o, v)
  BY <1>1 DEF Owes, NoObs
<1>4. Versioned /\ Unclaimed /\ Claimed /\ PhaseSentOnce
  BY <1>1, <1>3, MovesAssumption DEF Versioned, Unclaimed, Claimed, PhaseSentOnce, Versions
<1> QED
  BY <1>2, <1>4 DEF IInv

(* The classes an observation shows.                                       *)
LEMMA ClassTypes ==
  ASSUME NEW r, NEW s
  PROVE  NoticeClass(r, s) \in Classes /\ PhaseClass(r) \in Classes
<1>1. CASE r.phase \in {"needs_you", "failed"}
  BY <1>1 DEF NoticeClass, PhaseClass, Classes, Quiet
<1>2. CASE r.phase \notin {"needs_you", "failed"} /\ (r.phase = "checking" \/ Finished(r))
  BY <1>2 DEF NoticeClass, PhaseClass, Classes, Quiet
<1>3. CASE r.phase \notin {"needs_you", "failed", "checking"} /\ ~Finished(r)
  BY <1>3 DEF NoticeClass, PhaseClass, Classes, Quiet
<1> QED
  BY <1>1, <1>2, <1>3

(* A step that claims and sends nothing and moves no row forward.          *)
LEMMA QuietStep ==
  ASSUME IInv, TypeOK',
         row'.ver = row.ver, row'.sentFor = row.sentFor, told' = told, left'.moves = left.moves,
         \A o \in Observers : obs'[o].pc = "won" => obs'[o] = obs[o]
  PROVE  IInv'
<1>1. \A o \in Observers, v \in Versions : Owes(o, v)' => Owes(o, v)
  BY DEF Owes, PhaseEvent
<1>2. Versioned' /\ PhaseSentOnce'
  BY DEF IInv, Versioned, PhaseSentOnce
<1>3. Unclaimed' /\ Claimed'
  BY <1>1 DEF IInv, Unclaimed, Claimed
<1> QED
  BY <1>2, <1>3 DEF IInv

(* ClaimNotice: a winner that must send stores the version it sends for.   *)
LEMMA ClaimStep ==
  ASSUME IInv, NEW o \in Observers, NEW c \in Classes, Claim(o, c),
         UNCHANGED <<session, shared, now, told, lost, left>>
  PROVE  IInv'
<1> USE DEF IInv
<1>0. row.ver \in Versions
  BY DEF TypeOK
<1>1. CASE ~Won(o, c)
  <2>1. row' = row /\ obs' = [obs EXCEPT ![o] = NoObs]
    BY <1>1 DEF Claim
  <2>2. TypeOK'
    BY <2>1, IdleTypes DEF TypeOK
  <2> QED
    BY <2>1, <2>2, QuietStep DEF NoObs, TypeOK
<1>2. CASE Won(o, c)
  <2>1. /\ row' = [row EXCEPT !.notified = c, !.at = obs[o].at,
                             !.sentFor = IF PhaseEvent(o, c) THEN row.ver ELSE @]
        /\ obs' = [obs EXCEPT ![o] = IF MustSend(o, c)
                                    THEN [NoObs EXCEPT !.pc = "won", !.class = c, !.seen = row.ver,
                                                       !.phase = row.phase]
                                    ELSE NoObs]
    BY <1>2 DEF Claim
  <2>0. obs[o].phase = row.phase /\ (PhaseEvent(o, c) <=> c \in {"ready", "needs_you", "merged"} \/ (c = "failed" /\ row.phase = "failed"))
    BY <1>2 DEF Won, PhaseEvent
  <2>2. TypeOK'
    <3>1. obs'[o] \in [pc : {"idle", "won"}, seen : Versions, notified : Classes, told : BOOLEAN, phase : Phases,
                       at : Nat, class : Classes]
      BY <2>1, <1>0, IdleTypes DEF TypeOK
    <3>2. row' \in [phase : Phases, ver : Versions, flow : BOOLEAN, merge : BOOLEAN,
                    notified : Classes, at : Nat, sentFor : 0..(Moves + 1)]
      <4>1. obs[o].at \in Nat /\ row.ver \in 0..(Moves + 1)
        BY <1>0, MovesAssumption DEF TypeOK, Versions
      <4> QED
        BY <2>1, <4>1 DEF TypeOK
    <3> QED
      BY <2>1, <3>1, <3>2 DEF TypeOK
  <2>3. Versioned' /\ PhaseSentOnce' /\ row'.ver = row.ver
    BY <2>1 DEF TypeOK, Versioned, PhaseSentOnce
  <2>4. \A q \in Observers \ {o}, v \in Versions : Owes(q, v)' <=> Owes(q, v)
    BY <2>1 DEF TypeOK, Owes, PhaseEvent
  <2>5. \A v \in Versions : Owes(o, v)' => MustSend(o, c) /\ PhaseEvent(o, c) /\ v = row.ver
    <3> DEFINE w == [NoObs EXCEPT !.pc = "won", !.class = c, !.seen = row.ver, !.phase = row.phase]
    <3>1. w.class = c /\ w.seen = row.ver /\ w.phase = row.phase /\ NoObs.pc # "won"
      BY DEF NoObs
    <3>2. obs'[o] = IF MustSend(o, c) THEN w ELSE NoObs
      BY <2>1 DEF TypeOK
    <3> HIDE DEF w
    <3> QED
      BY <2>0, <3>1, <3>2 DEF Owes, PhaseEvent
  <2>6. MustSend(o, c) /\ PhaseEvent(o, c) => row.sentFor # row.ver
    BY DEF MustSend
  <2>7. Unclaimed'
    <3> SUFFICES ASSUME NEW v \in Versions, v > row.ver \/ (v = row.ver /\ row'.sentFor # v)
                 PROVE  told[v] = 0 /\ \A q \in Observers : ~Owes(q, v)'
      BY <2>3 DEF Unclaimed
    <3>1. row'.sentFor = IF PhaseEvent(o, c) THEN row.ver ELSE row.sentFor
      BY <2>1 DEF TypeOK
    <3>2. ~Owes(o, v)' /\ (v > row.ver \/ (v = row.ver /\ row.sentFor # v))
      BY <2>5, <3>1, <1>0 DEF Versions
    <3> QED
      BY <2>4, <3>2 DEF Unclaimed
  <2>8. Claimed'
    BY <2>1, <2>3, <2>4, <2>5, <2>6, <1>0 DEF Claimed, Unclaimed, TypeOK
  <2> QED
    BY <2>2, <2>3, <2>7, <2>8
<1> QED
  BY <1>1, <1>2

(* The times that matter are finitely many, and ranked.                    *)
LEMMA TickTypes == TypeOK => Cardinality(Stamps) \in Nat /\ \A t : Rank(t) \in Nat
<1> SUFFICES ASSUME TypeOK PROVE Cardinality(Stamps) \in Nat /\ \A t : Rank(t) \in Nat
  OBVIOUS
<1>1. IsFiniteSet(Timed)
  BY ObserversAssumption, FS_Subset DEF Timed
<1>2. IsFiniteSet({obs[o].at : o \in Timed})
  <2> DEFINE T == {obs[o].at : o \in Timed}
             at == [o \in Timed |-> obs[o].at]
  <2>1. at \in Surjection(Timed, T)
    BY DEF Surjection
  <2> HIDE DEF T, at
  <2>2. IsFiniteSet(T)
    BY <1>1, <2>1, FS_Surjection
  <2> QED
    BY <2>2 DEF T
<1>3. IsFiniteSet(Stamps)
  BY <1>2, FS_Singleton, FS_Union DEF Stamps
<1>4. \A t : IsFiniteSet({s \in Stamps : s < t})
  BY <1>3, FS_Subset
<1> QED
  BY <1>3, <1>4, FS_CardinalityType DEF Rank

(* The steps of the world, and those of a process that only look.          *)
LEMMA LookingStep ==
  ASSUME IInv,
         \/ Turn \/ Serve \/ Tick
         \/ \E o \in Observers : Look(o) \/ Ask(o) \/ Read(o) \/ NoAnswer(o) \/ MovedAt(o)
  PROVE  IInv'
<1> USE DEF IInv
<1>1. CASE Turn \/ Serve
  <2>1. TypeOK'
    BY <1>1 DEF Turn, Serve, TypeOK
  <2>2. left'.moves = left.moves
    <3>1. CASE Turn
      BY <3>1 DEF Turn
    <3>2. CASE Serve
      BY <3>2 DEF Serve
    <3> QED
      BY <1>1, <3>1, <3>2
  <2>3. UNCHANGED <<row, told, obs>>
    BY <1>1 DEF Turn, Serve
  <2> QED
    BY <2>1, <2>2, <2>3, QuietStep
<1>2. CASE Tick
  <2>1. TypeOK'
    <3>1. row' \in [phase : Phases, ver : Versions, flow : BOOLEAN, merge : BOOLEAN,
                    notified : Classes, at : Nat, sentFor : 0..(Moves + 1)]
      BY <1>2, TickTypes DEF Tick, TypeOK
    <3>2. now' \in Nat
      BY <1>2, TickTypes DEF Tick
    <3>3. obs' \in [Observers -> [pc : {"idle", "looked", "asked", "read", "moved", "dated", "won"},
                            seen : Versions, notified : Classes, told : BOOLEAN,
                            phase : Phases, at : Nat, class : Classes]]
      BY <1>2, TickTypes DEF Tick, TypeOK
    <3> QED
      BY <1>2, <3>1, <3>2, <3>3 DEF Tick, TypeOK
  <2>2. \A o \in Observers : obs'[o].pc = "won" => obs'[o] = obs[o]
    BY <1>2 DEF Tick, TypeOK, Timed
  <2> QED
    BY <1>2, <2>1, <2>2, QuietStep DEF Tick, TypeOK
<1>3. ASSUME NEW o \in Observers, Look(o) \/ Ask(o) \/ Read(o) \/ NoAnswer(o) \/ MovedAt(o) PROVE IInv'
  <2>1. TypeOK' /\ obs'[o].pc # "won" /\ \A q \in Observers \ {o} : obs'[q] = obs[q]
    <3>1. CASE Look(o)
      BY <3>1, IdleTypes DEF Look, Copy, NoObs, TypeOK
    <3>2. CASE Ask(o) \/ MovedAt(o)
      <4>1. PICK x \in {"asked", "dated"} : obs' = [obs EXCEPT ![o].pc = x, ![o].at = now]
        BY <3>2 DEF Ask, MovedAt
      <4>2. obs' \in [Observers -> [pc : {"idle", "looked", "asked", "read", "moved", "dated", "won"},
                            seen : Versions, notified : Classes, told : BOOLEAN,
                            phase : Phases, at : Nat, class : Classes]]
        BY <4>1 DEF TypeOK
      <4>3. obs'[o].pc # "won" /\ \A q \in Observers \ {o} : obs'[q] = obs[q]
        BY <4>1 DEF TypeOK
      <4>4. UNCHANGED <<row, session, shared, now, told, lost>>
        BY <3>2 DEF Ask, MovedAt
      <4> QED
        BY <4>2, <4>3, <4>4 DEF TypeOK
    <3>3. CASE Read(o)
      <4>1. PICK s : obs' = [obs EXCEPT ![o] = IF Worth(o, NoticeClass([row EXCEPT !.phase = obs[o].phase], s))
                                               THEN [Claims(o, NoticeClass([row EXCEPT !.phase = obs[o].phase], s), @.at) EXCEPT !.pc = "read"]
                                               ELSE NoObs]
        BY <3>3 DEF Read
      <4> DEFINE c == NoticeClass([row EXCEPT !.phase = obs[o].phase], s)
                 w == [Claims(o, c, obs[o].at) EXCEPT !.pc = "read"]
      <4>2. c \in Classes
        BY ClassTypes
      <4> HIDE DEF c
      <4>3. w \in [pc : {"read"}, seen : Versions, notified : Classes, told : BOOLEAN, phase : Phases,
                   at : Nat, class : Classes]
        BY <4>2, IdleTypes DEF Claims, NoObs, TypeOK
      <4>4. obs' = [obs EXCEPT ![o] = IF Worth(o, c) THEN w ELSE NoObs]
        BY <4>1 DEF c
      <4> HIDE DEF w
      <4>5. obs' \in [Observers -> [pc : {"idle", "looked", "asked", "read", "moved", "dated", "won"},
                            seen : Versions, notified : Classes, told : BOOLEAN,
                            phase : Phases, at : Nat, class : Classes]]
        BY <4>3, <4>4, IdleTypes DEF TypeOK
      <4>6. obs'[o].pc # "won" /\ \A q \in Observers \ {o} : obs'[q] = obs[q]
        BY <4>3, <4>4 DEF NoObs, TypeOK
      <4> QED
        BY <3>3, <4>5, <4>6 DEF Read, TypeOK
    <3>4. CASE NoAnswer(o)
      BY <3>4, IdleTypes DEF NoAnswer, NoObs, TypeOK
    <3> QED
      BY <1>3, <3>1, <3>2, <3>3, <3>4
  <2>2. UNCHANGED <<row, told, left>>
    BY <1>3 DEF Look, Ask, Read, NoAnswer, MovedAt
  <2> QED
    BY <2>1, <2>2, QuietStep
<1> QED
  BY <1>1, <1>2, <1>3

(* A new version has sent nothing.                                         *)
LEMMA MoveStep ==
  ASSUME IInv, NEW o \in Observers, Move(o)
  PROVE  IInv'
<1> USE MovesAssumption DEF IInv
<1>1. /\ row'.ver = row.ver + 1 /\ row'.ver \in Versions /\ row.ver \in Versions
      /\ row'.sentFor = row.sentFor /\ told' = told
      /\ left'.moves = left.moves - 1 /\ left'.moves \in Nat
  <2>1. PICK p \in Targets : row' = [row EXCEPT !.phase = p, !.ver = @ + 1]
    BY DEF Move
  <2>2. row'.ver = row.ver + 1 /\ row'.sentFor = row.sentFor /\ row.ver \in 0..Moves
    BY <2>1 DEF TypeOK, Versions
  <2>3. left.moves > 0 /\ left' = [left EXCEPT !.moves = @ - 1] /\ told' = told
    BY DEF Move
  <2>4. left'.moves = left.moves - 1 /\ left'.moves \in Nat
    BY <2>3 DEF TypeOK, Versioned
  <2>5. row'.ver \in 0..Moves
    BY <2>2, <2>3 DEF Versioned, TypeOK
  <2> QED
    BY <2>2, <2>3, <2>4, <2>5 DEF Versions
<1>2. row' \in [phase : Phases, ver : Versions, flow : BOOLEAN, merge : BOOLEAN,
                notified : Classes, at : Nat, sentFor : 0..(Moves + 1)]
  BY <1>1 DEF Move, TypeOK, Phases
<1>3. /\ \A q \in Observers \ {o} : obs'[q] = obs[q]
      /\ obs'[o].pc # "won"
      /\ obs' \in [Observers -> [pc : {"idle", "looked", "asked", "read", "moved", "dated", "won"},
                            seen : Versions, notified : Classes, told : BOOLEAN,
                            phase : Phases, at : Nat, class : Classes]]
  <2>1. PICK p \in Targets : \/ obs' = [obs EXCEPT ![o] = [NoObs EXCEPT !.pc = "moved", !.seen = row'.ver, !.phase = p,
                                                                       !.class = PhaseClass(row')]]
                             \/ UNCHANGED obs
    BY DEF Move
  <2> DEFINE w == [NoObs EXCEPT !.pc = "moved", !.seen = row'.ver, !.phase = p, !.class = PhaseClass(row')]
  <2>2. w \in [pc : {"moved"}, seen : Versions, notified : Classes, told : BOOLEAN, phase : Phases,
               at : Nat, class : Classes]
    BY <1>1, <2>1, IdleTypes, ClassTypes DEF NoObs, Phases
  <2>3. obs[o].pc = "idle" /\ (obs' = [obs EXCEPT ![o] = w] \/ UNCHANGED obs)
    BY <2>1 DEF Move
  <2> HIDE DEF w
  <2> QED
    BY <2>2, <2>3 DEF TypeOK
<1>4. TypeOK'
  <2>1. lost' \subseteq Versions
    BY <1>1 DEF Move, TypeOK
  <2> QED
    BY <1>2, <1>3, <2>1 DEF Move, TypeOK
<1>5. \A q \in Observers, v \in Versions : Owes(q, v)' => Owes(q, v)
  BY <1>3 DEF Owes, PhaseEvent
<1>6. Versioned' /\ PhaseSentOnce'
  BY <1>1 DEF Versioned, Versions, PhaseSentOnce
<1>7. Unclaimed' /\ Claimed'
  BY <1>1, <1>5 DEF Unclaimed, Claimed, Versions
<1> QED
  BY <1>4, <1>6, <1>7

(* The owner of an event is its only sender.                               *)
LEMMA SendStep ==
  ASSUME IInv, NEW o \in Observers, NotifySend(o)
  PROVE  IInv'
<1> USE DEF IInv
<1>1. obs'[o] = NoObs /\ \A q \in Observers \ {o} : obs'[q] = obs[q]
  BY DEF NotifySend, TypeOK
<1>2. \A q \in Observers, v \in Versions : Owes(q, v)' => q # o /\ Owes(q, v)
  BY <1>1 DEF Owes, NoObs, PhaseEvent
<1>3. CASE ~PhaseEvent(o, obs[o].class)
  <2>1. TypeOK'
    BY <1>3, IdleTypes DEF NotifySend, TypeOK
  <2> QED
    BY <1>1, <1>3, <2>1, QuietStep DEF NotifySend, NoObs
<1>4. CASE PhaseEvent(o, obs[o].class)
  <2> DEFINE s == obs[o].seen
  <2>1. s \in Versions /\ Owes(o, s) /\ told[s] = 0
    BY <1>4 DEF NotifySend, Owes, TypeOK, Claimed
  <2>2. told' = [told EXCEPT ![s] = 1]
    BY <1>4, <2>1 DEF NotifySend
  <2>3. TypeOK'
    BY <2>1, <2>2, IdleTypes DEF NotifySend, TypeOK
  <2>4. Versioned' /\ PhaseSentOnce'
    BY <2>1, <2>2 DEF NotifySend, TypeOK, Versioned, PhaseSentOnce
  <2>5. Unclaimed'
    BY <1>2, <2>1, <2>2 DEF NotifySend, TypeOK, Unclaimed
  <2>6. Claimed'
    BY <1>2, <2>1, <2>2 DEF TypeOK, Claimed
  <2> QED
    BY <2>3, <2>4, <2>5, <2>6
<1> QED
  BY <1>3, <1>4

(* An observer that dies owes nothing any more.                            *)
LEMMA CrashStep ==
  ASSUME IInv, NEW o \in Observers, Crash(o)
  PROVE  IInv'
<1>1. obs'[o] = NoObs /\ \A q \in Observers \ {o} : obs'[q] = obs[q]
  BY DEF Crash, IInv, TypeOK
<1>2. obs[o].seen \in Versions /\ lost' \subseteq Versions
  BY DEF Crash, IInv, TypeOK
<1>3. TypeOK'
  BY <1>1, <1>2, IdleTypes DEF Crash, IInv, TypeOK
<1>4. left'.moves = left.moves
  BY DEF Crash
<1> QED
  BY <1>1, <1>3, <1>4, QuietStep DEF Crash, NoObs

(* The invariant is inductive.                                             *)
LEMMA NextIInv == IInv /\ [Next]_vars => IInv'
<1> SUFFICES ASSUME IInv, [Next]_vars PROVE IInv'
  OBVIOUS
<1>1. CASE UNCHANGED vars
  BY <1>1 DEF vars, IInv, TypeOK, Versioned, Unclaimed, Claimed, PhaseSentOnce, Owes, PhaseEvent
<1>2. CASE Turn \/ Serve \/ Tick
  BY <1>2, LookingStep
<1>3. ASSUME NEW o \in Observers, Look(o) \/ Step(o) \/ NoAnswer(o) \/ Move(o) \/ Crash(o) PROVE IInv'
  <2>1. CASE Look(o) \/ Ask(o) \/ Read(o) \/ NoAnswer(o) \/ MovedAt(o)
    BY <2>1, LookingStep
  <2>2. CASE Observed(o) \/ Moved(o)
    <3>1. Claim(o, obs[o].class) /\ UNCHANGED <<session, shared, now, told, lost, left>>
      BY <2>2 DEF Observed, Moved
    <3> DEFINE c == obs[o].class
    <3>2. c \in Classes /\ Claim(o, c)
      BY <3>1 DEF IInv, TypeOK
    <3> HIDE DEF c
    <3> QED
      BY <3>1, <3>2, ClaimStep
  <2>3. CASE NotifySend(o) \/ Move(o) \/ Crash(o)
    BY <2>3, SendStep, MoveStep, CrashStep
  <2> QED
    BY <1>3, <2>1, <2>2, <2>3 DEF Step
<1> QED
  BY <1>1, <1>2, <1>3 DEF Next

(* The columns ClaimNotice compares keep their types, for any bounds.      *)
THEOREM NoticesType == Spec => []TypeOK
<1>1. IInv => TypeOK
  BY DEF IInv
<1> QED
  BY <1>1, InitIInv, NextIInv, PTL DEF Spec

(* A phase event of a version is sent at most once, by any number of       *)
(* processes that observe it (a failed row too), move the row and die.     *)
THEOREM PhaseIsSentOnce == Spec => []PhaseSentOnce
<1>1. IInv => PhaseSentOnce
  BY DEF IInv
<1> QED
  BY <1>1, InitIInv, NextIInv, PTL DEF Spec

---------------------------------------------------------------------------
(* The version the row stores as sent for was sent, or who claimed it      *)
(* still owes it or died with it: nothing is stored that nobody sends.     *)
Accounted ==
  row.sentFor \in Versions =>
    \/ told[row.sentFor] = 1
    \/ \E o \in Observers : Owes(o, row.sentFor)
    \/ row.sentFor \in lost

(* A step that leaves alone what is owed.                                  *)
LEMMA OwedStep ==
  ASSUME Accounted, row'.sentFor = row.sentFor, told' = told, lost \subseteq lost',
         \A o \in Observers : obs[o].pc = "won" => obs'[o] = obs[o]
  PROVE  Accounted'
<1>1. \A o \in Observers, v \in Versions : Owes(o, v) => Owes(o, v)'
  BY DEF Owes, PhaseEvent
<1> QED
  BY <1>1 DEF Accounted

(* Who stores a version owes it at once.                                   *)
LEMMA ClaimOwes ==
  ASSUME IInv, Accounted, NEW o \in Observers, NEW c, Claim(o, c), obs[o].pc # "won", UNCHANGED <<told, lost>>
  PROVE  Accounted'
<1>0. row.ver \in Versions /\ o \in DOMAIN obs /\ \A q \in Observers : q \in DOMAIN obs
  BY DEF IInv, TypeOK
<1>1. \A q \in Observers : obs[q].pc = "won" => obs'[q] = obs[q]
  BY <1>0 DEF Claim
<1>2. CASE row'.sentFor = row.sentFor
  BY <1>1, <1>2, OwedStep
<1>3. CASE row'.sentFor # row.sentFor
  <2>1. /\ row' = [row EXCEPT !.notified = c, !.at = obs[o].at,
                             !.sentFor = IF PhaseEvent(o, c) THEN row.ver ELSE @]
        /\ obs' = [obs EXCEPT ![o] = IF MustSend(o, c)
                                    THEN [NoObs EXCEPT !.pc = "won", !.class = c, !.seen = row.ver,
                                                       !.phase = row.phase]
                                    ELSE NoObs]
    BY <1>3 DEF Claim
  <2>2. PhaseEvent(o, c) /\ row'.sentFor = row.ver /\ row.sentFor # row.ver
    BY <1>3, <2>1 DEF IInv, TypeOK
  <2>3. MustSend(o, c)
    BY <2>2 DEF MustSend
  <2>4. Owes(o, row.ver)'
    <3>1. obs'[o] = [NoObs EXCEPT !.pc = "won", !.class = c, !.seen = row.ver, !.phase = row.phase]
      BY <1>0, <2>1, <2>3
    <3>2. obs'[o].pc = "won" /\ obs'[o].class = c /\ obs'[o].seen = row.ver /\ obs'[o].phase = row.phase
      BY <3>1 DEF NoObs
    <3>3. row'.ver = row.ver
      BY <2>1 DEF IInv, TypeOK
    <3>4. obs[o].phase = row.phase
      BY <1>3 DEF Claim, Won
    <3> QED
      BY <2>2, <3>2, <3>3, <3>4 DEF Owes, PhaseEvent
  <2>5. row'.ver = row.ver
    BY <2>1 DEF IInv, TypeOK
  <2> QED
    BY <2>2, <2>4, <2>5 DEF Accounted
<1> QED
  BY <1>2, <1>3

(* Every other step sends what it owes, dies with it, or leaves it alone.  *)
LEMMA NextAccounted == IInv /\ Accounted /\ [Next]_vars => Accounted'
<1> SUFFICES ASSUME IInv, Accounted, [Next]_vars PROVE Accounted'
  OBVIOUS
<1>0. Observers = DOMAIN obs /\ Versions = DOMAIN told
  BY DEF IInv, TypeOK
<1>1. CASE UNCHANGED vars
  BY <1>1, OwedStep DEF vars
<1>2. CASE Turn \/ Serve
  BY <1>2, OwedStep DEF Turn, Serve
<1>3. CASE Tick
  BY <1>3, OwedStep DEF Tick, Timed, IInv, TypeOK
<1>4. ASSUME NEW o \in Observers, Look(o) \/ Ask(o) \/ Read(o) \/ NoAnswer(o) \/ MovedAt(o) PROVE Accounted'
  BY <1>0, <1>4, OwedStep DEF Look, Ask, Read, NoAnswer, MovedAt
<1>5. ASSUME NEW o \in Observers, Move(o) PROVE Accounted'
  <2>1. row'.sentFor = row.sentFor /\ lost \subseteq lost'
    BY <1>5 DEF Move, IInv, TypeOK
  <2>2. obs[o].pc = "idle" /\ \A q \in Observers \ {o} : obs'[q] = obs[q]
    BY <1>0, <1>5 DEF Move
  <2> QED
    BY <1>5, <2>1, <2>2, OwedStep DEF Move
<1>6. ASSUME NEW o \in Observers, Observed(o) \/ Moved(o) PROVE Accounted'
  BY <1>6, ClaimOwes DEF Observed, Moved
<1>7. ASSUME NEW o \in Observers, NotifySend(o) PROVE Accounted'
  <2> DEFINE v == row.sentFor
  <2> SUFFICES ASSUME v \in Versions PROVE told'[v] = 1 \/ (\E q \in Observers : Owes(q, v)') \/ v \in lost
    BY <1>7 DEF NotifySend, Accounted
  <2>1. CASE Owes(o, v)
    <3>1. told[v] = 0 /\ told' = [told EXCEPT ![v] = @ + 1]
      BY <1>7, <2>1 DEF IInv, Claimed, NotifySend, Owes
    <3> QED
      BY <1>0, <3>1
  <2>2. CASE \E q \in Observers \ {o} : Owes(q, v)
    BY <1>0, <1>7, <2>2 DEF NotifySend, Owes, PhaseEvent
  <2>3. CASE told[v] = 1
    <3>1. obs[o].pc = "won" /\ (told' = told \/ (PhaseEvent(o, obs[o].class) /\ told' = [told EXCEPT ![obs[o].seen] = @ + 1]))
      BY <1>7 DEF NotifySend
    <3>2. PhaseEvent(o, obs[o].class) => Owes(o, obs[o].seen) /\ obs[o].seen \in Versions
      BY <3>1 DEF Owes, IInv, TypeOK
    <3>3. PhaseEvent(o, obs[o].class) => told[obs[o].seen] = 0
      BY <3>2 DEF IInv, Claimed
    <3> QED
      BY <1>0, <2>3, <3>1, <3>3
  <2> QED
    BY <2>1, <2>2, <2>3 DEF Accounted
<1>8. ASSUME NEW o \in Observers, Crash(o) PROVE Accounted'
  <2>1. /\ UNCHANGED <<row, told>> /\ obs' = [obs EXCEPT ![o] = NoObs] /\ lost \subseteq lost'
        /\ obs[o].pc = "won" /\ PhaseEvent(o, obs[o].class) => obs[o].seen \in lost'
    BY <1>8 DEF Crash, Alone
  <2>2. \A q \in Observers \ {o}, v \in Versions : Owes(q, v) => Owes(q, v)'
    BY <1>0, <2>1 DEF Owes, PhaseEvent
  <2>3. \A v \in Versions : Owes(o, v) => v \in lost'
    BY <2>1 DEF Owes
  <2> QED
    BY <2>1, <2>2, <2>3 DEF Accounted
<1> QED
  BY <1>1, <1>2, <1>3, <1>4, <1>5, <1>6, <1>7, <1>8 DEF Next, Step

(* An event stored as sent (notified_phase) was sent, unless the process   *)
(* that claimed it has it still to send or died: what ClaimNotice keeps    *)
(* the other observers from sending again is not lost.                     *)
THEOREM ClaimsAreKept == Spec => []Accounted
<1>1. Init => Accounted
  BY MovesAssumption DEF Init, Accounted, Versions
<1> QED
  BY <1>1, InitIInv, NextIInv, NextAccounted, PTL DEF Spec
=============================================================================
