---------------------------- MODULE SquadProofs ----------------------------
(***************************************************************************)
(* What Squad does for every set of tasks and processes and every play, in *)
(* three parts.                                                            *)
(*                                                                         *)
(* The first says what holds of several rows, sessions and branches at a   *)
(* time.  Types hold without a condition.  That a queued task starts after *)
(* its dependencies, once, that a done task is clean, that a held task is  *)
(* not merged and that a branch is merged while its row merges each hold   *)
(* while something the code does not guard against does not happen: a      *)
(* launch that is withdrawn (its id is given again), a retry of a task     *)
(* whose start failed or was given up on, a hold that is set while the     *)
(* task merges, a pass that gives a merge up while another process lands   *)
(* it.  Those are the hypotheses of the theorems, and the histories they   *)
(* leave out are real.                                                     *)
(*                                                                         *)
(* The second says that each task's row follows the flow, whatever passes, *)
(* checks, landings and commands run at once: Squad implements TaskFlow.   *)
(* A process keeps what it read while others write; IInv says what it may  *)
(* still assume of the row when it writes itself, and the compare-and-set  *)
(* of Store.Transition does the rest.                                      *)
(*                                                                         *)
(* The third says that a task's worker rests while its work is checked and *)
(* accepted, and that what ends a fix round is the turn it was asked for.  *)
(* A message, a Stop event, an answer and a verdict are all of some time,  *)
(* and read at another: AtRestInv dates them by the version of the row.    *)
(* It holds while nobody else talks to the worker.                         *)
(*                                                                         *)
(* The invariants and the conditions are in SquadInv.                      *)
(***************************************************************************)
EXTENDS SquadInv, TLAPS

---------------------------------------------------------------------------
(* Part 1: several tasks.  First, what a move keeps.                       *)

(* Changing the phase, the step, the round, its bound and the verdicts of  *)
(* a row.                                                                  *)
LEMMA RowFacts ==
  ASSUME NEW r \in Rows(Tasks)
  PROVE  /\ r.phase \in Phases /\ r.step \in Steps /\ r.round \in Nat /\ r.max \in Nat
         /\ r.last \in VerdictKinds /\ r.blocking \in Seq(Nat) /\ r.session \in BOOLEAN /\ r.hold \in BOOLEAN
         /\ r.after \in SUBSET Tasks /\ r.check \in CheckSpecs /\ r.merge \in BOOLEAN /\ r.inPlace \in BOOLEAN
BY DEF Rows

LEMMA ToFacts ==
  ASSUME NEW r \in Rows(Tasks), NEW p \in Phases, NEW s \in Steps
  PROVE  /\ To(r, p, s) \in Rows(Tasks) /\ To(r, p, s).phase = p /\ To(r, p, s).step = s
         /\ To(r, p, s).session = r.session /\ To(r, p, s).hold = r.hold /\ SameLaunch(To(r, p, s), r)
         /\ To(r, p, s).round = r.round /\ To(r, p, s).max = r.max
         /\ To(r, p, s).last = r.last /\ To(r, p, s).blocking = r.blocking
BY DEF Rows, To, SameLaunch

LEMMA RoundFacts ==
  ASSUME NEW r \in Rows(Tasks), NEW n \in Nat, NEW m \in Nat
  PROVE  /\ [r EXCEPT !.round = n] \in Rows(Tasks) /\ [r EXCEPT !.round = n].phase = r.phase
         /\ [r EXCEPT !.round = n].step = r.step /\ [r EXCEPT !.round = n].session = r.session
         /\ [r EXCEPT !.round = n].hold = r.hold /\ SameLaunch([r EXCEPT !.round = n], r)
         /\ [r EXCEPT !.max = m, !.round = n] \in Rows(Tasks) /\ [r EXCEPT !.max = m, !.round = n].phase = r.phase
         /\ [r EXCEPT !.max = m, !.round = n].step = r.step /\ [r EXCEPT !.max = m, !.round = n].session = r.session
         /\ [r EXCEPT !.max = m, !.round = n].hold = r.hold /\ SameLaunch([r EXCEPT !.max = m, !.round = n], r)
<1>1. /\ [r EXCEPT !.round = n] \in Rows(Tasks) /\ [r EXCEPT !.round = n].phase = r.phase
      /\ [r EXCEPT !.round = n].step = r.step /\ [r EXCEPT !.round = n].session = r.session
      /\ [r EXCEPT !.round = n].hold = r.hold /\ SameLaunch([r EXCEPT !.round = n], r)
  BY DEF Rows, SameLaunch
<1>2. /\ [r EXCEPT !.max = m, !.round = n] \in Rows(Tasks) /\ [r EXCEPT !.max = m, !.round = n].phase = r.phase
      /\ [r EXCEPT !.max = m, !.round = n].step = r.step /\ [r EXCEPT !.max = m, !.round = n].session = r.session
      /\ [r EXCEPT !.max = m, !.round = n].hold = r.hold /\ SameLaunch([r EXCEPT !.max = m, !.round = n], r)
  BY DEF Rows, SameLaunch
<1> QED
  BY <1>1, <1>2

(* A verdict is put down in the row.                                       *)
Judged(r, v) == [r EXCEPT !.last = v.kind, !.blocking = History(r, v)]

LEMMA HistoryFacts ==
  ASSUME NEW r \in Rows(Tasks), NEW v, v.kind \in {"pass", "fail", "error"}, v.count \in Nat
  PROVE  /\ Judged(r, v) \in Rows(Tasks) /\ Judged(r, v).phase = r.phase /\ Judged(r, v).step = r.step
         /\ Judged(r, v).session = r.session /\ Judged(r, v).hold = r.hold /\ SameLaunch(Judged(r, v), r)
<1> DEFINE h == History(r, v)
<1>1. h \in Seq(Nat)
  <2> DEFINE k == IF r.round - 1 < Len(r.blocking) THEN r.round - 1 ELSE Len(r.blocking)
  <2>1. r.blocking \in Seq(Nat) /\ r.round \in Nat
    BY RowFacts
  <2>2. Len(r.blocking) \in Nat /\ k \in Int /\ k <= Len(r.blocking)
    BY <2>1
  <2>3. SubSeq(r.blocking, 1, k) \in Seq(Nat)
    <3> HIDE DEF k
    <3>1. \A i \in 1..k : r.blocking[i] \in Nat
      BY <2>1, <2>2
    <3> QED
      BY <2>1, <2>2, <3>1
  <2>4. Prefix(r.blocking, r.round - 1) = SubSeq(r.blocking, 1, k)
    BY DEF Prefix
  <2> HIDE DEF k
  <2>5. Append(Prefix(r.blocking, r.round - 1), v.count) \in Seq(Nat)
    BY <2>3, <2>4
  <2> QED
    BY <2>1, <2>5 DEF History
<1> HIDE DEF h
<1> DEFINE n == [r EXCEPT !.last = v.kind, !.blocking = h]
<1>2. n \in Rows(Tasks)
  BY <1>1 DEF Rows, VerdictKinds
<1>3. /\ n.phase = r.phase /\ n.step = r.step /\ n.round = r.round /\ n.max = r.max
      /\ n.session = r.session /\ n.hold = r.hold /\ SameLaunch(n, r)
  BY DEF Rows, SameLaunch
<1> QED
  BY <1>2, <1>3 DEF h, Judged

LEMMA Words ==
  /\ "running" \in Phases /\ "checking" \in Phases /\ "fixing" \in Phases /\ "merging" \in Phases
  /\ "ready" \in Phases /\ "needs_you" \in Phases /\ "failed" \in Phases /\ "waiting" \in Phases
  /\ "done" \in Phases /\ "cancelled" \in Phases
  /\ "" \in Steps /\ "asked" \in Steps /\ "waiting" \in Steps /\ "round" \in Steps /\ "check" \in Steps /\ "merge" \in Steps
  /\ "none" \in Effects /\ "start" \in Effects /\ "check" \in Effects /\ "send" \in Effects /\ "land" \in Effects
  /\ "waiting" \in Unfinished /\ "running" \in Unfinished /\ "fixing" \in Unfinished /\ "checking" \in Unfinished
  /\ "merging" \in Unfinished /\ "ready" \in Unfinished /\ "needs_you" \in Unfinished /\ "failed" \in Unfinished
BY DEF Phases, Finals, Unfinished, Steps, Effects

(* What Next decides of a row: it stays, or makes a sound move.            *)
Decided(r, o, m) ==
  /\ m \in Moves
  /\ m.next # r => /\ Sound(r, m)
                   /\ m.next.phase = "done" => o.land = "done"
                   /\ m.effect = "start" => \A u \in r.after : o.deps[u] = "done"
  /\ m.next = r => m.effect \in {"none", "land"}

LEMMA DecidedStay == ASSUME NEW r \in Rows(Tasks), NEW o, NEW e \in {"none", "land"} PROVE Decided(r, o, Move(r, e))
BY DEF Decided, Move, Moves, Effects

LEMMA DecidedMove ==
  ASSUME NEW r \in Rows(Tasks), NEW o, r.phase \in Unfinished, NEW n \in Rows(Tasks), NEW e \in Effects,
         SameLaunch(n, r), n.session = r.session, n.hold = r.hold,
         n.phase \notin {"absent", "waiting"}, n.phase # r.phase \/ n.step # r.step,
         e = "start" => r.phase = "waiting" /\ n.phase = "running" /\ \A u \in r.after : o.deps[u] = "done",
         e = "check" => n.phase = "checking",
         e = "send" => n.phase \in {"fixing", "merging"},
         e = "land" => n.phase = "merging",
         Advanced(n) => Advanced(r) \/ r.session,
         Merging(n) => Merging(r) \/ r.merge \/ ~r.hold,
         n.phase = "done" => o.land = "done"
  PROVE  Decided(r, o, Move(n, e))
<1>1. Move(n, e).next = n /\ Move(n, e).effect = e /\ Move(n, e) \in Moves
  BY DEF Move, Moves
<1>2. n # r
  OBVIOUS
<1> QED
  BY <1>1, <1>2 DEF Decided, Sound

(* To another phase or step.                                               *)
LEMMA DecidedTo ==
  ASSUME NEW r \in Rows(Tasks), NEW o, r.phase \in Unfinished, NEW p \in Phases, NEW s \in Steps, NEW e \in Effects,
         p \notin {"absent", "waiting"}, p # r.phase \/ s # r.step,
         e = "start" => r.phase = "waiting" /\ p = "running" /\ \A u \in r.after : o.deps[u] = "done",
         e = "check" => p = "checking",
         e = "send" => p \in {"fixing", "merging"},
         e = "land" => p = "merging",
         p \in {"checking", "fixing", "merging", "ready"} \/ s \in {"check", "round", "merge"} => Advanced(r) \/ r.session,
         p = "merging" \/ s = "merge" => Merging(r) \/ r.merge \/ ~r.hold,
         p = "done" => o.land = "done"
  PROVE  Decided(r, o, Move(To(r, p, s), e))
<1> DEFINE n == To(r, p, s)
<1>1. /\ n \in Rows(Tasks) /\ n.phase = p /\ n.step = s
      /\ n.session = r.session /\ n.hold = r.hold /\ SameLaunch(n, r)
  BY ToFacts
<1> HIDE DEF n
<1>2. (Advanced(n) => Advanced(r) \/ r.session) /\ (Merging(n) => Merging(r) \/ r.merge \/ ~r.hold)
  BY <1>1 DEF Advanced, Merging
<1>3. Decided(r, o, Move(n, e))
  BY <1>1, <1>2, DecidedMove
<1> QED
  BY <1>3 DEF n

LEMMA WaitingDecided ==
  ASSUME NEW r \in Rows(Tasks), NEW o, r.phase = "waiting" PROVE Decided(r, o, NextWaiting(r, o))
<1>1. Decided(r, o, Stay(r))
  BY DecidedStay DEF Stay
<1>2. Decided(r, o, NeedsYou(r, "waiting"))
  BY DecidedTo, Words DEF NeedsYou, Stay
<1>3. (\A u \in r.after : o.deps[u] = "done") => Decided(r, o, Move(To(r, "running", ""), "start"))
  BY DecidedTo, Words
<1> QED
  BY <1>1, <1>2, <1>3 DEF NextWaiting

LEMMA WorkingDecided ==
  ASSUME NEW r \in Rows(Tasks), NEW o, r.phase \in {"running", "fixing"} PROVE Decided(r, o, NextWorking(r, o))
<1>0. r.phase \in Unfinished /\ (r.phase = "fixing" => Advanced(r))
  BY DEF Unfinished, Advanced
<1>1. Decided(r, o, Stay(r))
  BY DecidedStay DEF Stay
<1>2. Decided(r, o, NeedsYou(r, "waiting")) /\ Decided(r, o, NeedsYou(r, ""))
  BY <1>0, DecidedTo, Words DEF NeedsYou, Stay
<1>3. Decided(r, o, Stay(To(r, "failed", "")))
  BY <1>0, DecidedTo, Words DEF Stay
<1>4. Decided(r, o, LostMove(r, o))
  BY <1>2, <1>3 DEF LostMove
<1>5. r.session => Decided(r, o, AfterWork(r, o))
  <2> HAVE r.session
  <2>1. Merges(r, o) => Decided(r, o, Move(To(r, "merging", ""), "land"))
    BY <1>0, DecidedTo, Words DEF Merges, Implicit
  <2> DEFINE k == AtLeastOne(r.round)
             u == To(r, "checking", "")
             n == [u EXCEPT !.round = k]
  <2>2. k \in Nat
    BY RowFacts DEF AtLeastOne
  <2>3. /\ u \in Rows(Tasks) /\ u.phase = "checking" /\ u.step = ""
        /\ u.session = r.session /\ u.hold = r.hold /\ SameLaunch(u, r)
    <3>1. "checking" \in Phases /\ "" \in Steps
      BY Words
    <3> QED
      BY <3>1, ToFacts
  <2> HIDE DEF k, u
  <2>4. /\ n \in Rows(Tasks) /\ n.phase = "checking" /\ n.step = ""
        /\ n.session = r.session /\ n.hold = r.hold /\ SameLaunch(n, r)
    BY <2>2, <2>3, RoundFacts DEF SameLaunch
  <2> HIDE DEF n
  <2>5. Decided(r, o, Move(n, "check"))
    BY <1>0, <2>4, DecidedMove DEF Effects, Merging
  <2> QED
    BY <1>1, <2>1, <2>5 DEF AfterWork, n, u, k
<1> QED
  BY <1>1, <1>2, <1>4, <1>5 DEF NextWorking

(* A verdict that was read of a file.                                      *)
Given(v) == v.kind \in {"pass", "fail", "error"} /\ v.count \in Nat

LEMMA CheckingDecided ==
  ASSUME NEW r \in Rows(Tasks), NEW o, r.phase = "checking", o.verdict = NoVerdict \/ Given(o.verdict)
  PROVE  Decided(r, o, NextChecking(r, o))
<1>0. r.phase \in Unfinished /\ Advanced(r)
  BY DEF Unfinished, Advanced
<1>1. Decided(r, o, Stay(r)) /\ Decided(r, o, NeedsYou(r, "check"))
  BY <1>0, DecidedStay, DecidedTo, Words DEF NeedsYou, Stay
<1>2. CASE Given(o.verdict)
  <2> DEFINE v == o.verdict
             n == Judged(r, v)
  <2>1. /\ n \in Rows(Tasks) /\ n.phase = r.phase /\ n.step = r.step
        /\ n.session = r.session /\ n.hold = r.hold /\ SameLaunch(n, r)
    <3>1. v.kind \in {"pass", "fail", "error"} /\ v.count \in Nat
      BY <1>2 DEF Given
    <3> HIDE DEF v
    <3> QED
      BY <3>1, HistoryFacts
  <2> HIDE DEF n
  <2>2. ASSUME NEW p \in Phases, NEW s \in Steps, NEW e \in Effects,
               p \in {"needs_you", "merging", "ready"}, s # "merge", e \in {"none", "land"}, e = "land" => p = "merging",
               p = "merging" => r.merge \/ ~r.hold
        PROVE  Decided(r, o, Move(To(n, p, s), e))
    <3> DEFINE w == To(n, p, s)
    <3>1. /\ w \in Rows(Tasks) /\ w.phase = p /\ w.step = s
          /\ w.session = r.session /\ w.hold = r.hold /\ SameLaunch(w, r)
      <4>1. /\ w \in Rows(Tasks) /\ w.phase = p /\ w.step = s
            /\ w.session = n.session /\ w.hold = n.hold /\ SameLaunch(w, n)
        BY <2>1, <2>2, ToFacts
      <4> HIDE DEF w
      <4> QED
        BY <2>1, <4>1 DEF SameLaunch
    <3> HIDE DEF w
    <3>2. Merging(w) => r.merge \/ ~r.hold
      BY <2>2, <3>1 DEF Merging
    <3>3. Decided(r, o, Move(w, e))
      BY <1>0, <2>2, <3>1, <3>2, DecidedMove
    <3> QED
      BY <3>3 DEF w
  <2>3. Decided(r, o, NeedsYou(n, "check")) /\ Decided(r, o, NeedsYou(n, "round")) /\ Decided(r, o, Stay(To(n, "ready", "")))
    BY <2>2, Words DEF NeedsYou, Stay
  <2>4. Merges(r, o) => Decided(r, o, Move(To(n, "merging", ""), "land"))
    BY <2>2, Words DEF Merges, Implicit
  <2>5. Decided(r, o, Move([To(n, "fixing", "") EXCEPT !.round = r.round + 1], "send"))
    <3> DEFINE u == To(n, "fixing", "")
               k == r.round + 1
               w == [u EXCEPT !.round = k]
    <3>1. /\ u \in Rows(Tasks) /\ u.phase = "fixing" /\ u.step = ""
          /\ u.session = r.session /\ u.hold = r.hold /\ SameLaunch(u, r)
      <4>1. "fixing" \in Phases /\ "" \in Steps
        BY Words
      <4>2. /\ u \in Rows(Tasks) /\ u.phase = "fixing" /\ u.step = ""
            /\ u.session = n.session /\ u.hold = n.hold /\ SameLaunch(u, n)
        BY <2>1, <4>1, ToFacts
      <4> HIDE DEF u
      <4> QED
        BY <2>1, <4>2 DEF SameLaunch
    <3>2. k \in Nat
      BY RowFacts
    <3> HIDE DEF u, k
    <3>3. /\ w \in Rows(Tasks) /\ w.phase = "fixing" /\ w.step = ""
          /\ w.session = r.session /\ w.hold = r.hold /\ SameLaunch(w, r)
      BY <3>1, <3>2, RoundFacts DEF SameLaunch
    <3> HIDE DEF w
    <3>4. Decided(r, o, Move(w, "send"))
      BY <1>0, <3>3, DecidedMove DEF Effects, Merging
    <3> QED
      BY <3>4 DEF w, u, k
  <2>6. Decided(r, o, VerdictMove(r, v, o))
    <3>1. VerdictMove(r, v, o) \in {NeedsYou(n, "check"), Move(To(n, "merging", ""), "land"), Stay(To(n, "ready", "")),
                                    NeedsYou(n, "round"), Move([To(n, "fixing", "") EXCEPT !.round = r.round + 1], "send")}
          /\ (VerdictMove(r, v, o) = Move(To(n, "merging", ""), "land") => Merges(r, o) \/
                VerdictMove(r, v, o) \in {NeedsYou(n, "check"), Stay(To(n, "ready", "")),
                                    NeedsYou(n, "round"), Move([To(n, "fixing", "") EXCEPT !.round = r.round + 1], "send")})
      BY DEF VerdictMove, n, Judged
    <3> QED
      BY <2>3, <2>4, <2>5, <3>1
  <2>7. v # NoVerdict
    BY <1>2 DEF Given, NoVerdict
  <2> QED
    BY <2>6, <2>7 DEF NextChecking
<1>3. CASE o.verdict = NoVerdict
  BY <1>1, <1>3 DEF NextChecking
<1> QED
  BY <1>2, <1>3

LEMMA MergingDecided ==
  ASSUME NEW r \in Rows(Tasks), NEW o, r.phase = "merging" PROVE Decided(r, o, NextMerging(r, o))
<1>0. r.phase \in Unfinished /\ Advanced(r) /\ Merging(r)
  BY DEF Unfinished, Advanced, Merging
<1>1. Decided(r, o, Stay(r)) /\ Decided(r, o, Move(r, "land")) /\ Decided(r, o, Move(r, "none"))
  BY DecidedStay DEF Stay
<1>2. Decided(r, o, NeedsYou(r, "merge")) /\ Decided(r, o, NeedsYou(r, "")) /\ Decided(r, o, Stay(To(r, "failed", "")))
  BY <1>0, DecidedTo, Words DEF NeedsYou, Stay
<1>3. o.land = "done" => Decided(r, o, Stay(To(r, "done", "")))
  BY <1>0, DecidedTo, Words DEF Stay
<1>4. r.step # "asked" => Decided(r, o, Move(To(r, "merging", "asked"), "send"))
  BY <1>0, DecidedTo, Words
<1>5. Decided(r, o, LostMove(r, o))
  BY <1>2 DEF LostMove
<1>6. Decided(r, o, Landed(r, o.land))
  <2>1. CASE o.land = "done"
    BY <1>3, <2>1 DEF Landed
  <2>2. CASE o.land = "conflict" /\ r.step # "asked"
    BY <1>4, <2>2 DEF Landed
  <2>3. CASE o.land # "done" /\ ~(o.land = "conflict" /\ r.step # "asked")
    BY <1>2, <2>3 DEF Landed
  <2> QED
    BY <2>1, <2>2, <2>3
<1> QED
  BY <1>1, <1>5, <1>6 DEF NextMerging

LEMMA NextDecided ==
  ASSUME NEW r \in Rows(Tasks), NEW o, o.verdict = NoVerdict \/ Given(o.verdict) PROVE Decided(r, o, NextMove(r, o))
<1>1. CASE r.phase = "waiting"
  BY <1>1, WaitingDecided DEF NextMove
<1>2. CASE r.phase \in {"running", "fixing"}
  BY <1>2, WorkingDecided DEF NextMove
<1>3. CASE r.phase = "checking"
  BY <1>3, CheckingDecided DEF NextMove
<1>4. CASE r.phase = "merging"
  BY <1>4, MergingDecided DEF NextMove
<1>0. Decided(r, o, Stay(r))
  BY DecidedStay DEF Stay
<1>5. CASE r.phase = "ready"
  <2>1. Implicit(r, o.dependents) => Decided(r, o, Move(To(r, "merging", ""), "land"))
    BY <1>5, DecidedTo, Words DEF Implicit, Advanced
  <2>2. Decided(r, o, NextReady(r, o))
    BY <1>0, <2>1 DEF NextReady
  <2> QED
    BY <1>5, <2>2 DEF NextMove
<1>6. CASE r.phase \in {"needs_you", "failed"}
  <2>1. Decided(r, o, Stay(To(r, "running", "")))
    BY <1>6, DecidedTo, Words DEF Stay
  <2>2. Decided(r, o, NextStopped(r, o))
    BY <1>0, <2>1 DEF NextStopped
  <2> QED
    BY <1>6, <2>2 DEF NextMove
<1>7. CASE r.phase \in Finals \union {"absent"}
  <2>1. NextMove(r, o) = Stay(r)
    BY <1>7 DEF NextMove, Finals
  <2> QED
    BY <1>0, <2>1
<1> QED
  BY <1>1, <1>2, <1>3, <1>4, <1>5, <1>6, <1>7, RowFacts DEF Phases, Unfinished

(* Retry resumes what stopped.                                             *)
LEMMA RetrySound ==
  ASSUME NEW r \in Rows(Tasks), Resumable(r)
  PROVE  /\ RetryMove(r).next # r /\ Sound(r, RetryMove(r))
         /\ RetryMove(r).next.phase # "done" /\ RetryMove(r).effect # "start"
         /\ RetryMove(r).next.phase = "waiting" => r.step = "waiting"
<1> DEFINE m == RetryMove(r)
<1>0. r.phase = "needs_you" /\ r.step \in {"waiting", "check", "merge", "round"} /\ r.phase \in Unfinished
  BY Words DEF Resumable
<1>1. \A n, e : Move(n, e).next = n /\ Move(n, e).effect = e
  BY DEF Move
<1>2. ASSUME NEW q \in {"waiting", "checking", "merging"}
      PROVE  LET n == To(r, q, "") IN n \in Rows(Tasks) /\ n.phase = q /\ n.session = r.session /\ n.hold = r.hold /\ SameLaunch(n, r)
  <2>1. q \in Phases /\ "" \in Steps
    BY Words
  <2> QED
    BY <2>1, ToFacts
<1>3. CASE r.step = "waiting"
  <2>1. m = Move(To(r, "waiting", ""), "none")
    BY <1>3 DEF RetryMove, Stay
  <2> HIDE DEF m
  <2>2. m.next = To(r, "waiting", "") /\ m.effect = "none" /\ m \in Moves
    BY <1>1, <1>2, <2>1, Words DEF Moves, Move
  <2> QED
    BY <1>0, <1>2, <1>3, <2>2 DEF Sound, Advanced, Merging, m
<1>4. CASE r.step = "check"
  <2>1. m = Move(To(r, "checking", ""), "check")
    BY <1>4 DEF RetryMove
  <2> HIDE DEF m
  <2>2. m.next = To(r, "checking", "") /\ m.effect = "check" /\ m \in Moves
    BY <1>1, <1>2, <2>1, Words DEF Moves, Move
  <2> QED
    BY <1>0, <1>2, <1>4, <2>2 DEF Sound, Advanced, Merging, m
<1>5. CASE r.step = "merge"
  <2>1. m = Move(To(r, "merging", ""), "land")
    BY <1>5 DEF RetryMove
  <2> HIDE DEF m
  <2>2. m.next = To(r, "merging", "") /\ m.effect = "land" /\ m \in Moves
    BY <1>1, <1>2, <2>1, Words DEF Moves, Move
  <2> QED
    BY <1>0, <1>2, <1>5, <2>2 DEF Sound, Advanced, Merging, m
<1>6. CASE r.step = "round"
  <2> DEFINE x == r.max + 1
             k == r.round + 1
             u == To(r, "fixing", "")
             n == [u EXCEPT !.max = x, !.round = k]
  <2>1. m = Move(n, "send")
    BY <1>6 DEF RetryMove
  <2>2. x \in Nat /\ k \in Nat
    BY RowFacts
  <2>3. "fixing" \in Phases /\ "" \in Steps
    BY Words
  <2>4. u \in Rows(Tasks) /\ u.phase = "fixing" /\ u.session = r.session /\ u.hold = r.hold /\ SameLaunch(u, r)
    BY <2>3, ToFacts
  <2> HIDE DEF m, x, k, u
  <2>5. n \in Rows(Tasks) /\ n.phase = "fixing" /\ n.session = r.session /\ n.hold = r.hold /\ SameLaunch(n, r)
    <3>1. n \in Rows(Tasks) /\ n.phase = u.phase /\ n.session = u.session /\ n.hold = u.hold /\ SameLaunch(n, u)
      BY <2>2, <2>4 DEF Rows, SameLaunch
    <3> HIDE DEF n
    <3> QED
      BY <2>4, <3>1 DEF SameLaunch
  <2> HIDE DEF n
  <2>6. m.next = n /\ m.effect = "send" /\ m \in Moves
    BY <1>1, <2>1, <2>5, Words DEF Moves, Move
  <2> QED
    BY <1>0, <1>6, <2>5, <2>6 DEF Sound, Advanced, Merging, m
<1> QED
  BY <1>0, <1>3, <1>4, <1>5, <1>6

---------------------------------------------------------------------------
(* Processes.                                                              *)

LEMMA NoRowFacts ==
  /\ NoRow \in Rows(Tasks) /\ NoRow.phase = "absent" /\ NoRow.step = "" /\ ~NoRow.session /\ ~NoRow.merge
<1>1. <<>> \in Seq(Nat)
  OBVIOUS
<1> QED
  BY <1>1 DEF NoRow, Rows, Phases, Steps, VerdictKinds, CheckSpecs

LEMMA IdleFacts ==
  /\ Idle \in Calls /\ Idle.pc = "idle" /\ Idle.job = "" /\ Idle.task = 0 /\ Idle.seen = NoRow
  /\ Idle.ver = 0 /\ Idle.live = "unknown" /\ Idle.at = 0 /\ Idle.locks = {}
  /\ Idle.move \in Moves /\ Idle.move.next = NoRow /\ Idle.move.effect = "none"
  /\ Local(Idle)
<1>1. Stay(NoRow) \in Moves /\ Stay(NoRow).next = NoRow /\ Stay(NoRow).effect = "none"
  BY NoRowFacts, Words DEF Moves, Stay, Move
<1>2. Idle \in Calls
  <2> DEFINE m == Stay(NoRow)
  <2>1. m \in Moves /\ "idle" \in Pcs
    BY <1>1 DEF Pcs
  <2> HIDE DEF m
  <2>2. [pc |-> "idle", job |-> "", task |-> 0, seen |-> NoRow, ver |-> 0,
         live |-> "unknown", at |-> 0, move |-> m, locks |-> {}] \in Calls
    <3>1. "" \in Jobs
      BY DEF Jobs
    <3>2. NoRow \in Rows(Tasks) /\ {} \in SUBSET Locks /\ 0 \in Nat /\ 0 \in Tasks \union {0}
      BY NoRowFacts
    <3>3. "unknown" \in LiveStates \union {"none", "unknown"}
      OBVIOUS
    <3> QED
      BY <2>1, <3>1, <3>2, <3>3, Zenon DEF Calls
  <2> QED
    BY <2>2 DEF Idle, m
<1>3. /\ Idle.pc = "idle" /\ Idle.job = "" /\ Idle.task = 0 /\ Idle.seen = NoRow
      /\ Idle.ver = 0 /\ Idle.live = "unknown" /\ Idle.at = 0 /\ Idle.locks = {} /\ Idle.move = Stay(NoRow)
  BY DEF Idle
<1>4. Local(Idle)
  BY <1>2, <1>3 DEF Local, Open
<1> QED
  BY <1>1, <1>2, <1>3, <1>4

LEMMA CallFacts ==
  ASSUME NEW c \in Calls
  PROVE  /\ c.pc \in Pcs /\ c.job \in Jobs /\ c.task \in Tasks \union {0} /\ c.seen \in Rows(Tasks) /\ c.ver \in Nat
         /\ c.at \in Nat /\ c.move \in Moves /\ c.locks \in SUBSET Locks /\ c.live \in LiveStates \union {"none", "unknown"}
BY DEF Calls

(* A process changed in one or a few respects.                             *)
LEMMA CallTo ==
  ASSUME NEW c \in Calls, NEW pc \in Pcs
  PROVE  LET d == [c EXCEPT !.pc = pc]
         IN  /\ d \in Calls /\ d.pc = pc /\ d.job = c.job /\ d.task = c.task /\ d.seen = c.seen
             /\ d.ver = c.ver /\ d.live = c.live /\ d.at = c.at /\ d.move = c.move /\ d.locks = c.locks
BY DEF Calls

LEMMA CallMove ==
  ASSUME NEW c \in Calls, NEW pc \in Pcs, NEW m \in Moves
  PROVE  LET d == [c EXCEPT !.pc = pc, !.move = m]
         IN  /\ d \in Calls /\ d.pc = pc /\ d.job = c.job /\ d.task = c.task /\ d.seen = c.seen
             /\ d.ver = c.ver /\ d.live = c.live /\ d.at = c.at /\ d.move = m /\ d.locks = c.locks
BY DEF Calls

LEMMA CallLocks ==
  ASSUME NEW c \in Calls, NEW pc \in Pcs, NEW l \in SUBSET Locks
  PROVE  LET d == [c EXCEPT !.pc = pc, !.locks = l]
         IN  /\ d \in Calls /\ d.pc = pc /\ d.job = c.job /\ d.task = c.task /\ d.seen = c.seen
             /\ d.ver = c.ver /\ d.live = c.live /\ d.at = c.at /\ d.move = c.move /\ d.locks = l
BY DEF Calls

Lefts == [launches : SUBSET Launches, may : [Kinds -> Nat]]

(* One process goes on; the table stays as it is.                          *)
Step(p) ==
  /\ \E d : proc' = [proc EXCEPT ![p] = d] /\ Local(d) /\ Onward(proc[p], d)
  /\ UNCHANGED <<row, ver>> /\ NothingStarts /\ WorldOK' /\ left' \in Lefts

LEMMA WorldStays == ASSUME Typed, UNCHANGED world PROVE NothingStarts /\ WorldOK'
BY DEF Typed, WorldOK, world, NothingStarts

LEMMA SpendFacts == ASSUME Typed, NEW k \in Kinds, Spend(k) PROVE left' \in Lefts
BY DEF Typed, Spend, Lefts

LEMMA LeftStays == ASSUME Typed, UNCHANGED left PROVE left' \in Lefts
BY DEF Typed, Lefts

LEMMA EndStep ==
  ASSUME Typed, NEW p \in Procs, End(p), UNCHANGED <<row, ver>>, NothingStarts, WorldOK', left' \in Lefts
  PROVE  Step(p)
<1>1. proc' = [proc EXCEPT ![p] = Idle]
  BY DEF End, Become
<1>2. Onward(proc[p], Idle)
  BY IdleFacts DEF Onward, Rests, Working
<1> QED
  BY <1>1, <1>2, IdleFacts DEF Step

(* A decided move is written, or is to land, or nothing is due.            *)
LEMMA DueFacts ==
  ASSUME Typed, NEW p \in Procs, NEW m \in Moves, Due(p, m), proc[p].task \in Tasks, proc[p].seen.phase \in Unfinished,
         m.next # proc[p].seen => Sound(proc[p].seen, m),
         m.next = proc[p].seen => m.effect \in {"none", "land"}
  PROVE  \E d : /\ proc' = [proc EXCEPT ![p] = d] /\ Local(d)
                /\ \/ Rests(d)
                   \/ /\ d.pc \in {"write", "land"} /\ d.task = proc[p].task /\ d.seen = proc[p].seen /\ d.move = m
                      /\ d.pc = "write" => m.next # proc[p].seen
<1> DEFINE c == proc[p]
           x == IF Changed(c.seen, m) THEN "write" ELSE m.effect
           d == [c EXCEPT !.move = m, !.live = "unknown", !.pc = x]
<1>1. c \in Calls
  BY DEF Typed, Local
<1>2. CASE ~Acts(c.seen, m)
  <2>1. proc' = [proc EXCEPT ![p] = Idle]
    BY <1>2 DEF Due, End, Become
  <2> QED
    BY <2>1, IdleFacts DEF Rests, Working
<1>3. CASE Acts(c.seen, m)
  <2>1. proc' = [proc EXCEPT ![p] = d]
    BY <1>3 DEF Due, Become
  <2>2. x \in {"write", "land"} /\ (x = "write" <=> m.next # c.seen)
    BY <1>3 DEF Changed, Acts
  <2> HIDE DEF x, c
  <2>3. x \in Pcs
    BY <2>2 DEF Pcs
  <2>4. d \in Calls /\ d.pc = x /\ d.task = c.task /\ d.seen = c.seen /\ d.move = m
    BY <1>1, <2>3 DEF Calls
  <2> HIDE DEF d
  <2>5. Local(d)
    BY <2>2, <2>4 DEF Local, c
  <2> QED
    BY <2>1, <2>2, <2>4, <2>5 DEF c
<1> QED
  BY <1>2, <1>3

LEMMA DueStep ==
  ASSUME Typed, NEW p \in Procs, NEW m \in Moves, Due(p, m), proc[p].task \in Tasks, proc[p].seen.phase \in Unfinished,
         m.next # proc[p].seen => Sound(proc[p].seen, m),
         m.next = proc[p].seen => m.effect \in {"none", "land"},
         proc[p].pc \in Working,
         m.next # proc[p].seen /\ m.effect = "start" => \A u \in proc[p].seen.after : row[u].phase = "done",
         m.next # proc[p].seen => m.next.phase # "done",
         UNCHANGED <<row, ver>>, NothingStarts, WorldOK', left' \in Lefts
  PROVE  Step(p)
<1>1. PICK d : /\ proc' = [proc EXCEPT ![p] = d] /\ Local(d)
               /\ \/ Rests(d)
                  \/ /\ d.pc \in {"write", "land"} /\ d.task = proc[p].task /\ d.seen = proc[p].seen /\ d.move = m
                     /\ d.pc = "write" => m.next # proc[p].seen
  BY DueFacts
<1>2. Onward(proc[p], d)
  <2>1. CASE Rests(d)
    BY <2>1 DEF Onward
  <2>2. CASE ~Rests(d)
    <3>1. d.pc \in Working /\ d.pc \notin Starters
      BY <1>1, <2>2 DEF Working, Pcs, Starters
    <3>2. WorksOn(proc[p], d)
      BY <1>1, <2>2, <3>1 DEF WorksOn
    <3> QED
      BY <3>2 DEF Onward
  <2> QED
    BY <2>1, <2>2
<1> QED
  BY <1>1, <1>2 DEF Step

(* A process that read row t.                                              *)
ReadAt(t, x, j, n) == [Reading(t) EXCEPT !.pc = x, !.job = j, !.at = n]
ReadNow(t, x, j) == [Reading(t) EXCEPT !.pc = x, !.job = j]

LEMMA ReadFacts ==
  ASSUME Typed, NEW t \in Tasks, NEW x \in Pcs, NEW j \in Jobs, NEW n \in Nat
  PROVE  /\ ReadAt(t, x, j, n) \in Calls /\ ReadAt(t, x, j, n).pc = x /\ ReadAt(t, x, j, n).job = j
         /\ ReadAt(t, x, j, n).task = t /\ ReadAt(t, x, j, n).seen = row[t] /\ ReadAt(t, x, j, n).move = Idle.move
         /\ ReadNow(t, x, j) \in Calls /\ ReadNow(t, x, j).pc = x /\ ReadNow(t, x, j).job = j
         /\ ReadNow(t, x, j).task = t /\ ReadNow(t, x, j).seen = row[t] /\ ReadNow(t, x, j).move = Idle.move
<1> DEFINE i == Idle
           r == [i EXCEPT !.task = t, !.seen = row[t], !.ver = ver[t]]
           d == [r EXCEPT !.pc = x, !.job = j, !.at = n]
           e == [r EXCEPT !.pc = x, !.job = j]
<1>1. i \in Calls
  BY IdleFacts
<1>2. row[t] \in Rows(Tasks) /\ ver[t] \in Nat
  BY DEF Typed
<1> HIDE DEF i
<1>3. r \in Calls /\ r.task = t /\ r.seen = row[t] /\ r.ver = ver[t] /\ r.move = i.move
  BY <1>1, <1>2 DEF Calls
<1> HIDE DEF r
<1>4. d \in Calls /\ d.pc = x /\ d.job = j /\ d.task = t /\ d.seen = row[t] /\ d.ver = ver[t] /\ d.move = i.move
  BY <1>3 DEF Calls
<1>5. e \in Calls /\ e.pc = x /\ e.job = j /\ e.task = t /\ e.seen = row[t] /\ e.ver = ver[t] /\ e.move = i.move
  BY <1>3 DEF Calls
<1> QED
  BY <1>4, <1>5 DEF d, e, r, i, Reading, ReadAt, ReadNow

(* What a process that reads an unfinished row may be at next.             *)
LEMMA ReadStep ==
  ASSUME Typed, NEW p \in Procs, NEW d \in Calls, proc' = [proc EXCEPT ![p] = d], Local(d), Reads(proc[p], d),
         UNCHANGED <<row, ver>>, NothingStarts, WorldOK', left' \in Lefts
  PROVE  Step(p)
BY DEF Step, Onward

LEMMA GoStep ==
  ASSUME Typed, NEW p \in Procs, NEW d \in Calls, proc' = [proc EXCEPT ![p] = d], Local(d), WorksOn(proc[p], d),
         UNCHANGED <<row, ver>>, NothingStarts, WorldOK', left' \in Lefts
  PROVE  Step(p)
BY DEF Step, Onward

LEMMA ListStep == ASSUME Typed, NEW p \in Procs, NEW t \in Tasks, List(p, t) \/ Show(p, t) PROVE Step(p)
<1>0. NothingStarts /\ WorldOK' /\ left' \in Lefts /\ UNCHANGED <<row, ver>>
  BY WorldStays, LeftStays DEF List, Show
<1>1. row[t].phase \in Unfinished /\ row[t].phase # "absent"
  BY Words DEF List, Show, Listed, Unfinished
<1>2. PICK d : /\ proc' = [proc EXCEPT ![p] = d] /\ d \in Calls /\ d.pc \in {"look", "decide"}
               /\ d.task = t /\ d.seen = row[t]
  <2>0. proc[p].at \in Nat /\ proc[p] \in Calls
    BY CallFacts DEF Typed, Local
  <2>1. CASE List(p, t)
    <3>1. PICK x \in {"look", "decide"} : proc' = [proc EXCEPT ![p] = [Reading(t) EXCEPT !.pc = x, !.job = "pass", !.at = proc[p].at]]
      BY <2>1 DEF List, Become
    <3>2. x \in Pcs /\ "pass" \in Jobs
      BY DEF Pcs, Jobs
    <3> DEFINE d == ReadAt(t, x, "pass", proc[p].at)
    <3>3. d \in Calls /\ d.pc = x /\ d.task = t /\ d.seen = row[t]
      BY <2>0, <3>2, ReadFacts
    <3> HIDE DEF d
    <3>4. proc' = [proc EXCEPT ![p] = d]
      BY <3>1 DEF d, ReadAt, ReadNow
    <3> QED
      BY <3>3, <3>4
  <2>2. CASE Show(p, t)
    <3>1. proc' = [proc EXCEPT ![p] = [Reading(t) EXCEPT !.pc = "look", !.job = "show"]]
      BY <2>2 DEF Show, Become
    <3>2. "look" \in Pcs /\ "show" \in Jobs
      BY DEF Pcs, Jobs
    <3> DEFINE d == ReadNow(t, "look", "show")
    <3>3. d \in Calls /\ d.pc = "look" /\ d.task = t /\ d.seen = row[t]
      BY <2>0, <3>2, ReadFacts
    <3> HIDE DEF d
    <3>4. proc' = [proc EXCEPT ![p] = d]
      BY <3>1 DEF d, ReadAt, ReadNow
    <3> QED
      BY <3>3, <3>4
  <2> QED
    BY <2>1, <2>2
<1>3. Local(d)
  BY <1>1, <1>2 DEF Local, Open
<1>4. Reads(proc[p], d)
  BY <1>1, <1>2 DEF Reads, Working, Pcs, Starters
<1> QED
  BY <1>0, <1>2, <1>3, <1>4, ReadStep

(* csquad advance --stopped waits: it works on nothing yet.                *)
LEMMA StoppedStep == ASSUME Typed, NEW p \in Procs, NEW t \in Tasks, Stopped(p, t) PROVE Step(p)
<1>0. UNCHANGED <<row, ver, session, inbox, work, verdicts, spawned, reply, changed>> /\ stops' \subseteq stops
  BY DEF Stopped
<1>1. NothingStarts /\ WorldOK'
  BY <1>0 DEF Typed, WorldOK, NothingStarts
<1>2. left' \in Lefts
  <2>1. UNCHANGED left \/ Spend("late")
    BY DEF Stopped
  <2> QED
    BY <2>1, SpendFacts, LeftStays DEF Kinds
<1> DEFINE i == Idle
           d == [i EXCEPT !.pc = "stopped", !.task = t, !.at = ver[t]]
<1>3. proc' = [proc EXCEPT ![p] = d]
  BY DEF Stopped, Become
<1>4. i \in Calls /\ ver[t] \in Nat /\ "stopped" \in Pcs
  BY IdleFacts DEF Typed, Pcs
<1> HIDE DEF i
<1>5. d \in Calls /\ d.pc = "stopped" /\ d.task = t
  BY <1>4 DEF Calls
<1> HIDE DEF d
<1>6. Local(d) /\ Onward(proc[p], d)
  BY <1>5 DEF Local, Open, Onward, Rests, Working
<1> QED
  BY <1>0, <1>1, <1>2, <1>3, <1>6 DEF Step

LEMMA StoppedLateStep == ASSUME Typed, NEW p \in Procs, StoppedLate(p) PROVE Step(p)
<1>0. NothingStarts /\ WorldOK' /\ left' \in Lefts /\ UNCHANGED <<row, ver>> /\ End(p)
  BY WorldStays, LeftStays DEF StoppedLate
<1> QED
  BY <1>0, EndStep

LEMMA LookStep == ASSUME Typed, NEW p \in Procs, Look(p) PROVE Step(p)
<1> DEFINE c == proc[p]
<1>0. NothingStarts /\ WorldOK' /\ UNCHANGED <<row, ver>>
  BY WorldStays DEF Look
<1>1. left' \in Lefts
  BY SpendFacts, LeftStays DEF Look, Kinds
<1>2. c \in Calls /\ Local(c) /\ c.pc = "look"
  BY DEF Typed, Local, Look, At
<1>3. PICK x \in {"decide", "clear"}, l \in LiveStates \union {"none", "unknown"} :
         proc' = [proc EXCEPT ![p] = [c EXCEPT !.pc = x, !.live = l]]
  <2>1. c.live \in LiveStates \union {"none", "unknown"} /\ c.task \in Tasks
    BY <1>2, CallFacts DEF Local
  <2>2. session[c.task] \in LiveStates \union {"none", "unknown"}
    BY <2>1 DEF Typed, WorldOK
  <2>3. \A x : [c EXCEPT !.pc = x] = [c EXCEPT !.pc = x, !.live = c.live]
    BY <1>2 DEF Calls
  <2>4. PICK x \in {"decide", "clear"} : \/ proc' = [proc EXCEPT ![p] = [c EXCEPT !.pc = x, !.live = session[c.task]]]
                                         \/ proc' = [proc EXCEPT ![p] = [c EXCEPT !.pc = x]]
    BY DEF Look, Become
  <2> QED
    BY <2>1, <2>2, <2>3, <2>4
<1> DEFINE d == [c EXCEPT !.pc = x, !.live = l]
<1> HIDE DEF c
<1>4. d \in Calls /\ d.pc = x /\ d.task = c.task /\ d.seen = c.seen
  <2>1. x \in Pcs
    BY DEF Pcs
  <2> QED
    BY <1>2, <2>1 DEF Calls
<1>5. proc' = [proc EXCEPT ![p] = d]
  BY <1>3
<1> HIDE DEF d
<1>6. Local(d)
  BY <1>2, <1>4 DEF Local, Open
<1>7. WorksOn(c, d)
  BY <1>2, <1>4 DEF WorksOn, Working, Pcs, Starters
<1> QED
  BY <1>0, <1>1, <1>4, <1>5, <1>6, <1>7, GoStep DEF c

(* The verdict of a file.                                                  *)
LEMMA VerdictFacts ==
  ASSUME Typed, NEW t, NEW seen, NEW version
  PROVE  VerdictOf(t, seen, version) = NoVerdict \/ Given(VerdictOf(t, seen, version))
<1> DEFINE fit == {v \in verdicts : v.task = t /\ v.round = seen.round /\ v.for = version}
           v == CHOOSE v \in fit : TRUE
<1>1. CASE fit = {}
  BY <1>1 DEF VerdictOf
<1>2. CASE fit # {}
  <2>1. v \in fit
    BY <1>2
  <2>2. v \in VerdictFiles
    BY <2>1 DEF Typed, WorldOK
  <2>3. VerdictOf(t, seen, version) = [kind |-> v.kind, count |-> v.count]
    BY <1>2 DEF VerdictOf
  <2> HIDE DEF v
  <2> QED
    BY <2>2, <2>3 DEF VerdictFiles, Given
<1> QED
  BY <1>1, <1>2

(* What was observed of a task that is not being landed.                   *)
LEMMA DecidesFacts ==
  ASSUME Typed, NEW p \in Procs, NEW o, proc[p].pc \in Open, Due(p, NextMove(proc[p].seen, o)),
         o.verdict = NoVerdict \/ Given(o.verdict), o.land # "done",
         (\A u \in proc[p].seen.after : o.deps[u] = "done") /\ proc[p].seen.phase = "waiting"
           => \A u \in proc[p].seen.after : row[u].phase = "done",
         UNCHANGED <<row, ver>>, NothingStarts, WorldOK', left' \in Lefts
  PROVE  Step(p)
<1> DEFINE c == proc[p]
           m == NextMove(c.seen, o)
<1>1. c \in Calls /\ Local(c) /\ c.seen \in Rows(Tasks) /\ c.task \in Tasks /\ c.seen.phase \in Unfinished /\ c.pc \in Working
  BY CallFacts DEF Typed, Local, Open, Working, Pcs
<1>2. Decided(c.seen, o, m)
  BY <1>1, NextDecided
<1> HIDE DEF m
<1>3. m.next # c.seen => Sound(c.seen, m) /\ m.next.phase # "done"
  BY <1>2 DEF Decided
<1>4. m.next # c.seen /\ m.effect = "start" => \A u \in c.seen.after : row[u].phase = "done"
  BY <1>2 DEF Decided, Sound
<1>5. m \in Moves /\ (m.next = c.seen => m.effect \in {"none", "land"})
  BY <1>2 DEF Decided
<1>6. Due(p, m)
  BY DEF m
<1> QED
  BY <1>1, <1>3, <1>4, <1>5, <1>6, DueStep

LEMMA DecideStep == ASSUME Typed, NEW p \in Procs, Decide(p) PROVE Step(p)
<1>0. NothingStarts /\ WorldOK' /\ left' \in Lefts /\ UNCHANGED <<row, ver>>
  BY WorldStays, LeftStays DEF Decide
<1>1. PICK patient \in BOOLEAN : Due(p, NextMove(proc[p].seen, Observation(p, patient)))
  BY DEF Decide
<1> DEFINE o == Observation(p, patient)
<1>2. /\ o.verdict = (IF proc[p].seen.phase = "checking" THEN VerdictOf(proc[p].task, proc[p].seen, proc[p].ver) ELSE NoVerdict)
      /\ o.land = "none"
      /\ o.deps = IF proc[p].seen.phase = "waiting" THEN [d \in proc[p].seen.after |-> row[d].phase] ELSE <<>>
  BY DEF Observation
<1>3. Due(p, NextMove(proc[p].seen, o))
  BY <1>1
<1> HIDE DEF o
<1>4. o.verdict = NoVerdict \/ Given(o.verdict)
  BY <1>2, VerdictFacts
<1>5. proc[p].seen.phase = "waiting" => \A u \in proc[p].seen.after : o.deps[u] = row[u].phase
  BY <1>2
<1>6. proc[p].pc \in Open
  BY DEF Decide, At, Open
<1> QED
  BY <1>0, <1>2, <1>3, <1>4, <1>5, <1>6, DecidesFacts

---------------------------------------------------------------------------
(* The effects.                                                            *)

(* An effect that fails hands the task back.                               *)
LEMMA FailStep ==
  ASSUME Typed, NEW p \in Procs, NEW s \in Steps, Fail(p, s), proc[p].pc \in Open,
         s \in {"check", "round", "merge"} => Advanced(proc[p].seen), s # "merge",
         UNCHANGED <<row, ver>>, NothingStarts, WorldOK', left' \in Lefts
  PROVE  Step(p)
<1> DEFINE c == proc[p]
           n == To(c.seen, "needs_you", s)
           m == Stay(n)
           d == [c EXCEPT !.pc = "write", !.move = m]
<1>1. c \in Calls /\ Local(c) /\ c.seen \in Rows(Tasks) /\ c.task \in Tasks /\ c.seen.phase \in Unfinished /\ c.pc \in Working
  BY CallFacts DEF Typed, Local, Open, Working, Pcs
<1>2. "needs_you" \in Phases
  BY Words
<1>3. n \in Rows(Tasks) /\ n.phase = "needs_you" /\ n.step = s /\ n.session = c.seen.session /\ n.hold = c.seen.hold /\ SameLaunch(n, c.seen)
  BY <1>1, <1>2, ToFacts
<1>4. proc' = [proc EXCEPT ![p] = d]
  BY DEF Fail, Become, NeedsYou
<1> HIDE DEF c, n
<1>5. m \in Moves /\ m.next = n /\ m.effect = "none"
  BY <1>3, Words DEF Moves, Stay, Move
<1> HIDE DEF m
<1>6. Sound(c.seen, m)
  BY <1>1, <1>3, <1>5 DEF Sound, Advanced, Merging, c
<1>7. "write" \in Pcs
  BY DEF Pcs
<1>8. d \in Calls /\ d.pc = "write" /\ d.task = c.task /\ d.seen = c.seen /\ d.move = m
  BY <1>1, <1>5, <1>7, CallMove
<1> HIDE DEF d
<1>9. Local(d)
  BY <1>1, <1>6, <1>8 DEF Local, Open
<1>10. WorksOn(c, d)
  BY <1>1, <1>3, <1>5, <1>8 DEF WorksOn, Working, Pcs, Starters
<1> QED
  BY <1>4, <1>8, <1>9, <1>10, GoStep DEF c

(* What most effects do to the world around.                               *)
LEMMA SpawnCheckStep == ASSUME Typed, NEW p \in Procs, SpawnCheck(p) PROVE Step(p)
<1>0. /\ UNCHANGED <<row, ver, session, inbox, work, verdicts, stops, reply, changed>>
      /\ proc[p].pc = "check" /\ proc[p].pc \in Open /\ proc[p].task \in Tasks /\ Advanced(proc[p].seen)
  BY DEF SpawnCheck, At, Open, Typed, Local, Advanced
<1>1. left' \in Lefts
  BY SpendFacts, LeftStays DEF SpawnCheck, Kinds
<1>2. spawned' \subseteq Tasks
  <2>1. spawned' = spawned \union {proc[p].task} \/ spawned' = spawned
    BY DEF SpawnCheck, Spawn
  <2> QED
    BY <1>0, <2>1 DEF Typed, WorldOK
<1>3. NothingStarts /\ WorldOK'
  BY <1>0, <1>2 DEF Typed, WorldOK, NothingStarts
<1>4. End(p) \/ Fail(p, "check")
  BY DEF SpawnCheck
<1>5. "check" \in Steps /\ "check" # "merge"
  BY Words
<1> QED
  BY <1>0, <1>1, <1>3, <1>4, <1>5, EndStep, FailStep

LEMMA SendStep == ASSUME Typed, NEW p \in Procs, Send(p) PROVE Step(p)
<1>0. /\ UNCHANGED <<row, ver, session, work, verdicts, spawned, stops, reply, changed>>
      /\ proc[p].pc = "send" /\ proc[p].pc \in Open
  BY DEF Send, At, Open
<1>1. left' \in Lefts
  BY SpendFacts, LeftStays DEF Send, Kinds
<1>2. inbox' \in [Tasks -> BOOLEAN]
  BY DEF Send, Typed, WorldOK
<1>3. NothingStarts /\ WorldOK'
  BY <1>0, <1>2 DEF Typed, WorldOK, NothingStarts
<1>4. End(p) \/ Fail(p, "")
  BY DEF Send
<1>5. "" \in Steps /\ "" \notin {"check", "round", "merge"}
  BY Words
<1> QED
  BY <1>0, <1>1, <1>3, <1>4, <1>5, EndStep, FailStep

(* The lock, and the row again.                                            *)
LEMMA LockFacts == \A t \in Tasks : \A n \in Nat : TaskLock(t) \in Locks /\ CheckLock(t, n) \in Locks
BY TasksAssumption DEF TaskLock, CheckLock, Locks

LEMMA ClaimFacts ==
  ASSUME Typed, NEW p \in Procs, NEW j \in {"starting", "landing", "finishing"}, Claim(p, j), proc[p].task \in Tasks
  PROVE  \E d \in Calls : /\ proc' = [proc EXCEPT ![p] = d] /\ d.pc = j /\ d.job = j /\ d.task = proc[p].task
                          /\ d.seen = row[d.task] /\ d.move = proc[p].move
<1> DEFINE c == proc[p]
           t == c.task
           d == [c EXCEPT !.pc = j, !.job = j, !.seen = row[t], !.ver = ver[t], !.locks = @ \union {TaskLock(t)}]
<1>1. proc' = [proc EXCEPT ![p] = d]
  BY DEF Claim, Become
<1>2. c \in Calls /\ row[t] \in Rows(Tasks) /\ ver[t] \in Nat /\ j \in Pcs /\ j \in Jobs /\ TaskLock(t) \in Locks
  <2>1. \A u \in Tasks : TaskLock(u) \in Locks
    BY LockFacts
  <2> QED
    BY <2>1 DEF Typed, Local, Pcs, Jobs
<1> DEFINE l == c.locks \union {TaskLock(t)}
<1>3. l \in SUBSET Locks
  BY <1>2, CallFacts
<1>4. d = [c EXCEPT !.pc = j, !.job = j, !.seen = row[t], !.ver = ver[t], !.locks = l]
  BY <1>2 DEF Calls
<1>5. t \in Tasks
  OBVIOUS
<1> HIDE DEF d, l, c
<1>6. d \in Calls /\ d.pc = j /\ d.job = j /\ d.task = c.task /\ d.seen = row[t] /\ d.move = c.move
  BY <1>2, <1>3, <1>4 DEF Calls
<1> QED
  BY <1>1, <1>6 DEF c

LEMMA StartQueuedStep == ASSUME Typed, NEW p \in Procs, StartQueued(p) PROVE Step(p)
<1>0. /\ NothingStarts /\ WorldOK' /\ left' \in Lefts /\ UNCHANGED <<row, ver>>
      /\ proc[p].pc = "start" /\ proc[p].task \in Tasks /\ proc[p].seen.phase \in Unfinished
  BY WorldStays, LeftStays DEF StartQueued, At, Typed, Local, Open
<1>1. CASE End(p)
  BY <1>0, <1>1, EndStep
<1>2. CASE Claim(p, "starting") /\ Same(proc[p].seen, proc[p].ver, proc[p].task)
  <2>1. PICK d \in Calls : /\ proc' = [proc EXCEPT ![p] = d] /\ d.pc = "starting" /\ d.task = proc[p].task
                           /\ d.seen = row[d.task] /\ d.move = proc[p].move
    BY <1>0, <1>2, ClaimFacts
  <2>2. d.seen.phase \in Unfinished
    BY <1>0, <1>2, <2>1 DEF Same
  <2>3. Local(d)
    BY <1>0, <2>1, <2>2 DEF Local
  <2>4. Reads(proc[p], d)
    BY <1>0, <2>1, <2>2 DEF Reads, Working, Pcs, Unfinished
  <2> QED
    BY <1>0, <2>1, <2>3, <2>4, ReadStep
<1> QED
  BY <1>1, <1>2 DEF StartQueued, Missed

LEMMA LandStep == ASSUME Typed, NEW p \in Procs, Land(p) PROVE Step(p)
<1>0. /\ NothingStarts /\ WorldOK' /\ left' \in Lefts /\ UNCHANGED <<row, ver>>
      /\ proc[p].pc = "land" /\ proc[p].task \in Tasks
  BY WorldStays, LeftStays DEF Land, At, Typed, Local
<1>1. CASE End(p)
  BY <1>0, <1>1, EndStep
<1>2. CASE Claim(p, "landing") /\ row[proc[p].task].phase = "merging"
  <2>1. PICK d \in Calls : /\ proc' = [proc EXCEPT ![p] = d] /\ d.pc = "landing" /\ d.task = proc[p].task
                           /\ d.seen = row[d.task] /\ d.move = proc[p].move
    BY <1>0, <1>2, ClaimFacts
  <2>2. d.seen.phase = "merging"
    BY <1>2, <2>1
  <2>3. Local(d)
    BY <1>0, <2>1, <2>2, Words DEF Local
  <2>4. Reads(proc[p], d)
    BY <1>0, <2>1, <2>2 DEF Reads, Working, Pcs, Starters
  <2> QED
    BY <1>0, <2>1, <2>3, <2>4, ReadStep
<1> QED
  BY <1>1, <1>2 DEF Land, Missed

(* What a landing decides.                                                 *)
LEMMA LandMoveFacts ==
  ASSUME Typed, NEW p \in Procs, proc[p].seen.phase = "merging", NEW l \in {"done", "conflict", "problem"}
  PROVE  LET m == LandMove(p, l)
         IN  /\ m \in Moves /\ (m.next # proc[p].seen => Sound(proc[p].seen, m))
             /\ m.next = proc[p].seen => m.effect \in {"none", "land"}
             /\ l = "done" => m.next # proc[p].seen /\ m.effect = "none" /\ m.next.phase = "done"
             /\ l # "done" /\ m.next # proc[p].seen => m.next.phase # "done"
<1> DEFINE r == proc[p].seen
           o == [NoObs EXCEPT !.land = l]
           m == LandMove(p, l)
<1>1. r \in Rows(Tasks)
  BY CallFacts DEF Typed, Local
<1>2. o.land = l /\ o.verdict = NoVerdict
  BY DEF NoObs
<1>3. m = NextMove(r, o)
  BY DEF LandMove
<1> HIDE DEF o, m
<1>4. Decided(r, o, m)
  BY <1>1, <1>2, <1>3, NextDecided
<1>5. l = "done" => m = Stay(To(r, "done", ""))
  <2> HAVE l = "done"
  <2>1. NextMove(r, o) = NextMerging(r, o)
    BY DEF NextMove
  <2>2. NextMerging(r, o) = Landed(r, "done")
    BY <1>2 DEF NextMerging
  <2> QED
    BY <1>3, <2>1, <2>2 DEF Landed
<1>6. l = "done" => m.next # r /\ m.effect = "none" /\ m.next.phase = "done"
  <2> HAVE l = "done"
  <2>1. "done" \in Phases /\ "" \in Steps /\ r.phase = "merging"
    BY Words
  <2> HIDE DEF r
  <2> DEFINE n == To(r, "done", "")
  <2>2. n.phase = "done" /\ m = Stay(n)
    BY <1>1, <1>5, <2>1, ToFacts
  <2> HIDE DEF n
  <2> QED
    BY <2>1, <2>2 DEF Stay, Move
<1> QED
  BY <1>2, <1>4, <1>6 DEF Decided, m

(* A landing that succeeds goes on to clean up, or, in place, to remove    *)
(* the session.                                                            *)
LEMMA OnwardStep ==
  ASSUME Typed, NEW p \in Procs, NEW x \in {"clean", "remove"}, proc[p].pc = "landing",
         Become(p, [proc[p] EXCEPT !.pc = x, !.move = LandMove(p, "done")]), x = "remove" => proc[p].seen.inPlace,
         UNCHANGED <<row, ver>>, NothingStarts, WorldOK', left' \in Lefts
  PROVE  Step(p)
<1> DEFINE c == proc[p]
           m == LandMove(p, "done")
           d == [c EXCEPT !.pc = x, !.move = m]
<1>1. c \in Calls /\ Local(c) /\ c.task \in Tasks /\ c.seen.phase = "merging" /\ c.pc \in Working
  BY CallFacts DEF Typed, Local, Working, Pcs
<1>2. m \in Moves /\ Sound(c.seen, m) /\ m.effect = "none" /\ m.next.phase = "done"
  BY <1>1, LandMoveFacts
<1>3. proc' = [proc EXCEPT ![p] = d] /\ x \in Pcs
  BY DEF Become, Pcs
<1> HIDE DEF m, c
<1>4. d \in Calls /\ d.pc = x /\ d.job = c.job /\ d.task = c.task /\ d.seen = c.seen /\ d.move = m
  BY <1>1, <1>2, <1>3 DEF Calls
<1> HIDE DEF d
<1>5. Local(d)
  BY <1>1, <1>2, <1>4 DEF Local, Open
<1>6. WorksOn(c, d)
  BY <1>1, <1>4 DEF WorksOn, Working, Pcs, Starters, c
<1> QED
  BY <1>3, <1>4, <1>5, <1>6, GoStep DEF c

LEMMA LandingStep == ASSUME Typed, NEW p \in Procs, Landing(p) PROVE Step(p)
<1> DEFINE t == proc[p].task
<1>0. /\ UNCHANGED <<row, ver, session, inbox, verdicts, spawned, stops, reply, changed>> /\ proc[p].pc = "landing"
      /\ t \in Tasks /\ proc[p].seen.phase = "merging" /\ proc[p].seen.phase \in Unfinished /\ proc[p].pc \in Working
  BY Words DEF Landing, At, Typed, Local, Working, Pcs
<1>1. work' = work \/ (work[t] # "none" /\ work' = [work EXCEPT ![t] = "merged"])
  BY DEF Landing
<1>2. NothingStarts /\ WorldOK'
  BY <1>0, <1>1 DEF Typed, WorldOK, NothingStarts
<1>3. left' \in Lefts
  <2>1. UNCHANGED left \/ Spend("fault")
    BY DEF Landing
  <2> QED
    BY <2>1, SpendFacts, LeftStays DEF Kinds
<1>4. ASSUME NEW l \in {"conflict", "problem"}, Due(p, LandMove(p, l)) PROVE Step(p)
  <2> DEFINE m == LandMove(p, l)
  <2>1. /\ m \in Moves /\ (m.next # proc[p].seen => Sound(proc[p].seen, m))
        /\ m.next = proc[p].seen => m.effect \in {"none", "land"}
        /\ m.next # proc[p].seen => m.next.phase # "done"
    BY <1>0, LandMoveFacts
  <2>2. Due(p, m)
    BY <1>4
  <2> HIDE DEF m
  <2>3. m.next # proc[p].seen => m.effect # "start"
    BY <1>0, <2>1 DEF Sound
  <2> QED
    BY <1>0, <1>2, <1>3, <2>1, <2>2, <2>3, DueStep
<1>5. \/ \E l \in {"conflict", "problem"} : Due(p, LandMove(p, l))
      \/ proc[p].seen.inPlace /\ Become(p, [proc[p] EXCEPT !.pc = "remove", !.move = LandMove(p, "done")])
      \/ Become(p, [proc[p] EXCEPT !.pc = "clean", !.move = LandMove(p, "done")])
  BY DEF Landing
<1> QED
  BY <1>0, <1>2, <1>3, <1>4, <1>5, OnwardStep

LEMMA CleanStep == ASSUME Typed, NEW p \in Procs, Clean(p) PROVE Step(p)
<1> DEFINE c == proc[p]
           t == c.task
<1>0. /\ UNCHANGED <<row, ver, session, inbox, verdicts, spawned, stops, reply, changed>> /\ c.pc = "clean"
      /\ c \in Calls /\ Local(c) /\ t \in Tasks /\ c.pc \in Working
  BY DEF Clean, At, Typed, Local, Working, Pcs
<1>1. work' = work \/ work' = [work EXCEPT ![t] = "none"]
  BY DEF Clean
<1>2. NothingStarts /\ WorldOK'
  BY <1>0, <1>1 DEF Typed, WorldOK, NothingStarts
<1>3. left' \in Lefts
  <2>1. UNCHANGED left \/ Spend("fault")
    BY DEF Clean
  <2> QED
    BY <2>1, SpendFacts, LeftStays DEF Kinds
<1>4. CASE work' = [work EXCEPT ![t] = "none"] /\ Become(p, [c EXCEPT !.pc = "remove"])
  <2> DEFINE d == [c EXCEPT !.pc = "remove"]
  <2>1. proc' = [proc EXCEPT ![p] = d] /\ "remove" \in Pcs
    BY <1>4 DEF Become, Pcs
  <2>2. work'[t] = "none"
    BY <1>0, <1>4 DEF Typed, WorldOK
  <2> HIDE DEF c
  <2>3. d \in Calls /\ d.pc = "remove" /\ d.job = c.job /\ d.task = c.task /\ d.seen = c.seen /\ d.move = c.move
    BY <1>0, <2>1, CallTo
  <2> HIDE DEF d
  <2>4. Local(d)
    BY <1>0, <2>3 DEF Local, Open
  <2>5. WorksOn(c, d)
    BY <1>0, <2>2, <2>3 DEF WorksOn, Working, Pcs, Starters
  <2> QED
    BY <1>0, <1>2, <1>3, <2>1, <2>3, <2>4, <2>5, GoStep DEF c
<1>5. CASE c.job = "landing" /\ Due(p, LandMove(p, "problem"))
  <2> DEFINE m == LandMove(p, "problem")
  <2>1. c.seen.phase = "merging" /\ c.seen.phase \in Unfinished
    BY <1>0, <1>5, Words DEF Local
  <2>2. /\ m \in Moves /\ (m.next # c.seen => Sound(c.seen, m))
        /\ m.next = c.seen => m.effect \in {"none", "land"}
        /\ m.next # c.seen => m.next.phase # "done"
    BY <2>1, LandMoveFacts
  <2>3. Due(p, m)
    BY <1>5
  <2> HIDE DEF m
  <2>4. m.next # c.seen => m.effect # "start"
    BY <2>1, <2>2 DEF Sound
  <2> QED
    BY <1>0, <1>2, <1>3, <2>1, <2>2, <2>3, <2>4, DueStep
<1>6. CASE End(p)
  BY <1>0, <1>2, <1>3, <1>6, EndStep
<1> QED
  BY <1>4, <1>5, <1>6 DEF Clean

(* The session is removed, and the write is due, if there is one.          *)
LEMMA RemoveStep == ASSUME Typed, NEW p \in Procs, Remove(p) PROVE Step(p)
<1> DEFINE c == proc[p]
<1>0. /\ UNCHANGED <<row, ver, inbox, work, verdicts, spawned, stops, reply, changed>> /\ c.pc = "remove"
      /\ c \in Calls /\ Local(c) /\ c.task \in Tasks /\ c.pc \in Working
  BY DEF Remove, At, Typed, Local, Working, Pcs
<1>1. \/ session' = session
      \/ session' = [session EXCEPT ![c.task] = IF @ = "none" \/ ~c.seen.session THEN @ ELSE "gone"]
  BY DEF Remove
<1>2. NothingStarts /\ WorldOK'
  BY <1>0, <1>1 DEF Typed, WorldOK, NothingStarts, LiveStates
<1>3. left' \in Lefts
  <2>1. UNCHANGED left \/ Spend("fault")
    BY DEF Remove
  <2> QED
    BY <2>1, SpendFacts, LeftStays DEF Kinds
<1>4. CASE c.move # Idle.move /\ Become(p, [c EXCEPT !.pc = "write"])
  <2> DEFINE d == [c EXCEPT !.pc = "write"]
  <2>1. proc' = [proc EXCEPT ![p] = d] /\ "write" \in Pcs
    BY <1>4 DEF Become, Pcs
  <2>2. Sound(c.seen, c.move) /\ c.move.effect = "none"
    BY <1>0, <1>4 DEF Local
  <2> HIDE DEF c
  <2>3. d \in Calls /\ d.pc = "write" /\ d.job = c.job /\ d.task = c.task /\ d.seen = c.seen /\ d.move = c.move
    BY <1>0, <2>1, CallTo
  <2> HIDE DEF d
  <2>4. Local(d)
    BY <1>0, <2>2, <2>3 DEF Local, Open, Sound
  <2>5. WorksOn(c, d)
    BY <1>0, <2>2, <2>3 DEF WorksOn, Working, Pcs, Starters
  <2> QED
    BY <1>0, <1>2, <1>3, <2>1, <2>3, <2>4, <2>5, GoStep DEF c
<1>5. CASE End(p)
  BY <1>0, <1>2, <1>3, <1>5, EndStep
<1> QED
  BY <1>4, <1>5 DEF Remove

---------------------------------------------------------------------------
(* csquad check.                                                           *)

(* Of the rest nothing changes that matters here.                          *)
Quiet == UNCHANGED <<row, ver, proc>> /\ NothingStarts /\ WorldOK' /\ left' \in Lefts

LEMMA CheckStep == ASSUME Typed, NEW p \in Procs, NEW t \in Tasks, Check(p, t) PROVE Step(p) \/ Quiet
<1>0. UNCHANGED <<row, ver, session, inbox, work, verdicts, stops, reply, changed, left>> /\ spawned' \subseteq spawned
  BY DEF Check
<1>1. NothingStarts /\ WorldOK' /\ left' \in Lefts
  BY <1>0, LeftStays DEF Typed, WorldOK, NothingStarts
<1>2. CASE row[t].phase = "checking"
  <2> DEFINE d == ReadNow(t, "checkLock", "check")
  <2>1. proc' = [proc EXCEPT ![p] = d]
    BY <1>2 DEF Check, Become, ReadNow
  <2>2. "checkLock" \in Pcs /\ "check" \in Jobs /\ 0 \in Nat
    BY DEF Pcs, Jobs
  <2>3. d \in Calls /\ d.pc = "checkLock" /\ d.task = t /\ d.seen = row[t]
    BY <2>2, ReadFacts
  <2> HIDE DEF d
  <2>4. Local(d)
    BY <1>2, <2>3, Words DEF Local, Open
  <2>5. Reads(proc[p], d)
    BY <1>2, <2>3 DEF Reads, Working, Pcs, Starters
  <2> QED
    BY <1>0, <1>1, <2>1, <2>3, <2>4, <2>5, ReadStep
<1>3. CASE row[t].phase # "checking"
  BY <1>0, <1>1, <1>3 DEF Check, Quiet
<1> QED
  BY <1>2, <1>3

LEMMA CheckClaimStep == ASSUME Typed, NEW p \in Procs, CheckClaim(p) PROVE Step(p)
<1> DEFINE c == proc[p]
           t == c.task
<1>0. /\ UNCHANGED <<row, ver, session, inbox, work, verdicts, spawned, stops, reply, left>> /\ c.pc = "checkLock"
      /\ c \in Calls /\ Local(c) /\ t \in Tasks /\ c.seen.round \in Nat
  <2>1. c \in Calls /\ Local(c) /\ c.pc = "checkLock"
    BY DEF CheckClaim, At, Typed, Local
  <2>2. c.seen \in Rows(Tasks)
    BY <2>1, CallFacts
  <2> QED
    BY <2>1, <2>2, RowFacts DEF CheckClaim, Local
<1>1. changed' \in [Tasks -> BOOLEAN]
  BY DEF CheckClaim, Typed, WorldOK
<1>2. NothingStarts /\ WorldOK' /\ left' \in Lefts
  BY <1>0, <1>1, LeftStays DEF Typed, WorldOK, NothingStarts
<1>3. CASE End(p)
  BY <1>0, <1>2, <1>3, EndStep
<1>4. ASSUME ~End(p) PROVE Step(p)
  <2> DEFINE l == {CheckLock(t, c.seen.round)}
             e == [c EXCEPT !.seen = row[t], !.ver = ver[t], !.locks = l]
  <2>1. row[t].phase = "checking"
    BY <1>4 DEF CheckClaim
  <2>2. PICK x \in {"checkRun", "checkApply"} : proc' = [proc EXCEPT ![p] = [e EXCEPT !.pc = x]]
    BY <1>4 DEF CheckClaim, Become
  <2>3. l \in SUBSET Locks
    <3>1. \A n \in Nat : CheckLock(t, n) \in Locks
      BY <1>0, LockFacts
    <3> QED
      BY <1>0, <3>1
  <2>4. row[t] \in Rows(Tasks) /\ ver[t] \in Nat /\ x \in Pcs
    BY <1>0 DEF Typed, Pcs
  <2> DEFINE d == [e EXCEPT !.pc = x]
  <2> HIDE DEF l
  <2>5. e \in Calls /\ e.task = t /\ e.seen = row[t]
    BY <1>0, <2>3, <2>4 DEF Calls
  <2> HIDE DEF e
  <2>6. d \in Calls /\ d.pc = x /\ d.task = t /\ d.seen = row[t]
    BY <2>4, <2>5 DEF Calls
  <2>7. proc' = [proc EXCEPT ![p] = d]
    BY <2>2
  <2> HIDE DEF d
  <2>8. Local(d)
    BY <1>0, <2>1, <2>6, Words DEF Local, Open
  <2>9. Reads(c, d)
    BY <2>1, <2>6 DEF Reads, Working, Pcs, Starters
  <2> QED
    BY <1>0, <1>2, <2>6, <2>7, <2>8, <2>9, ReadStep
<1> QED
  BY <1>3, <1>4

LEMMA CheckRunStep == ASSUME Typed, NEW p \in Procs, CheckRun(p) PROVE Step(p)
<1> DEFINE c == proc[p]
           t == c.task
           r == c.seen
           others == {v \in verdicts : v.task # t \/ v.round # r.round}
           file(v) == [task |-> t, round |-> r.round, for |-> c.ver, kind |-> v.kind, count |-> v.count]
<1>0. /\ UNCHANGED <<row, ver, session, inbox, work, spawned, stops, reply, changed>> /\ c.pc = "checkRun"
      /\ c \in Calls /\ Local(c) /\ t \in Tasks /\ r.phase = "checking"
  BY DEF CheckRun, At, Typed, Local
<1>1. r.round \in Nat /\ c.ver \in Nat
  BY <1>0, CallFacts, RowFacts
<1>2. left' \in Lefts
  <2>1. UNCHANGED left \/ Spend("fault")
    BY DEF CheckRun
  <2> QED
    BY <2>1, SpendFacts, LeftStays DEF Kinds
<1>3. PICK v : v.kind \in {"pass", "fail", "error"} /\ v.count \in Nat /\ verdicts' = others \union {file(v)}
  <2>1. \A v \in CmdVerdicts : v.kind \in {"pass", "fail", "error"} /\ v.count \in Nat
    BY DEF CmdVerdicts
  <2>2. \A v \in ReviewVerdicts : v.kind \in {"pass", "fail", "error"} /\ v.count \in Nat
    BY SquadCountsAssumption DEF ReviewVerdicts, Verdicts
  <2>3. NoAnswer.kind \in {"pass", "fail", "error"} /\ NoAnswer.count \in Nat
    BY DEF NoAnswer
  <2>4. \/ \E v \in CmdVerdicts : verdicts' = others \union {file(v)}
        \/ \E v \in ReviewVerdicts : verdicts' = others \union {file(v)}
        \/ verdicts' = others \union {file(NoAnswer)}
    <3> HIDE DEF others
    <3> QED
      BY DEF CheckRun, others
  <2> QED
    BY <2>1, <2>2, <2>3, <2>4
<1>4. verdicts' \subseteq VerdictFiles
  <2>1. file(v) \in VerdictFiles
    BY <1>0, <1>1, <1>3 DEF VerdictFiles
  <2>2. others \subseteq VerdictFiles
    BY DEF Typed, WorldOK
  <2> HIDE DEF others, file
  <2> QED
    BY <1>3, <2>1, <2>2
<1>5. NothingStarts /\ WorldOK'
  BY <1>0, <1>4 DEF Typed, WorldOK, NothingStarts
<1> DEFINE d == [c EXCEPT !.pc = "checkApply"]
<1>6. proc' = [proc EXCEPT ![p] = d] /\ "checkApply" \in Pcs
  BY DEF CheckRun, Become, Pcs
<1> HIDE DEF c
<1>7. d \in Calls /\ d.pc = "checkApply" /\ d.task = c.task /\ d.seen = c.seen
  BY <1>0, <1>6, CallTo
<1> HIDE DEF d
<1>8. Local(d)
  BY <1>0, <1>7 DEF Local, Open
<1>9. WorksOn(c, d)
  BY <1>0, <1>7 DEF WorksOn, Working, Pcs, Starters
<1> QED
  BY <1>0, <1>2, <1>5, <1>6, <1>7, <1>8, <1>9, GoStep DEF c

LEMMA CheckApplyStep == ASSUME Typed, NEW p \in Procs, CheckApply(p) PROVE Step(p)
<1>0. /\ NothingStarts /\ WorldOK' /\ left' \in Lefts /\ UNCHANGED <<row, ver>>
      /\ proc[p].pc \in Open /\ proc[p].seen.phase = "checking"
  BY WorldStays, LeftStays DEF CheckApply, At, Open, Typed, Local
<1> DEFINE v == VerdictOf(proc[p].task, proc[p].seen, proc[p].ver)
           o == [NoObs EXCEPT !.verdict = v, !.dependents = Dependents(proc[p].task)]
<1>1. Due(p, NextMove(proc[p].seen, o))
  BY DEF CheckApply
<1>2. o.verdict = v /\ o.land = "none"
  BY DEF NoObs
<1>3. v = NoVerdict \/ Given(v)
  BY VerdictFacts
<1> HIDE DEF o, v
<1> QED
  BY <1>0, <1>1, <1>2, <1>3, DecidesFacts

---------------------------------------------------------------------------
(* The user's commands.                                                    *)

LEMMA ParseStep == ASSUME Typed, NEW p \in Procs, NEW a \in left.launches, Parse(p, a) PROVE Step(p)
<1> DEFINE i == Idle
           n == NoRow
           r == [n EXCEPT !.max = Rounds, !.after = a.after, !.check = a.check,
                          !.merge = a.merge, !.hold = a.hold, !.inPlace = a.inPlace]
           d == [i EXCEPT !.pc = "insert", !.job = "launch", !.seen = r]
<1>0. UNCHANGED <<row, ver>> /\ NothingStarts /\ WorldOK' /\ a \in Launches
  BY WorldStays DEF Parse, Typed
<1>1. left' \in Lefts
  BY DEF Parse, Typed, Lefts
<1>2. proc' = [proc EXCEPT ![p] = d]
  BY DEF Parse, Become
<1>3. n \in Rows(Tasks) /\ n.phase = "absent" /\ n.step = "" /\ ~n.session
  BY NoRowFacts
<1>4. i \in Calls
  BY IdleFacts
<1>5. "insert" \in Pcs /\ "launch" \in Jobs
  BY DEF Pcs, Jobs
<1>6. /\ a.after \in SUBSET Tasks /\ a.check \in CheckSpecs /\ a.merge \in BOOLEAN
      /\ a.hold \in BOOLEAN /\ a.inPlace \in BOOLEAN /\ (a.merge => ~a.hold)
  BY <1>0 DEF Launches
<1>7. Rounds \in Nat
  BY SquadRoundsAssumption
<1> HIDE DEF n, i
<1>8. r \in Rows(Tasks) /\ r.phase = "absent" /\ r.step = "" /\ ~r.session /\ (r.merge => ~r.hold)
  BY <1>3, <1>6, <1>7 DEF Rows
<1> HIDE DEF r
<1>9. d \in Calls /\ d.pc = "insert" /\ d.seen = r
  BY <1>4, <1>5, <1>8 DEF Calls
<1> HIDE DEF d
<1>10. Local(d) /\ Onward(proc[p], d)
  BY <1>8, <1>9 DEF Local, Open, Onward, Rests, Working
<1> QED
  BY <1>0, <1>1, <1>2, <1>10 DEF Step

LEMMA QueueStep == ASSUME Typed, NEW p \in Procs, Queue(p) PROVE Step(p)
<1> DEFINE c == proc[p]
           d == [c EXCEPT !.pc = "delete"]
<1>0. /\ UNCHANGED <<row, ver>> /\ NothingStarts /\ WorldOK'
      /\ c \in Calls /\ Local(c) /\ c.pc = "queue" /\ c.task \in Tasks
  BY WorldStays DEF Queue, At, Typed, Local
<1>1. left' \in Lefts
  <2>1. UNCHANGED left \/ Spend("fault")
    BY DEF Queue
  <2> QED
    BY <2>1, SpendFacts, LeftStays DEF Kinds
<1>2. CASE End(p)
  BY <1>0, <1>1, <1>2, EndStep
<1>3. CASE Become(p, d)
  <2>1. proc' = [proc EXCEPT ![p] = d] /\ "delete" \in Pcs
    BY <1>3 DEF Become, Pcs
  <2> HIDE DEF c
  <2>2. d \in Calls /\ d.pc = "delete" /\ d.task = c.task /\ d.seen = c.seen
    BY <1>0, <2>1, CallTo
  <2> HIDE DEF d
  <2>3. Local(d) /\ WorksOn(c, d)
    BY <1>0, <2>2 DEF Local, Open, WorksOn, Working, Pcs, Starters
  <2> QED
    BY <1>0, <1>1, <2>1, <2>2, <2>3, GoStep DEF c
<1> QED
  BY <1>2, <1>3 DEF Queue

LEMMA LaunchLockStep == ASSUME Typed, NEW p \in Procs, LaunchLock(p) PROVE Step(p)
<1> DEFINE c == proc[p]
<1>0. /\ UNCHANGED <<row, ver>> /\ NothingStarts /\ WorldOK' /\ left' \in Lefts
      /\ c \in Calls /\ Local(c) /\ c.pc = "launchLock" /\ c.task \in Tasks
  BY WorldStays, LeftStays DEF LaunchLock, At, Typed, Local
<1>1. PICK l \in SUBSET Locks : proc' = [proc EXCEPT ![p] = [c EXCEPT !.pc = "launchStart", !.locks = l]]
  <2>1. TaskLock(c.task) \in Locks /\ c.locks \in SUBSET Locks
    BY <1>0, LockFacts, CallFacts
  <2>2. [c EXCEPT !.pc = "launchStart"] = [c EXCEPT !.pc = "launchStart", !.locks = c.locks]
    BY <1>0 DEF Calls
  <2> QED
    BY <2>1, <2>2 DEF LaunchLock, Become
<1> DEFINE d == [c EXCEPT !.pc = "launchStart", !.locks = l]
<1>2. proc' = [proc EXCEPT ![p] = d] /\ "launchStart" \in Pcs
  BY <1>1 DEF Pcs
<1> HIDE DEF c
<1>3. d \in Calls /\ d.pc = "launchStart" /\ d.task = c.task /\ d.seen = c.seen
  BY <1>0, <1>2, CallLocks
<1> HIDE DEF d
<1>4. Local(d) /\ WorksOn(c, d)
  BY <1>0, <1>3 DEF Local, Open, WorksOn, Working, Pcs, Starters
<1> QED
  BY <1>0, <1>2, <1>3, <1>4, GoStep DEF c

LEMMA CommandStep == ASSUME Typed, NEW p \in Procs, NEW t \in Tasks, NEW kind \in Commands, Command(p, t, kind) PROVE Step(p)
<1>0. UNCHANGED <<row, ver>> /\ NothingStarts /\ WorldOK'
  BY WorldStays DEF Command
<1>1. left' \in Lefts
  BY SpendFacts DEF Command, Kinds, Commands
<1> DEFINE x == IF kind = "discard" /\ Listed(t) THEN "cancel" ELSE kind
           d == ReadNow(t, x, kind)
<1>2. proc' = [proc EXCEPT ![p] = d]
  BY DEF Command, Become, ReadNow
<1>3. x \in Pcs /\ kind \in Jobs /\ kind # "landing" /\ 0 \in Nat /\ x \in Commands
  BY DEF Pcs, Jobs, Commands
<1>4. d \in Calls /\ d.pc = x /\ d.job = kind /\ d.task = t /\ d.seen = row[t] /\ d.move = Idle.move
  BY <1>3, ReadFacts
<1>5. /\ row[t].phase # "absent"
      /\ x = "cancel" => row[t].phase \in Unfinished
      /\ x = "retry" => Resumable(row[t]) /\ row[t].phase \in Unfinished
      /\ x = "finish" => row[t].session
      /\ x = "hold" => ~row[t].merge
      /\ x = "discard" => row[t].phase = "cancelled"
  <2>1. Accepts(kind, row[t])
    BY DEF Command
  <2>2. "absent" \notin Unfinished /\ "needs_you" \in Unfinished
    BY DEF Unfinished
  <2>3. Resumable(row[t]) => row[t].phase = "needs_you"
    BY DEF Resumable
  <2>4. CASE kind = "finish"
    BY <2>1, <2>2, <2>4 DEF Accepts
  <2>5. CASE kind = "cancel"
    BY <2>1, <2>2, <2>5 DEF Accepts
  <2>6. CASE kind = "discard"
    BY <2>1, <2>2, <2>6 DEF Accepts, Listed
  <2>7. CASE kind = "hold"
    BY <2>1, <2>2, <2>7 DEF Accepts
  <2>8. CASE kind = "release"
    BY <2>1, <2>2, <2>8 DEF Accepts
  <2>9. CASE kind = "retry"
    BY <2>1, <2>2, <2>3, <2>9 DEF Accepts
  <2> QED
    BY <2>4, <2>5, <2>6, <2>7, <2>8, <2>9 DEF Commands
<1> HIDE DEF d, x
<1>6. Local(d)
  BY <1>3, <1>4, <1>5 DEF Local, Open, Commands
<1>7. Reads(proc[p], d)
  BY <1>3, <1>4, <1>5 DEF Reads, Working, Pcs, Starters, Commands
<1> QED
  BY <1>0, <1>1, <1>2, <1>4, <1>6, <1>7, ReadStep

LEMMA RetryStep == ASSUME Typed, NEW p \in Procs, Retry(p) PROVE Step(p)
<1> DEFINE m == RetryMove(proc[p].seen)
<1>0. /\ NothingStarts /\ WorldOK' /\ left' \in Lefts /\ UNCHANGED <<row, ver>>
      /\ proc[p].pc = "retry" /\ proc[p].pc \in Working /\ proc[p].task \in Tasks
      /\ proc[p].seen \in Rows(Tasks) /\ proc[p].seen.phase \in Unfinished /\ Resumable(proc[p].seen)
  BY WorldStays, LeftStays, CallFacts DEF Retry, At, Typed, Local, Open, Working, Pcs
<1>1. m.next # proc[p].seen /\ Sound(proc[p].seen, m) /\ m.next.phase # "done" /\ m.effect # "start"
  BY <1>0, RetrySound
<1>2. Due(p, m)
  BY DEF Retry
<1> HIDE DEF m
<1>3. m \in Moves
  BY <1>1 DEF Sound
<1> QED
  BY <1>0, <1>1, <1>2, <1>3, DueStep

LEMMA FinishStep == ASSUME Typed, NEW p \in Procs, Finish(p) PROVE Step(p)
<1>0. /\ NothingStarts /\ WorldOK' /\ left' \in Lefts /\ UNCHANGED <<row, ver>>
      /\ proc[p].pc = "finish" /\ proc[p].task \in Tasks
  BY WorldStays, LeftStays DEF Finish, At, Typed, Local
<1>1. CASE End(p)
  BY <1>0, <1>1, EndStep
<1>2. CASE Claim(p, "finishing") /\ Listed(proc[p].task)
  <2>1. PICK d \in Calls : /\ proc' = [proc EXCEPT ![p] = d] /\ d.pc = "finishing" /\ d.job = "finishing"
                           /\ d.task = proc[p].task /\ d.seen = row[d.task] /\ d.move = proc[p].move
    BY <1>0, <1>2, ClaimFacts
  <2>2. d.seen.phase \in Unfinished
    BY <1>2, <2>1 DEF Listed
  <2>3. Local(d)
    BY <1>0, <2>1, <2>2 DEF Local
  <2>4. Reads(proc[p], d)
    BY <1>0, <2>1, <2>2 DEF Reads, Working, Pcs, Starters, Unfinished
  <2> QED
    BY <1>0, <2>1, <2>3, <2>4, ReadStep
<1> QED
  BY <1>1, <1>2 DEF Finish, Missed

(* What a finish and a cancel are to write.                                *)
LEMMA FinishedMoves ==
  ASSUME NEW r \in Rows(Tasks), r.phase \in Unfinished
  PROVE  /\ Sound(r, Stay(To(r, "cancelled", ""))) /\ Stay(To(r, "cancelled", "")).effect = "none"
         /\ Stay(To(r, "cancelled", "")).next.phase = "cancelled"
         /\ Sound(r, Stay([r EXCEPT !.phase = "done"])) /\ Stay([r EXCEPT !.phase = "done"]).effect = "none"
         /\ Stay([r EXCEPT !.phase = "done"]).next.phase = "done"
<1>1. \A n : Stay(n).next = n /\ Stay(n).effect = "none" /\ (n \in Rows(Tasks) => Stay(n) \in Moves)
  BY Words DEF Stay, Move, Moves
<1>2. Sound(r, Stay(To(r, "cancelled", ""))) /\ Stay(To(r, "cancelled", "")).next.phase = "cancelled"
  <2> DEFINE n == To(r, "cancelled", "")
  <2>1. "cancelled" \in Phases /\ "" \in Steps
    BY Words
  <2>2. n \in Rows(Tasks) /\ n.phase = "cancelled" /\ n.session = r.session /\ n.hold = r.hold /\ SameLaunch(n, r)
    BY <2>1, ToFacts
  <2> HIDE DEF n
  <2>3. Stay(n) \in Moves /\ Stay(n).next = n /\ Stay(n).effect = "none"
    BY <1>1, <2>2
  <2>4. Sound(r, Stay(n)) /\ Stay(n).next.phase = "cancelled"
    BY <2>2, <2>3 DEF Sound, Advanced, Merging
  <2> QED
    BY <2>4 DEF n
<1>3. Sound(r, Stay([r EXCEPT !.phase = "done"])) /\ Stay([r EXCEPT !.phase = "done"]).next.phase = "done"
  <2> DEFINE n == [r EXCEPT !.phase = "done"]
  <2>2. n \in Rows(Tasks) /\ n.phase = "done" /\ n.session = r.session /\ n.hold = r.hold /\ SameLaunch(n, r)
    BY Words DEF Rows, SameLaunch
  <2> HIDE DEF n
  <2>3. Stay(n) \in Moves /\ Stay(n).next = n /\ Stay(n).effect = "none"
    BY <1>1, <2>2
  <2>4. Sound(r, Stay(n)) /\ Stay(n).next.phase = "done"
    BY <2>2, <2>3 DEF Sound, Advanced, Merging
  <2> QED
    BY <2>4 DEF n
<1> QED
  BY <1>1, <1>2, <1>3

LEMMA FinishingStep == ASSUME Typed, NEW p \in Procs, Finishing(p) PROVE Step(p)
<1> DEFINE c == proc[p]
           m == Stay([c.seen EXCEPT !.phase = "done"])
           x == IF c.seen.inPlace THEN "remove" ELSE "clean"
           d == [c EXCEPT !.pc = x, !.move = m]
<1>0. /\ UNCHANGED <<row, ver>> /\ NothingStarts /\ WorldOK' /\ c \in Calls /\ Local(c) /\ c.pc = "finishing"
      /\ c.task \in Tasks /\ c.seen.phase \in Unfinished /\ c.seen \in Rows(Tasks)
  BY WorldStays, CallFacts DEF Finishing, At, Typed, Local, Open
<1>1. left' \in Lefts
  <2>1. UNCHANGED left \/ Spend("fault")
    BY DEF Finishing
  <2> QED
    BY <2>1, SpendFacts, LeftStays DEF Kinds
<1>2. CASE End(p)
  BY <1>0, <1>1, <1>2, EndStep
<1>3. CASE Become(p, d)
  <2>1. proc' = [proc EXCEPT ![p] = d] /\ x \in Pcs /\ x \in {"remove", "clean"} /\ (x = "remove" => c.seen.inPlace)
    BY <1>3 DEF Become, Pcs
  <2>2. Sound(c.seen, m) /\ m.effect = "none" /\ m.next.phase = "done"
    BY <1>0, FinishedMoves
  <2>3. m \in Moves
    BY <2>2 DEF Sound
  <2> HIDE DEF c, m, x
  <2>4. d \in Calls /\ d.pc = x /\ d.job = c.job /\ d.task = c.task /\ d.seen = c.seen /\ d.move = m
    BY <1>0, <2>1, <2>3 DEF Calls
  <2> HIDE DEF d
  <2>5. Local(d)
    BY <1>0, <2>1, <2>2, <2>4 DEF Local, Open
  <2>6. WorksOn(c, d)
    BY <1>0, <2>1, <2>4 DEF WorksOn, Working, Pcs, Starters
  <2> QED
    BY <1>0, <1>1, <2>1, <2>4, <2>5, <2>6, GoStep DEF c
<1> QED
  BY <1>2, <1>3 DEF Finishing

(* A task is to be cancelled from the row as it was read.                  *)
LEMMA CancelsStep ==
  ASSUME Typed, NEW p \in Procs, NEW d \in Calls, proc[p].pc \in {"cancel", "clear"},
         proc' = [proc EXCEPT ![p] = d], d.pc = "write", d.task = proc[p].task, d.seen = proc[p].seen,
         d.move = Stay(To(proc[p].seen, "cancelled", "")),
         UNCHANGED <<row, ver>>, NothingStarts, WorldOK', left' \in Lefts
  PROVE  Step(p)
<1> DEFINE c == proc[p]
           m == Stay(To(c.seen, "cancelled", ""))
<1>1. c \in Calls /\ Local(c) /\ c.task \in Tasks /\ c.seen.phase \in Unfinished /\ c.seen \in Rows(Tasks) /\ c.pc \in Working
  BY CallFacts DEF Typed, Local, Open, Working, Pcs
<1>2. Sound(c.seen, m) /\ m.effect = "none" /\ m.next.phase = "cancelled"
  BY <1>1, FinishedMoves
<1>3. d.move = m
  OBVIOUS
<1> HIDE DEF m
<1>4. Local(d)
  BY <1>1, <1>2, <1>3 DEF Local, Open
<1>5. WorksOn(c, d)
  BY <1>1, <1>2, <1>3 DEF WorksOn, Working, Pcs, Starters
<1> QED
  BY <1>4, <1>5, GoStep

LEMMA CancelStep == ASSUME Typed, NEW p \in Procs, Cancel(p) PROVE Step(p)
<1> DEFINE c == proc[p]
           l == {TaskLock(c.task)}
           m == Stay(To(c.seen, "cancelled", ""))
<1>0. /\ UNCHANGED <<row, ver>> /\ NothingStarts /\ WorldOK' /\ left' \in Lefts /\ c \in Calls /\ Local(c)
      /\ c.pc = "cancel" /\ c.task \in Tasks /\ c.seen.phase \in Unfinished /\ c.seen \in Rows(Tasks)
  BY WorldStays, LeftStays, CallFacts DEF Cancel, At, Typed, Local, Open
<1>1. l \in SUBSET Locks /\ "write" \in Pcs /\ "cancelStop" \in Pcs
  BY <1>0, LockFacts DEF Pcs
<1>2. CASE End(p)
  BY <1>0, <1>2, EndStep
<1>3. CASE proc' = [proc EXCEPT ![p] = [[c EXCEPT !.pc = "cancelStop"] EXCEPT !.locks = l]]
  <2> DEFINE d == [c EXCEPT !.pc = "cancelStop", !.locks = l]
  <2>1. proc' = [proc EXCEPT ![p] = d]
    BY <1>3
  <2> HIDE DEF c, l
  <2>2. d \in Calls /\ d.pc = "cancelStop" /\ d.job = c.job /\ d.task = c.task /\ d.seen = c.seen
    BY <1>0, <1>1 DEF Calls
  <2> HIDE DEF d
  <2>3. Local(d) /\ WorksOn(c, d)
    BY <1>0, <2>2 DEF Local, Open, WorksOn, Working, Pcs, Starters
  <2> QED
    BY <1>0, <2>1, <2>2, <2>3, GoStep DEF c
<1>4. CASE proc' = [proc EXCEPT ![p] = [Cancelled(p) EXCEPT !.locks = l]]
  <2> DEFINE d == [[c EXCEPT !.move = m, !.pc = "write"] EXCEPT !.locks = l]
  <2>1. proc' = [proc EXCEPT ![p] = d]
    BY <1>4 DEF Cancelled
  <2>2. m \in Moves
    BY <1>0, FinishedMoves DEF Sound
  <2> HIDE DEF l, m
  <2>3. d \in Calls /\ d.pc = "write" /\ d.task = c.task /\ d.seen = c.seen /\ d.move = m
    <3> HIDE DEF c
    <3> QED
      BY <1>0, <1>1, <2>2 DEF Calls
  <2> HIDE DEF d
  <2> QED
    BY <1>0, <2>1, <2>3, CancelsStep DEF m
<1> QED
  BY <1>2, <1>3, <1>4 DEF Cancel, Missed

LEMMA ClearGoneStep == ASSUME Typed, NEW p \in Procs, ClearGone(p) PROVE Step(p)
<1> DEFINE c == proc[p]
           l == {TaskLock(c.task)}
           m == Stay(To(c.seen, "cancelled", ""))
<1>0. /\ UNCHANGED <<row, ver>> /\ NothingStarts /\ WorldOK' /\ left' \in Lefts /\ c \in Calls /\ Local(c)
      /\ c.pc = "clear" /\ c.task \in Tasks /\ c.seen.phase \in Unfinished /\ c.seen \in Rows(Tasks)
  BY WorldStays, LeftStays, CallFacts DEF ClearGone, At, Typed, Local, Open
<1>1. l \in SUBSET Locks /\ "write" \in Pcs
  BY <1>0, LockFacts DEF Pcs
<1>2. CASE End(p)
  BY <1>0, <1>2, EndStep
<1>3. CASE Become(p, [Cancelled(p) EXCEPT !.locks = l, !.live = "unknown"])
  <2> DEFINE d == [[c EXCEPT !.move = m, !.pc = "write"] EXCEPT !.locks = l, !.live = "unknown"]
  <2>1. proc' = [proc EXCEPT ![p] = d]
    BY <1>3 DEF Cancelled, Become
  <2>2. m \in Moves
    BY <1>0, FinishedMoves DEF Sound
  <2> HIDE DEF l, m
  <2>3. d \in Calls /\ d.pc = "write" /\ d.task = c.task /\ d.seen = c.seen /\ d.move = m
    <3> HIDE DEF c
    <3> QED
      BY <1>0, <1>1, <2>2 DEF Calls
  <2> HIDE DEF d
  <2> QED
    BY <1>0, <2>1, <2>3, CancelsStep DEF m
<1> QED
  BY <1>2, <1>3 DEF ClearGone, Missed

LEMMA CancellingStep == ASSUME Typed, NEW p \in Procs, Cancelling(p) PROVE Step(p)
<1> DEFINE c == proc[p]
           t == c.task
           m == Stay(To(row[t], "cancelled", ""))
<1>0. /\ UNCHANGED <<row, ver>> /\ NothingStarts /\ WorldOK' /\ left' \in Lefts /\ c \in Calls /\ Local(c)
      /\ c.pc = "cancelling" /\ t \in Tasks /\ row[t] \in Rows(Tasks) /\ ver[t] \in Nat
  BY WorldStays, LeftStays DEF Cancelling, At, Typed, Local
<1>1. CASE End(p)
  BY <1>0, <1>1, EndStep
<1>2. ASSUME ~End(p) PROVE Step(p)
  <2>1. PICK x \in {"write", "clean"} : Become(p, [[c EXCEPT !.seen = row[t], !.ver = ver[t], !.move = m] EXCEPT !.pc = x])
    BY <1>2 DEF Cancelling
  <2>2. row[t].phase \in Unfinished
    BY <1>2 DEF Cancelling, Listed
  <2>3. x \in Pcs /\ row[t].phase # "absent"
    BY <2>2, Words DEF Pcs, Unfinished
  <2>4. Sound(row[t], m) /\ m.effect = "none" /\ m.next.phase = "cancelled"
    BY <1>0, <2>2, FinishedMoves
  <2>5. m \in Moves
    BY <2>4 DEF Sound
  <2> DEFINE d == [[c EXCEPT !.seen = row[t], !.ver = ver[t], !.move = m] EXCEPT !.pc = x]
  <2>6. proc' = [proc EXCEPT ![p] = d]
    BY <2>1 DEF Become
  <2> HIDE DEF m
  <2>7. d \in Calls /\ d.pc = x /\ d.job = c.job /\ d.task = t /\ d.seen = row[t] /\ d.move = m
    <3> HIDE DEF c
    <3> QED
      BY <1>0, <2>3, <2>5 DEF Calls
  <2> HIDE DEF d
  <2>8. Local(d)
    BY <1>0, <2>2, <2>4, <2>7 DEF Local, Open
  <2>9. Reads(c, d)
    BY <2>3, <2>4, <2>7 DEF Reads, Working, Pcs, Starters
  <2> QED
    BY <1>0, <2>6, <2>7, <2>8, <2>9, ReadStep
<1> QED
  BY <1>1, <1>2

(* An interrupted session is still there.                                  *)
LEMMA InterruptFacts ==
  ASSUME NEW t, Interrupt(t)
  PROVE  \/ UNCHANGED <<session, inbox>>
         \/ /\ inbox' = [inbox EXCEPT ![t] = FALSE]
            /\ \E s \in {"idle", "stopped"} :
                 /\ session' = [session EXCEPT ![t] = s]
                 /\ session[t] \in {"working", "needs_input", "idle"} /\ (s = "idle" => session[t] = "idle")
BY DEF Interrupt, Interrupted

LEMMA InterruptsFacts ==
  ASSUME Typed, NEW t \in Tasks, UNCHANGED <<row, ver, work, verdicts, spawned, stops, reply, changed>>,
         Interrupt(t) \/ UNCHANGED <<session, inbox>>
  PROVE  NothingStarts /\ WorldOK'
<1>1. CASE UNCHANGED <<session, inbox>>
  BY <1>1 DEF Typed, WorldOK, NothingStarts
<1>2. ASSUME inbox' = [inbox EXCEPT ![t] = FALSE], NEW s \in {"idle", "stopped"},
             session' = [session EXCEPT ![t] = s], session[t] \in {"working", "needs_input", "idle"}
      PROVE  NothingStarts /\ WorldOK'
  BY <1>2 DEF Typed, WorldOK, NothingStarts, LiveStates
<1> QED
  BY <1>1, <1>2, InterruptFacts

LEMMA CancelStopStep == ASSUME Typed, NEW p \in Procs, CancelStop(p) PROVE Step(p)
<1> DEFINE c == proc[p]
           d == [c EXCEPT !.pc = "cancelling"]
<1>0. /\ UNCHANGED <<row, ver, work, verdicts, spawned, stops, reply, changed>>
      /\ c \in Calls /\ Local(c) /\ c.pc = "cancelStop" /\ c.task \in Tasks /\ c.seen.phase \in Unfinished
  BY DEF CancelStop, At, Typed, Local, Open
<1>1. NothingStarts /\ WorldOK'
  BY <1>0, InterruptsFacts DEF CancelStop
<1>2. left' \in Lefts
  <2>1. UNCHANGED left \/ Spend("fault")
    BY DEF CancelStop
  <2> QED
    BY <2>1, SpendFacts, LeftStays DEF Kinds
<1>3. CASE End(p)
  BY <1>0, <1>1, <1>2, <1>3, EndStep
<1>4. CASE Become(p, d)
  <2>1. proc' = [proc EXCEPT ![p] = d] /\ "cancelling" \in Pcs
    BY <1>4 DEF Become, Pcs
  <2> HIDE DEF c
  <2>2. d \in Calls /\ d.pc = "cancelling" /\ d.job = c.job /\ d.task = c.task /\ d.seen = c.seen
    BY <1>0, <2>1, CallTo
  <2> HIDE DEF d
  <2>3. Local(d) /\ WorksOn(c, d)
    BY <1>0, <2>2 DEF Local, Open, WorksOn, Working, Pcs, Starters
  <2> QED
    BY <1>0, <1>1, <1>2, <2>1, <2>2, <2>3, GoStep DEF c
<1> QED
  BY <1>3, <1>4 DEF CancelStop

LEMMA DiscardStep == ASSUME Typed, NEW p \in Procs, Discard(p) PROVE Step(p)
<1> DEFINE c == proc[p]
           l == {TaskLock(c.task)}
           d == [c EXCEPT !.pc = "discarding", !.locks = l]
<1>0. /\ UNCHANGED <<row, ver>> /\ NothingStarts /\ WorldOK' /\ left' \in Lefts
      /\ c \in Calls /\ Local(c) /\ c.pc = "discard" /\ c.task \in Tasks
  BY WorldStays, LeftStays DEF Discard, At, Typed, Local
<1>1. l \in SUBSET Locks
  BY <1>0, LockFacts
<1>2. CASE End(p)
  BY <1>0, <1>2, EndStep
<1>3. CASE Become(p, d)
  <2>1. proc' = [proc EXCEPT ![p] = d] /\ "discarding" \in Pcs
    BY <1>3 DEF Become, Pcs
  <2> HIDE DEF c, l
  <2>2. d \in Calls /\ d.pc = "discarding" /\ d.job = c.job /\ d.task = c.task /\ d.seen = c.seen /\ d.move = c.move
    BY <1>0, <1>1, <2>1 DEF Calls
  <2> HIDE DEF d
  <2>3. Local(d) /\ WorksOn(c, d)
    BY <1>0, <2>2 DEF Local, Open, WorksOn, Working, Pcs, Starters
  <2> QED
    BY <1>0, <2>1, <2>2, <2>3, GoStep DEF c
<1> QED
  BY <1>2, <1>3 DEF Discard, Missed

LEMMA DiscardingStep == ASSUME Typed, NEW p \in Procs, Discarding(p) PROVE Step(p)
<1> DEFINE c == proc[p]
           d == [c EXCEPT !.pc = "clean"]
<1>0. /\ UNCHANGED <<row, ver, work, verdicts, spawned, stops, reply, changed>>
      /\ c \in Calls /\ Local(c) /\ c.pc = "discarding" /\ c.task \in Tasks
  BY DEF Discarding, At, Typed, Local
<1>1. NothingStarts /\ WorldOK'
  BY <1>0, InterruptsFacts DEF Discarding
<1>2. left' \in Lefts
  <2>1. UNCHANGED left \/ Spend("fault")
    BY DEF Discarding
  <2> QED
    BY <2>1, SpendFacts, LeftStays DEF Kinds
<1>e. CASE End(p)
  BY <1>0, <1>1, <1>2, <1>e, EndStep
<1>c. CASE Become(p, d)
  <2>1. proc' = [proc EXCEPT ![p] = d] /\ "clean" \in Pcs
    BY <1>c DEF Become, Pcs
  <2>2. c.move = Idle.move /\ c.job # "landing" /\ Idle.move.next.phase = "absent" /\ Idle.move.effect = "none"
    BY <1>0, IdleFacts, NoRowFacts DEF Local
  <2> HIDE DEF c
  <2>3. d \in Calls /\ d.pc = "clean" /\ d.job = c.job /\ d.task = c.task /\ d.seen = c.seen /\ d.move = c.move
    BY <1>0, <2>1, CallTo
  <2> HIDE DEF d
  <2>4. Local(d) /\ WorksOn(c, d)
    BY <1>0, <2>2, <2>3 DEF Local, Open, WorksOn, Working, Pcs, Starters
  <2> QED
    BY <1>0, <1>1, <1>2, <2>1, <2>3, <2>4, GoStep DEF c
<1> QED
  BY <1>e, <1>c DEF Discarding

LEMMA CrashStep == ASSUME Typed, NEW p \in Procs, Crash(p) PROVE Step(p)
<1>1. UNCHANGED <<row, ver>> /\ NothingStarts /\ WorldOK' /\ left' \in Lefts /\ End(p)
  BY WorldStays, SpendFacts DEF Crash, Kinds
<1> QED
  BY <1>1, EndStep

---------------------------------------------------------------------------
(* A session starts, or does not.                                          *)

(* The session of p's task is there, its row not yet written.              *)
Starts(p) ==
  /\ proc[p].pc \in {"starting", "launchStart"}
  /\ \E d : /\ proc' = [proc EXCEPT ![p] = d] /\ Local(d)
            /\ d.pc = "record" /\ d.task = proc[p].task /\ d.seen = proc[p].seen
  /\ StartSession(proc[p].task)
  /\ UNCHANGED <<row, ver>> /\ WorldOK' /\ left' \in Lefts

LEMMA StartsFacts ==
  ASSUME Typed, NEW p \in Procs, proc[p].pc \in {"starting", "launchStart"}, StartSession(proc[p].task),
         Become(p, [proc[p] EXCEPT !.pc = "record"]),
         UNCHANGED <<left, row, ver, inbox, verdicts, spawned, stops, reply, changed>>
  PROVE  Starts(p)
<1> DEFINE c == proc[p]
           d == [c EXCEPT !.pc = "record"]
<1>0. c \in Calls /\ Local(c) /\ c.task \in Tasks
  BY DEF Typed, Local
<1>1. proc' = [proc EXCEPT ![p] = d] /\ "record" \in Pcs
  BY DEF Become, Pcs
<1>2. WorldOK'
  <2>1. session' \in [Tasks -> LiveStates \union {"none"}] /\ work' \in [Tasks -> {"none", "open", "merged"}]
    BY <1>0 DEF Typed, WorldOK, StartSession, LiveStates
  <2> QED
    BY <2>1 DEF Typed, WorldOK
<1>3. left' \in Lefts
  BY LeftStays
<1>4. d \in Calls /\ d.pc = "record" /\ d.task = c.task /\ d.seen = c.seen
  <2> HIDE DEF c
  <2> QED
    BY <1>0, <1>1, CallTo
<1> HIDE DEF d
<1>5. Local(d)
  BY <1>0, <1>4 DEF Local, Open
<1> QED
  BY <1>1, <1>2, <1>3, <1>4, <1>5 DEF Starts

LEMMA StartingStep == ASSUME Typed, NEW p \in Procs, Starting(p) PROVE Step(p) \/ Starts(p)
<1>0. /\ UNCHANGED <<row, ver, inbox, verdicts, spawned, stops, reply, changed>>
      /\ proc[p].pc = "starting" /\ proc[p].pc \in Open
  BY DEF Starting, At, Open
<1>1. CASE StartSession(proc[p].task) /\ Become(p, [proc[p] EXCEPT !.pc = "record"]) /\ UNCHANGED left
  BY <1>0, <1>1, StartsFacts
<1>2. CASE Spend("fault") /\ Fail(p, "waiting") /\ UNCHANGED <<session, work>>
  <2>1. NothingStarts /\ WorldOK'
    BY <1>0, <1>2 DEF Typed, WorldOK, NothingStarts
  <2>2. left' \in Lefts
    BY <1>2, SpendFacts DEF Kinds
  <2>3. "waiting" \in Steps /\ "waiting" \notin {"check", "round", "merge"}
    BY Words
  <2> QED
    BY <1>0, <1>2, <2>1, <2>2, <2>3, FailStep
<1> QED
  BY <1>1, <1>2 DEF Starting

LEMMA LaunchStartStep == ASSUME Typed, NEW p \in Procs, LaunchStart(p) PROVE Step(p) \/ Starts(p)
<1> DEFINE c == proc[p]
           l == {}
           d == [c EXCEPT !.pc = "delete", !.locks = l]
<1>0. /\ UNCHANGED <<row, ver, inbox, verdicts, spawned, stops, reply, changed>>
      /\ c.pc = "launchStart" /\ c \in Calls /\ Local(c) /\ c.task \in Tasks
  BY DEF LaunchStart, At, Typed, Local
<1>1. CASE StartSession(proc[p].task) /\ Become(p, [proc[p] EXCEPT !.pc = "record"]) /\ UNCHANGED left
  BY <1>0, <1>1, StartsFacts
<1>2. CASE Spend("fault") /\ Become(p, d) /\ UNCHANGED <<session, work>>
  <2>1. NothingStarts /\ WorldOK'
    BY <1>0, <1>2 DEF Typed, WorldOK, NothingStarts
  <2>2. left' \in Lefts
    BY <1>2, SpendFacts DEF Kinds
  <2>3. proc' = [proc EXCEPT ![p] = d] /\ "delete" \in Pcs /\ l \in SUBSET Locks
    BY <1>2 DEF Become, Pcs
  <2> HIDE DEF c, l
  <2>4. d \in Calls /\ d.pc = "delete" /\ d.task = c.task /\ d.seen = c.seen
    BY <1>0, <2>3 DEF Calls
  <2> HIDE DEF d
  <2>5. Local(d) /\ WorksOn(c, d)
    BY <1>0, <2>4 DEF Local, Open, WorksOn, Working, Pcs, Starters
  <2> QED
    BY <1>0, <2>1, <2>2, <2>3, <2>4, <2>5, GoStep DEF c
<1> QED
  BY <1>1, <1>2 DEF LaunchStart

---------------------------------------------------------------------------
(* The table is written.                                                   *)

(* A row of the table with what a transition leaves alone.                 *)
Kept(r, n) == [n EXCEPT !.session = r.session, !.hold = r.hold]

LEMMA KeptFacts ==
  ASSUME NEW r \in Rows(Tasks), NEW n \in Rows(Tasks)
  PROVE  /\ Kept(r, n) \in Rows(Tasks) /\ Kept(r, n).session = r.session /\ Kept(r, n).hold = r.hold
         /\ Kept(r, n).phase = n.phase /\ Kept(r, n).step = n.step /\ SameLaunch(Kept(r, n), n)
BY DEF Kept, Rows, SameLaunch

(* p's move is written, and its effect is to be run.                       *)
Wrote(p) ==
  /\ proc[p].pc = "write" /\ Wins(p)
  /\ row' = [row EXCEPT ![proc[p].task] = Kept(@, proc[p].move.next)]
  /\ \E d : /\ proc' = [proc EXCEPT ![p] = d] /\ Local(d)
            /\ \/ Rests(d)
               \/ /\ d.pc = proc[p].move.effect /\ d.pc # "none" /\ d.task = proc[p].task
                  /\ d.seen = row'[d.task] /\ d.move = Idle.move
  /\ ver' \in [Tasks -> Nat] /\ UNCHANGED <<left, world>>

LEMMA WriteStep == ASSUME Typed, NEW p \in Procs, Write(p) PROVE Step(p) \/ Wrote(p)
<1> DEFINE c == proc[p]
           t == c.task
           m == c.move
           n == Kept(row[t], m.next)
<1>0. /\ UNCHANGED <<left, world>> /\ NothingStarts /\ WorldOK' /\ left' \in Lefts
      /\ c \in Calls /\ Local(c) /\ c.pc = "write" /\ t \in Tasks /\ Sound(c.seen, m)
  BY WorldStays, LeftStays DEF Write, At, Typed, Local
<1>1. CASE ~Wins(p)
  <2>1. End(p) /\ UNCHANGED <<row, ver>>
    BY <1>1 DEF Write
  <2> QED
    BY <1>0, <2>1, EndStep
<1>2. CASE Wins(p)
  <2>1. Transition(t, m.next)
    BY <1>2 DEF Write
  <2>2. row' = [row EXCEPT ![t] = n]
    BY <2>1 DEF Transition, Kept
  <2>3. /\ ver' \in [Tasks -> Nat]
    BY <1>0, <2>1 DEF Transition, Typed
  <2>4. m \in Moves /\ m.next \in Rows(Tasks) /\ m.effect \in Effects /\ row[t] \in Rows(Tasks)
    BY <1>0 DEF Sound, Moves, Typed
  <2>5. n \in Rows(Tasks) /\ n.phase = m.next.phase
    BY <2>4, KeptFacts
  <2>6. row'[t] = n /\ ver'[t] \in Nat
    BY <1>0, <2>2, <2>3 DEF Typed
  <2>7. row' = [row EXCEPT ![t] = Kept(@, m.next)]
    BY <2>2
  <2>8. CASE m.effect = "none"
    <3>1. proc' = [proc EXCEPT ![p] = Idle]
      BY <1>2, <2>8 DEF Write, End, Become
    <3>2. Local(Idle) /\ Rests(Idle)
      BY IdleFacts DEF Rests, Working
    <3> QED
      BY <1>0, <1>2, <2>3, <2>7, <3>1, <3>2 DEF Wrote
  <2>9. CASE m.effect # "none"
    <3> DEFINE d == [c EXCEPT !.pc = m.effect, !.seen = row'[t], !.ver = ver'[t], !.move = Idle.move]
    <3>1. proc' = [proc EXCEPT ![p] = d]
      BY <1>2, <2>9 DEF Write, Become
    <3>2. m.effect \in {"start", "check", "send", "land"} /\ m.effect \in Pcs /\ Idle.move \in Moves
      BY <2>4, <2>9, IdleFacts DEF Effects, Pcs
    <3>3. m.next.phase \in Unfinished /\ (m.effect = "check" => m.next.phase = "checking")
      <4>1. /\ m.effect = "start" => m.next.phase = "running"
            /\ m.effect = "check" => m.next.phase = "checking"
            /\ m.effect = "send" => m.next.phase \in {"fixing", "merging"}
            /\ m.effect = "land" => m.next.phase = "merging"
        BY <1>0 DEF Sound
      <4> QED
        BY <3>2, <4>1 DEF Unfinished
    <3>4. d \in Calls /\ d.pc = m.effect /\ d.task = t /\ d.seen = row'[t] /\ d.move = Idle.move
      <4>1. row'[t] \in Rows(Tasks)
        BY <2>5, <2>6
      <4> HIDE DEF c, n
      <4> QED
        BY <1>0, <2>6, <3>2, <4>1 DEF Calls
    <3> HIDE DEF d
    <3>5. Local(d)
      BY <1>0, <2>5, <2>6, <3>2, <3>3, <3>4 DEF Local, Open
    <3> QED
      BY <1>0, <1>2, <2>3, <2>7, <2>9, <3>1, <3>4, <3>5 DEF Wrote
  <2> QED
    BY <2>8, <2>9
<1> QED
  BY <1>1, <1>2

(* A row that did not exist is there.                                      *)
Inserts(p) ==
  \E t \in Tasks : \E d :
    /\ row[t].phase = "absent" /\ proc[p].pc = "insert"
    /\ row' = [row EXCEPT ![t] = d.seen]
    /\ d.seen.phase \in {"running", "waiting"} /\ d.seen.step = "" /\ ~d.seen.session
    /\ d.seen.merge => ~d.seen.hold
    /\ proc' = [proc EXCEPT ![p] = d] /\ Local(d) /\ d.task = t /\ d.move.effect = proc[p].move.effect
    /\ d.pc = IF d.seen.phase = "running" THEN "launchLock" ELSE "queue"
    /\ d.seen.phase = "running" => \A u \in d.seen.after : row[u].phase = "done"
    /\ ver' \in [Tasks -> Nat] /\ UNCHANGED <<left, world>>

LEMMA InsertStep == ASSUME Typed, NEW p \in Procs, Insert(p) PROVE Inserts(p)
<1> DEFINE c == proc[p]
           r == c.seen
           ready == \A u \in r.after : row[u].phase = "done"
           n == [r EXCEPT !.phase = IF ready THEN "running" ELSE "waiting"]
           x == IF ready THEN "launchLock" ELSE "queue"
<1>0. /\ c \in Calls /\ Local(c) /\ c.pc = "insert" /\ r \in Rows(Tasks) /\ UNCHANGED <<left, world>>
      /\ r.phase = "absent" /\ r.step = "" /\ ~r.session /\ (r.merge => ~r.hold)
  BY CallFacts DEF Insert, At, Typed, Local
<1>1. PICK t \in Tasks :
         /\ IsNextId(t)
         /\ row' = [row EXCEPT ![t] = n] /\ ver' = [ver EXCEPT ![t] = @ + 1]
         /\ Become(p, [[c EXCEPT !.task = t, !.seen = n, !.ver = ver[t] + 1] EXCEPT !.pc = x])
  BY DEF Insert
<1>2. row[t].phase = "absent"
  BY TasksAssumption, <1>1 DEF IsNextId
<1>3. n \in Rows(Tasks) /\ n.step = "" /\ ~n.session /\ (n.merge => ~n.hold) /\ n.after = r.after
      /\ n.phase = (IF ready THEN "running" ELSE "waiting")
  BY <1>0, Words DEF Rows
<1>4. ver' \in [Tasks -> Nat] /\ ver[t] + 1 \in Nat /\ x \in Pcs
  BY <1>1 DEF Typed, Pcs
<1> DEFINE d == [[c EXCEPT !.task = t, !.seen = n, !.ver = ver[t] + 1] EXCEPT !.pc = x]
<1>5. proc' = [proc EXCEPT ![p] = d]
  BY <1>1 DEF Become
<1>6. n.phase = "running" <=> ready
  <2> HIDE DEF n, ready
  <2> QED
    BY <1>3
<1>7. x = IF n.phase = "running" THEN "launchLock" ELSE "queue"
  BY <1>6
<1>8. n.phase = "running" => \A u \in n.after : row[u].phase = "done"
  BY <1>3, <1>6
<1> HIDE DEF n, x
<1>9. d \in Calls /\ d.pc = x /\ d.task = t /\ d.seen = n /\ d.move = c.move
  <2> HIDE DEF c
  <2> QED
    BY <1>0, <1>3, <1>4 DEF Calls
<1> HIDE DEF d
<1>10. Local(d)
  BY <1>0, <1>7, <1>9 DEF Local, Open
<1>11. n.phase \in {"running", "waiting"}
  BY <1>3
<1> QED
  BY <1>0, <1>1, <1>2, <1>3, <1>4, <1>5, <1>7, <1>8, <1>9, <1>10, <1>11 DEF Inserts

(* The session of p's task is put down; the hold is set or taken back; the *)
(* row goes.                                                               *)
Updates(p, t, r) ==
  /\ proc[p].task = t /\ t \in Tasks /\ r \in Rows(Tasks)
  /\ proc' = [proc EXCEPT ![p] = Idle]
  /\ row' = [row EXCEPT ![t] = r]
  /\ UNCHANGED <<ver, left, world>>

Records(p) ==
  proc[p].pc = "record" /\ row[proc[p].task].phase # "absent"
  /\ Updates(p, proc[p].task, [row[proc[p].task] EXCEPT !.session = TRUE])

Holds(p) ==
  proc[p].pc \in {"hold", "release"} /\ row[proc[p].task].phase # "absent"
  /\ Updates(p, proc[p].task, [row[proc[p].task] EXCEPT !.hold = proc[p].pc = "hold"])

Deletes(p) == proc[p].pc = "delete" /\ Updates(p, proc[p].task, NoRow)

LEMMA RecordStep == ASSUME Typed, NEW p \in Procs, Record(p) PROVE Step(p) \/ Records(p)
<1> DEFINE t == proc[p].task
<1>0. proc[p].pc = "record" /\ t \in Tasks /\ UNCHANGED <<ver, left, world>> /\ End(p) /\ row[t] \in Rows(Tasks)
  BY DEF Record, At, Typed, Local
<1>1. CASE row[t].phase = "absent"
  <2>1. UNCHANGED <<row, ver>> /\ NothingStarts /\ WorldOK' /\ left' \in Lefts
    BY <1>0, <1>1, WorldStays, LeftStays DEF Record
  <2> QED
    BY <1>0, <2>1, EndStep
<1>2. CASE row[t].phase # "absent"
  <2>1. [row[t] EXCEPT !.session = TRUE] \in Rows(Tasks)
    BY <1>0 DEF Rows
  <2>2. row' = [row EXCEPT ![t] = [row[t] EXCEPT !.session = TRUE]]
    BY <1>0, <1>2 DEF Record, Typed
  <2> QED
    BY <1>0, <1>2, <2>1, <2>2 DEF Records, Updates, End, Become
<1> QED
  BY <1>1, <1>2

LEMMA SetHoldStep == ASSUME Typed, NEW p \in Procs, SetHold(p) PROVE Step(p) \/ Holds(p)
<1> DEFINE t == proc[p].task
<1>0. proc[p].pc \in {"hold", "release"} /\ t \in Tasks /\ UNCHANGED <<ver, left, world>> /\ End(p) /\ row[t] \in Rows(Tasks)
  BY DEF SetHold, Typed, Local
<1>1. CASE row[t].phase = "absent"
  <2>1. UNCHANGED <<row, ver>> /\ NothingStarts /\ WorldOK' /\ left' \in Lefts
    BY <1>0, <1>1, WorldStays, LeftStays DEF SetHold
  <2> QED
    BY <1>0, <2>1, EndStep
<1>2. CASE row[t].phase # "absent"
  <2> DEFINE h == proc[p].pc = "hold"
  <2>1. row' = [row EXCEPT ![t] = [row[t] EXCEPT !.hold = h]]
    BY <1>0, <1>2 DEF SetHold, Typed
  <2>2. h \in BOOLEAN
    OBVIOUS
  <2>3. [row[t] EXCEPT !.hold = h] \in Rows(Tasks)
    <3> HIDE DEF h
    <3> QED
      BY <1>0, <2>2 DEF Rows
  <2> QED
    BY <1>0, <1>2, <2>1, <2>3 DEF Holds, Updates, End, Become
<1> QED
  BY <1>1, <1>2

LEMMA DeleteStep == ASSUME Typed, NEW p \in Procs, Delete(p) PROVE Deletes(p)
BY NoRowFacts DEF Delete, At, Typed, Local, Deletes, Updates, End, Become

---------------------------------------------------------------------------
(* The workers and the people around them change neither the table nor a   *)
(* process.                                                                *)

LEMMA TurnEndsStep == ASSUME Typed, NEW t \in Tasks, TurnEnds(t) PROVE Quiet
<1>1. /\ UNCHANGED <<row, ver, proc, inbox, verdicts, spawned, left>>
      /\ session[t] = "working" /\ session' = [session EXCEPT ![t] = "idle"]
      /\ work' = [work EXCEPT ![t] = IF @ = "none" THEN "none" ELSE "open"]
      /\ reply' = [reply EXCEPT ![t] = ver[t]] /\ changed' = [changed EXCEPT ![t] = TRUE]
      /\ stops' = stops \union {[task |-> t, ver |-> ver[t]]}
  BY DEF TurnEnds
<1>2. /\ session' \in [Tasks -> LiveStates \union {"none"}] /\ work' \in [Tasks -> {"none", "open", "merged"}]
      /\ reply' \in [Tasks -> Nat] /\ changed' \in [Tasks -> BOOLEAN] /\ stops' \subseteq [task : Tasks, ver : Nat]
  BY <1>1 DEF Typed, WorldOK, LiveStates
<1>3. NothingStarts
  BY <1>1 DEF Typed, WorldOK, NothingStarts
<1> QED
  BY <1>1, <1>2, <1>3, LeftStays DEF Typed, WorldOK, Quiet

LEMMA PicksUpStep == ASSUME Typed, NEW t \in Tasks, PicksUp(t) PROVE Quiet
<1>1. /\ UNCHANGED <<row, ver, proc, work, verdicts, spawned, stops, reply, changed, left>>
      /\ session[t] \in {"idle", "working", "needs_input", "stopped"}
      /\ session' = [session EXCEPT ![t] = "working"] /\ inbox' = [inbox EXCEPT ![t] = FALSE]
  BY DEF PicksUp
<1>2. session' \in [Tasks -> LiveStates \union {"none"}] /\ inbox' \in [Tasks -> BOOLEAN] /\ NothingStarts
  BY <1>1 DEF Typed, WorldOK, LiveStates, NothingStarts
<1> QED
  BY <1>1, <1>2, LeftStays DEF Typed, WorldOK, Quiet

LEMMA OutsideStep == ASSUME Typed, NEW t \in Tasks, Outside(t) PROVE Quiet
<1>1. /\ UNCHANGED <<row, ver, proc, inbox, work, verdicts, spawned, stops, reply, changed>>
      /\ session[t] # "none" /\ \E s \in LiveStates : session' = [session EXCEPT ![t] = s]
  BY DEF Outside, LiveStates
<1>2. left' \in Lefts
  <2>1. UNCHANGED left \/ \E k \in {"talk", "ask", "break", "remove"} : Spend(k)
    BY DEF Outside
  <2> QED
    BY <2>1, SpendFacts, LeftStays DEF Kinds
<1>3. session' \in [Tasks -> LiveStates \union {"none"}] /\ NothingStarts
  BY <1>1 DEF Typed, WorldOK, LiveStates, NothingStarts
<1> QED
  BY <1>1, <1>2, <1>3 DEF Typed, WorldOK, Quiet

LEMMA UserMergesStep == ASSUME Typed, NEW t \in Tasks, UserMerges(t) PROVE Quiet
<1>1. /\ UNCHANGED <<row, ver, proc, session, inbox, verdicts, spawned, stops, reply, changed>>
      /\ work[t] = "open" /\ work' = [work EXCEPT ![t] = "merged"] /\ left' \in Lefts
  BY SpendFacts DEF UserMerges, Kinds
<1>2. work' \in [Tasks -> {"none", "open", "merged"}] /\ NothingStarts
  BY <1>1 DEF Typed, WorldOK, NothingStarts
<1> QED
  BY <1>1, <1>2 DEF Typed, WorldOK, Quiet

LEMMA LossStep == ASSUME Typed, (\E t \in Tasks : LoseSpawn(t)) \/ (\E hook \in stops : LoseStop(hook)) PROVE Quiet
<1>1. /\ UNCHANGED <<row, ver, proc, session, inbox, work, verdicts, reply, changed>>
      /\ spawned' \subseteq spawned /\ stops' \subseteq stops /\ left' \in Lefts
  BY SpendFacts, LeftStays DEF LoseSpawn, LoseStop, Kinds
<1> QED
  BY <1>1 DEF Typed, WorldOK, Quiet, NothingStarts

---------------------------------------------------------------------------
(* A step of Next is one of these.                                         *)
Progress(p) == Step(p) \/ Starts(p) \/ Wrote(p) \/ Inserts(p) \/ Records(p) \/ Holds(p) \/ Deletes(p)

LEMMA PassStep == ASSUME Typed, NEW p \in Procs, Pass(p) PROVE Progress(p)
BY ListStep, StoppedLateStep, LookStep, DecideStep, WriteStep DEF Pass, Progress

LEMMA EffectStep == ASSUME Typed, NEW p \in Procs, Effect(p) PROVE Progress(p)
BY SpawnCheckStep, SendStep, StartQueuedStep, StartingStep, RecordStep, LandStep, LandingStep, CleanStep, RemoveStep
   DEF Effect, Progress

LEMMA UserStep == ASSUME Typed, NEW p \in Procs, User(p) PROVE Progress(p)
<1>1. CASE (\E a \in left.launches : Parse(p, a)) \/ Insert(p) \/ Queue(p) \/ LaunchLock(p) \/ LaunchStart(p) \/ Delete(p)
  BY <1>1, ParseStep, InsertStep, QueueStep, LaunchLockStep, LaunchStartStep, DeleteStep DEF Progress
<1>2. CASE \E t \in Tasks, kind \in {"finish", "cancel", "discard", "hold", "release", "retry"} : Command(p, t, kind)
  BY <1>2, CommandStep DEF Progress, Commands
<1>3. CASE Retry(p) \/ SetHold(p) \/ Finish(p) \/ Finishing(p)
  BY <1>3, RetryStep, SetHoldStep, FinishStep, FinishingStep DEF Progress
<1>4. CASE Cancel(p) \/ CancelStop(p) \/ Cancelling(p) \/ Discard(p) \/ Discarding(p) \/ ClearGone(p)
  BY <1>4, CancelStep, CancelStopStep, CancellingStep, DiscardStep, DiscardingStep, ClearGoneStep DEF Progress
<1> QED
  BY <1>1, <1>2, <1>3, <1>4 DEF User

LEMMA NextCases == ASSUME Typed, [Next]_vars PROVE Quiet \/ \E p \in Procs : Progress(p)
<1>1. ASSUME NEW p \in Procs,
             \/ Pass(p) \/ Effect(p) \/ Checker(p) \/ User(p) \/ Crash(p)
             \/ \E t \in Tasks : Stopped(p, t) \/ Check(p, t)
      PROVE  Quiet \/ Progress(p)
  <2>1. CASE Pass(p) \/ Effect(p) \/ User(p)
    BY <2>1, PassStep, EffectStep, UserStep
  <2>2. CASE Checker(p)
    BY <2>2, CheckClaimStep, CheckRunStep, CheckApplyStep DEF Checker, Progress
  <2>3. CASE Crash(p)
    BY <2>3, CrashStep DEF Progress
  <2>4. CASE \E t \in Tasks : Stopped(p, t) \/ Check(p, t)
    BY <2>4, StoppedStep, CheckStep DEF Progress
  <2> QED
    BY <1>1, <2>1, <2>2, <2>3, <2>4
<1>2. CASE World
  BY <1>2, TurnEndsStep, PicksUpStep, OutsideStep, UserMergesStep, LossStep DEF World
<1>3. CASE UNCHANGED vars
  <2>1. UNCHANGED <<row, ver, proc, left, world>>
    BY <1>3 DEF vars, world
  <2> QED
    BY <2>1, WorldStays, LeftStays DEF Quiet
<1> QED
  BY <1>1, <1>2, <1>3 DEF Next

---------------------------------------------------------------------------
(* Types.                                                                  *)

LEMMA InitTyped == Init => Typed
<1> HAVE Init
<1>1. row = [t \in Tasks |-> NoRow] /\ proc = [p \in Procs |-> Idle]
  BY DEF Init
<1>2. row \in [Tasks -> Rows(Tasks)] /\ \A p \in Procs : Local(proc[p])
  <2>1. NoRow \in Rows(Tasks) /\ Local(Idle)
    BY NoRowFacts, IdleFacts
  <2> QED
    BY <1>1, <2>1
<1>3. proc = [p \in Procs |-> proc[p]]
  BY <1>1
<1>4. left \in Lefts
  BY PlaysAssumption DEF Init, Lefts
<1>5. WorldOK /\ ver \in [Tasks -> Nat]
  BY DEF Init, WorldOK
<1> QED
  BY <1>2, <1>3, <1>4, <1>5 DEF Typed, Lefts

(* The types of the table and of the rest after each of them.              *)
LEMMA ProgressTyped ==
  ASSUME Typed, NEW p \in Procs, Progress(p)
  PROVE  /\ row' \in [Tasks -> Rows(Tasks)] /\ ver' \in [Tasks -> Nat] /\ left' \in Lefts /\ WorldOK'
         /\ \E d : proc' = [proc EXCEPT ![p] = d] /\ Local(d)
<1>0. proc[p] \in Calls /\ Local(proc[p])
  BY DEF Typed, Local
<1>1. CASE Step(p)
  BY <1>1 DEF Step, Typed
<1>2. CASE Starts(p)
  BY <1>2 DEF Starts, Typed
<1>3. ASSUME UNCHANGED <<left, world>> PROVE left' \in Lefts /\ WorldOK'
  BY <1>3, WorldStays, LeftStays
<1>4. CASE Wrote(p)
  <2> DEFINE t == proc[p].task
             n == Kept(row[t], proc[p].move.next)
  <2>1. t \in Tasks /\ row[t] \in Rows(Tasks) /\ proc[p].move.next \in Rows(Tasks)
    BY <1>0, <1>4 DEF Wrote, Typed, Local, Sound, Moves
  <2>2. n \in Rows(Tasks)
    BY <2>1, KeptFacts
  <2>3. row' = [row EXCEPT ![t] = n]
    BY <1>4 DEF Wrote
  <2> HIDE DEF n
  <2>4. row' \in [Tasks -> Rows(Tasks)]
    BY <2>1, <2>2, <2>3 DEF Typed
  <2> QED
    BY <1>3, <1>4, <2>4 DEF Wrote
<1>5. CASE Inserts(p)
  <2>0. PICK t \in Tasks : \E d : row' = [row EXCEPT ![t] = d.seen] /\ proc' = [proc EXCEPT ![p] = d] /\ Local(d)
    BY <1>5 DEF Inserts
  <2>1. PICK d : row' = [row EXCEPT ![t] = d.seen] /\ proc' = [proc EXCEPT ![p] = d] /\ Local(d)
    BY <2>0
  <2>2. d.seen \in Rows(Tasks)
    BY <2>1, CallFacts DEF Local
  <2>3. row' \in [Tasks -> Rows(Tasks)]
    BY <2>1, <2>2 DEF Typed
  <2> QED
    BY <1>3, <1>5, <2>1, <2>3 DEF Inserts
<1>6. ASSUME NEW t, NEW r, Updates(p, t, r)
      PROVE  /\ row' \in [Tasks -> Rows(Tasks)] /\ ver' \in [Tasks -> Nat] /\ left' \in Lefts /\ WorldOK'
             /\ \E d : proc' = [proc EXCEPT ![p] = d] /\ Local(d)
  BY <1>3, <1>6, IdleFacts DEF Updates, Typed
<1>7. CASE Records(p) \/ Holds(p) \/ Deletes(p)
  BY <1>6, <1>7 DEF Records, Holds, Deletes
<1> QED
  BY <1>1, <1>2, <1>4, <1>5, <1>7 DEF Progress

LEMMA NextTyped == Typed /\ [Next]_vars => Typed'
<1> SUFFICES ASSUME Typed, [Next]_vars PROVE Typed'
  OBVIOUS
<1>1. CASE Quiet
  BY <1>1 DEF Quiet, Typed, Lefts
<1>2. ASSUME NEW p \in Procs, Progress(p) PROVE Typed'
  <2>1. /\ row' \in [Tasks -> Rows(Tasks)] /\ ver' \in [Tasks -> Nat] /\ left' \in Lefts /\ WorldOK'
        /\ \E d : proc' = [proc EXCEPT ![p] = d] /\ Local(d)
    BY <1>2, ProgressTyped
  <2>2. PICK d : proc' = [proc EXCEPT ![p] = d] /\ Local(d)
    BY <2>1
  <2>3. proc' = [q \in Procs |-> proc'[q]] /\ \A q \in Procs : Local(proc'[q])
    BY <2>2 DEF Typed
  <2> QED
    BY <2>1, <2>3 DEF Typed, Lefts
<1> QED
  BY <1>1, <1>2, NextCases

(* Every variable of Squad keeps its type: whatever the processes read and *)
(* however late they write it, the table holds rows, a process is at one   *)
(* of the points of its code with a row it could have read.                *)
THEOREM SquadTyped == Spec => []TypeOK
<1>1. Typed => TypeOK
  <2> HAVE Typed
  <2>1. \A p \in Procs : proc[p].pc \in Pcs /\ proc[p].seen \in Rows(Tasks)
    BY CallFacts DEF Typed, Local
  <2> QED
    BY <2>1 DEF Typed, WorldOK, TypeOK
<1> QED
  BY <1>1, InitTyped, NextTyped, PTL DEF Spec

---------------------------------------------------------------------------
(* A queued task starts after its dependencies.                            *)

LEMMA ReadyGrows == ASSUME Typed, Grows, NEW t \in Tasks, Ready(t) PROVE Ready(t)'
<1>1. row[t].phase # "absent" /\ row'[t].phase # "absent" /\ row'[t].after = row[t].after
  BY DEF Ready, Grows, SameLaunch
<1>2. \A u \in row[t].after : u \in Tasks
  BY RowFacts DEF Typed
<1>3. \A u \in row[t].after : row[u].phase = "done"
  BY DEF Ready
<1>4. \A u \in row[t].after : row'[u].phase = "done"
  BY <1>2, <1>3 DEF Grows
<1> QED
  BY <1>1, <1>4 DEF Ready

LEMMA TiedGrows == ASSUME Typed, Grows, NEW c, Local(c), Tied(c) PROVE Tied(c)'
<1> SUFFICES ASSUME c.pc \in Working PROVE Tied(c)'
  BY DEF Tied
<1>1. c.task \in Tasks
  BY DEF Local, Working
<1>2. row[c.task].phase # "absent" /\ SameLaunch(c.seen, row[c.task])
  BY DEF Tied
<1>3. row'[c.task].phase # "absent" /\ SameLaunch(row'[c.task], row[c.task])
      /\ (row[c.task].session => row'[c.task].session)
      /\ (row[c.task].phase = "cancelled" => row'[c.task].phase = "cancelled")
  BY <1>1, <1>2 DEF Grows
<1>4. SameLaunch(c.seen, row'[c.task])
  BY <1>2, <1>3 DEF SameLaunch
<1>5. Ready(c.task) => Ready(c.task)'
  BY <1>1, ReadyGrows
<1>6. session[c.task] # "none" => session'[c.task] # "none"
  BY <1>1 DEF Grows
<1> QED
  BY <1>3, <1>4, <1>5, <1>6 DEF Tied

(* What p's write makes of its row.                                        *)
LEMMA WroteFacts ==
  ASSUME Typed, NEW p \in Procs, Tied(proc[p]), Wrote(p)
  PROVE  LET t == proc[p].task
             m == proc[p].move
         IN  /\ t \in Tasks /\ Sound(proc[p].seen, m) /\ row[t].phase = proc[p].seen.phase /\ row[t].hold = proc[p].seen.hold
             /\ row[t].phase \in Unfinished
             /\ row' = [row EXCEPT ![t] = Kept(row[t], m.next)] /\ row'[t] = Kept(row[t], m.next)
             /\ row'[t] \in Rows(Tasks) /\ row'[t].phase = m.next.phase /\ row'[t].step = m.next.step
             /\ row'[t].session = row[t].session /\ row'[t].hold = row[t].hold /\ SameLaunch(row'[t], row[t])
<1> DEFINE c == proc[p]
           t == c.task
           m == c.move
           n == Kept(row[t], m.next)
<1>1. c.pc = "write" /\ t \in Tasks /\ Sound(c.seen, m) /\ row[t] \in Rows(Tasks) /\ m.next \in Rows(Tasks)
  BY DEF Wrote, Typed, Local, Sound, Moves
<1>2. row[t].phase = c.seen.phase /\ row[t].hold = c.seen.hold
  BY DEF Wrote, Wins, Same
<1>3. row' = [row EXCEPT ![t] = n]
  BY DEF Wrote
<1>4. row'[t] = n
  BY <1>1, <1>3 DEF Typed
<1>5. /\ n \in Rows(Tasks) /\ n.session = row[t].session /\ n.hold = row[t].hold
      /\ n.phase = m.next.phase /\ n.step = m.next.step /\ SameLaunch(n, m.next)
  BY <1>1, KeptFacts
<1>6. SameLaunch(m.next, c.seen) /\ SameLaunch(c.seen, row[t]) /\ c.seen.phase \in Unfinished
  BY <1>1 DEF Sound, Tied, Working, Pcs
<1> HIDE DEF n
<1>7. SameLaunch(n, row[t])
  BY <1>5, <1>6 DEF SameLaunch
<1> QED
  BY <1>1, <1>2, <1>3, <1>4, <1>5, <1>6, <1>7 DEF n

(* What an update makes of its row.                                        *)
LEMMA UpdatesFacts ==
  ASSUME Typed, NEW p \in Procs, Records(p) \/ Holds(p)
  PROVE  LET t == proc[p].task
             r == row'[t]
         IN  /\ t \in Tasks /\ row' = [row EXCEPT ![t] = r] /\ row[t].phase # "absent"
             /\ proc' = [proc EXCEPT ![p] = Idle] /\ UNCHANGED session /\ UNCHANGED work
             /\ r.phase = row[t].phase /\ r.step = row[t].step /\ SameLaunch(r, row[t])
             /\ \/ proc[p].pc = "record" /\ r.session /\ r.hold = row[t].hold
                \/ proc[p].pc \in {"hold", "release"} /\ r.session = row[t].session /\ r.hold = (proc[p].pc = "hold")
<1> DEFINE t == proc[p].task
<1>1. t \in Tasks /\ row[t] \in Rows(Tasks) /\ row \in [Tasks -> Rows(Tasks)]
  BY DEF Typed, Local, Records, Holds, Updates
<1>2. proc' = [proc EXCEPT ![p] = Idle] /\ UNCHANGED session /\ UNCHANGED work /\ row[t].phase # "absent"
  BY DEF Records, Holds, Updates, world
<1>3. CASE Records(p)
  <2> DEFINE n == [row[t] EXCEPT !.session = TRUE]
  <2>1. row' = [row EXCEPT ![t] = n] /\ proc[p].pc = "record"
    BY <1>3 DEF Records, Updates
  <2>2. /\ n.phase = row[t].phase /\ n.step = row[t].step /\ SameLaunch(n, row[t])
        /\ n.session /\ n.hold = row[t].hold
    BY <1>1 DEF Rows, SameLaunch
  <2> HIDE DEF n
  <2>3. row'[t] = n
    BY <1>1, <2>1
  <2> QED
    BY <1>1, <1>2, <2>1, <2>2, <2>3
<1>4. CASE Holds(p)
  <2> DEFINE h == proc[p].pc = "hold"
             n == [row[t] EXCEPT !.hold = h]
  <2>1. row' = [row EXCEPT ![t] = n] /\ proc[p].pc \in {"hold", "release"}
    BY <1>4 DEF Holds, Updates
  <2>2. /\ n.phase = row[t].phase /\ n.step = row[t].step /\ SameLaunch(n, row[t])
        /\ n.session = row[t].session /\ n.hold = h
    <3> HIDE DEF h
    <3> QED
      BY <1>1 DEF Rows, SameLaunch
  <2> HIDE DEF n
  <2>3. row'[t] = n
    BY <1>1, <2>1
  <2> QED
    BY <1>1, <1>2, <2>1, <2>2, <2>3
<1> QED
  BY <1>3, <1>4

LEMMA ProgressGrows == ASSUME Ordered, NoneWithdrawn, NEW p \in Procs, Progress(p) PROVE Grows
<1>0. Typed /\ Tied(proc[p]) /\ proc[p].pc # "delete"
  BY DEF Ordered, NoneWithdrawn
<1>1. CASE Step(p)
  BY <1>1 DEF Step, NothingStarts, Grows, SameLaunch
<1>2. CASE Starts(p)
  <2>1. session' = [session EXCEPT ![proc[p].task] = "working"] /\ UNCHANGED row
    BY <1>2 DEF Starts, StartSession
  <2> QED
    BY <1>0, <2>1 DEF Typed, WorldOK, Grows, SameLaunch
<1>3. CASE Wrote(p)
  <2> DEFINE t == proc[p].task
             r == row'[t]
  <2>1. /\ t \in Tasks /\ row' = [row EXCEPT ![t] = r] /\ row[t].phase \notin {"done", "cancelled"} /\ r.phase # "absent"
        /\ r.session = row[t].session /\ SameLaunch(r, row[t]) /\ UNCHANGED session
    <3>1. UNCHANGED session
      BY <1>3 DEF Wrote, world
    <3> QED
      BY <1>0, <1>3, <3>1, WroteFacts DEF Unfinished, Sound
  <2> HIDE DEF r
  <2> QED
    BY <1>0, <2>1 DEF Typed, Grows, SameLaunch
<1>4. CASE Inserts(p)
  <2>1. PICK t \in Tasks : \E r : row[t].phase = "absent" /\ row' = [row EXCEPT ![t] = r] /\ UNCHANGED session
    BY <1>4 DEF Inserts, world
  <2> QED
    BY <1>0, <2>1 DEF Typed, Grows, SameLaunch
<1>5. CASE Records(p) \/ Holds(p)
  <2> DEFINE t == proc[p].task
             r == row'[t]
  <2>1. /\ t \in Tasks /\ row' = [row EXCEPT ![t] = r] /\ UNCHANGED session
        /\ r.phase = row[t].phase /\ SameLaunch(r, row[t]) /\ (row[t].session => r.session)
    BY <1>0, <1>5, UpdatesFacts
  <2> HIDE DEF r
  <2> QED
    BY <1>0, <2>1 DEF Typed, Grows, SameLaunch
<1> QED
  BY <1>0, <1>1, <1>2, <1>3, <1>4, <1>5 DEF Progress, Deletes

(* A row that is not touched.                                              *)
LEMMA RowStays ==
  ASSUME Ordered, Grows, NEW t \in Tasks, row'[t] = row[t], session'[t] = "none" <=> session[t] = "none"
  PROVE  RowOK(t)'
<1>1. RowOK(t) /\ (Ready(t) => Ready(t)')
  BY ReadyGrows DEF Ordered
<1>2. Advanced(row[t])' <=> Advanced(row[t])
  BY DEF Advanced
<1> QED
  BY <1>1, <1>2 DEF RowOK

LEMMA ProgressRows ==
  ASSUME Ordered, Grows, NoneWithdrawn, NEW p \in Procs, Progress(p), NEW u \in Tasks PROVE RowOK(u)'
<1>0. Typed /\ Tied(proc[p]) /\ proc[p].pc # "delete" /\ Local(proc[p]) /\ RowOK(u)
  BY DEF Ordered, NoneWithdrawn, Typed
<1>1. CASE Step(p)
  BY <1>1, RowStays DEF Step, NothingStarts
<1>2. CASE Starts(p)
  <2>0. PICK t \in Tasks : t = proc[p].task
    BY <1>0, <1>2 DEF Starts, Local
  <2>1. session' = [session EXCEPT ![t] = "working"] /\ UNCHANGED row /\ Ready(t)
    BY <1>0, <1>2, <2>0 DEF Starts, StartSession, Local, Tied, Working, Pcs, Starters
  <2>2. CASE u # t
    <3>1. session'[u] = session[u]
      BY <1>0, <2>1, <2>2 DEF Typed, WorldOK
    <3> QED
      BY <2>1, <3>1, RowStays
  <2>3. CASE u = t
    <3>1. session'[t] = "working" /\ Ready(t)'
      BY <1>0, <2>1, ReadyGrows DEF Typed, WorldOK
    <3>2. Advanced(row[t])' <=> Advanced(row[t])
      BY <2>1 DEF Advanced
    <3> QED
      BY <1>0, <2>1, <2>3, <3>1, <3>2 DEF RowOK
  <2> QED
    BY <2>2, <2>3
<1>3. CASE Wrote(p)
  <2>0. PICK t \in Tasks : t = proc[p].task
    BY <1>0, <1>3 DEF Wrote, Local
  <2> DEFINE c == proc[p]
             r == row'[t]
  <2>1. /\ row' = [row EXCEPT ![t] = r] /\ UNCHANGED session /\ Sound(c.seen, c.move)
        /\ r.phase = c.move.next.phase /\ r.step = c.move.next.step
        /\ r.session = row[t].session /\ r.hold = row[t].hold /\ SameLaunch(r, row[t])
    <3>1. UNCHANGED session
      BY <1>3 DEF Wrote, world
    <3> QED
      BY <1>0, <1>3, <2>0, <3>1, WroteFacts
  <2>2. CASE u # t
    <3>1. row'[u] = row[u]
      <4> HIDE DEF r
      <4> QED
        BY <1>0, <2>1, <2>2 DEF Typed
    <3> QED
      BY <2>1, <3>1, RowStays
  <2>3. CASE u = t
    <3>1. c.pc = "write" /\ c.pc \in Working
      BY <1>3 DEF Wrote, Working, Pcs
    <3>2. r.merge => ~r.hold
      BY <1>0, <2>1, <2>3 DEF RowOK, SameLaunch
    <3>3. Advanced(r) \/ r.phase = "done" => r.session
      <4>1. Advanced(r) <=> Advanced(c.move.next)
        BY <2>1 DEF Advanced
      <4>2. Advanced(c.move.next) => Advanced(c.seen) \/ c.seen.session
        BY <2>1 DEF Sound
      <4>3. (Advanced(c.seen) => c.seen.session) /\ (c.move.next.phase = "done" => c.seen.session) /\ (c.seen.session => row[t].session)
        BY <1>0, <2>0, <3>1 DEF Tied
      <4> QED
        BY <2>1, <4>1, <4>2, <4>3
    <3>4. Ready(t) => Ready(t)'
      BY <1>0, <2>1, ReadyGrows
    <3>5. Advanced(row[t])' <=> Advanced(r)
      BY DEF Advanced
    <3> QED
      BY <1>0, <2>1, <2>3, <3>2, <3>3, <3>4, <3>5 DEF RowOK
  <2> QED
    BY <2>2, <2>3
<1>4. CASE Inserts(p)
  <2>0. UNCHANGED session
    BY <1>4 DEF Inserts, world
  <2>1. PICK t \in Tasks : \E d :
         /\ row[t].phase = "absent" /\ row' = [row EXCEPT ![t] = d.seen]
         /\ d.seen.phase \in {"running", "waiting"} /\ ~d.seen.session /\ (d.seen.merge => ~d.seen.hold)
    BY <1>4 DEF Inserts
  <2>2. PICK d : /\ row' = [row EXCEPT ![t] = d.seen]
                 /\ d.seen.phase \in {"running", "waiting"} /\ ~d.seen.session /\ (d.seen.merge => ~d.seen.hold)
    BY <2>1
  <2>3. CASE u # t
    <3>1. row'[u] = row[u]
      BY <1>0, <2>2, <2>3 DEF Typed
    <3> QED
      BY <2>0, <3>1, RowStays
  <2>4. CASE u = t
    <3>1. row'[t] = d.seen
      BY <1>0, <2>2 DEF Typed
    <3>2. session'[t] = "none"
      BY <1>0, <2>0, <2>1, <2>4 DEF RowOK, Ready
    <3>3. ~Advanced(row[t])'
      BY <2>2, <3>1 DEF Advanced
    <3> QED
      BY <2>2, <2>4, <3>1, <3>2, <3>3 DEF RowOK
  <2> QED
    BY <2>3, <2>4
<1>5. CASE Records(p) \/ Holds(p)
  <2>0. PICK t \in Tasks : t = proc[p].task
    BY <1>0, <1>5 DEF Records, Holds, Local
  <2> DEFINE c == proc[p]
             r == row'[t]
  <2>1. /\ row' = [row EXCEPT ![t] = r] /\ UNCHANGED session
        /\ r.phase = row[t].phase /\ r.step = row[t].step /\ SameLaunch(r, row[t])
        /\ \/ c.pc = "record" /\ r.session /\ r.hold = row[t].hold
           \/ c.pc \in {"hold", "release"} /\ r.session = row[t].session /\ r.hold = (c.pc = "hold")
    BY <1>0, <1>5, <2>0, UpdatesFacts
  <2>2. CASE u # t
    <3>1. row'[u] = row[u]
      <4> HIDE DEF r
      <4> QED
        BY <1>0, <2>1, <2>2 DEF Typed
    <3> QED
      BY <2>1, <3>1, RowStays
  <2>3. CASE u = t
    <3>1. c.pc \in Working
      BY <2>1 DEF Working, Pcs
    <3>2. /\ c.pc = "record" => session[t] # "none"
          /\ c.pc = "hold" => ~r.merge
      BY <1>0, <2>0, <2>1, <3>1 DEF Tied, Local, SameLaunch
    <3>3. r.merge => ~r.hold
      BY <1>0, <2>1, <2>3, <3>2 DEF RowOK, SameLaunch
    <3>4. Advanced(row[t])' <=> Advanced(row[t])
      BY <2>1 DEF Advanced
    <3>5. Ready(t) => Ready(t)'
      BY <1>0, <2>1, ReadyGrows
    <3> QED
      BY <1>0, <2>1, <2>3, <3>2, <3>3, <3>4, <3>5 DEF RowOK
  <2> QED
    BY <2>2, <2>3
<1> QED
  BY <1>0, <1>1, <1>2, <1>3, <1>4, <1>5 DEF Progress, Deletes

(* Where a process goes it is tied again.                                  *)
LEMMA OnwardTied ==
  ASSUME Ordered, NEW p \in Procs, NEW d, Local(d), Onward(proc[p], d), UNCHANGED row, NothingStarts
  PROVE  Tied(d)'
<1> DEFINE c == proc[p]
<1>0. Typed /\ Tied(c) /\ Local(c) /\ \A t \in Tasks : RowOK(t)
  BY DEF Ordered, Typed
<1>1. CASE Rests(d)
  BY <1>1 DEF Rests, Tied
<1>2. ASSUME d.pc \in Working, Tied(d) PROVE Tied(d)'
  <2>1. Grows
    BY DEF Grows, NothingStarts, SameLaunch
  <2> QED
    BY <1>0, <1>2, <2>1, TiedGrows
<1>3. CASE Reads(c, d)
  <2>1. d.pc \in Working /\ d.seen = row[d.task] /\ row[d.task].phase # "absent" /\ d.task \in Tasks
    BY <1>3 DEF Reads, Local, Working
  <2>2. RowOK(d.task)
    BY <1>0, <2>1
  <2>3. d.pc = "finishing" => d.seen.session
    <3> HAVE d.pc = "finishing"
    <3>1. c.pc = "finish" /\ c.task = d.task
      BY <1>3 DEF Reads
    <3>2. c.seen.session /\ (c.seen.session => row[c.task].session)
      BY <1>0, <3>1 DEF Tied, Working, Pcs
    <3> QED
      BY <2>1, <3>1, <3>2
  <2>4. d.pc \in Starters => Ready(d.task)
    <3> HAVE d.pc \in Starters
    <3>1. c.pc = "start" /\ c.task = d.task
      BY <1>3 DEF Reads
    <3> QED
      BY <1>0, <3>1 DEF Tied, Working, Pcs, Starters
  <2>5. Tied(d)
    BY <1>3, <2>1, <2>2, <2>3, <2>4 DEF Tied, Reads, RowOK, SameLaunch
  <2> QED
    BY <1>2, <2>1, <2>5
<1>4. CASE WorksOn(c, d)
  <2>1. c.pc \in Working /\ d.pc \in Working /\ d.task = c.task /\ d.seen = c.seen
    BY <1>4 DEF WorksOn
  <2>2. /\ row[c.task].phase # "absent" /\ SameLaunch(c.seen, row[c.task])
        /\ c.seen.session => row[c.task].session
        /\ c.seen.phase = "cancelled" => row[c.task].phase = "cancelled"
        /\ c.seen.merge => ~c.seen.hold
        /\ Advanced(c.seen) => c.seen.session
    BY <1>0, <2>1 DEF Tied
  <2>3. d.pc \in {"write", "clean", "remove"} /\ d.move.next.phase = "done" => c.seen.session
    <3> HAVE d.pc \in {"write", "clean", "remove"} /\ d.move.next.phase = "done"
    <3>1. CASE c.pc = "landing"
      BY <1>0, <2>2, <3>1 DEF Local, Advanced
    <3>2. CASE c.pc = "finishing"
      BY <1>0, <2>1, <3>2 DEF Tied
    <3>3. CASE c.pc \in {"clean", "remove"} /\ d.move = c.move
      BY <1>0, <2>1, <3>3 DEF Tied
    <3> QED
      BY <1>4, <3>1, <3>2, <3>3 DEF WorksOn
  <2>4. d.pc \in Starters \/ (d.pc = "write" /\ d.move.effect = "start") => Ready(d.task)
    <3>1. CASE d.pc \in Starters
      BY <1>0, <1>4, <2>1, <3>1 DEF WorksOn, Tied
    <3>2. CASE d.pc = "write" /\ d.move.effect = "start"
      BY <1>4, <2>1, <2>2, <3>2 DEF WorksOn, Ready, SameLaunch
    <3> QED
      BY <3>1, <3>2
  <2>5. d.pc \notin {"record", "finish", "finishing"}
    BY <1>4 DEF WorksOn
  <2>6. Tied(d)
    BY <2>1, <2>2, <2>3, <2>4, <2>5 DEF Tied
  <2> QED
    BY <1>2, <2>1, <2>6
<1> QED
  BY <1>1, <1>3, <1>4 DEF Onward

LEMMA ProgressTied ==
  ASSUME Ordered, Grows, NoneWithdrawn, NEW p \in Procs, Progress(p), \A t \in Tasks : RowOK(t)'
  PROVE  \E d : proc' = [proc EXCEPT ![p] = d] /\ Tied(d)'
<1> PICK c : c = proc[p]
  OBVIOUS
<1>0. Typed /\ Tied(c) /\ Local(c) /\ c.pc # "delete"
  BY DEF Ordered, Typed, NoneWithdrawn
<1>1. CASE Step(p)
  BY <1>1, OnwardTied DEF Step
<1>2. CASE Starts(p)
  <2>1. PICK d : proc' = [proc EXCEPT ![p] = d] /\ d.pc = "record" /\ d.task = c.task /\ d.seen = c.seen
    BY <1>2 DEF Starts
  <2>2. Tied(c)' /\ c.pc \in Working /\ c.task \in Tasks
    BY <1>0, <1>2, TiedGrows DEF Starts, Working, Pcs, Local
  <2>3. session'[c.task] # "none"
    BY <1>0, <1>2, <2>2 DEF Starts, StartSession, Typed, WorldOK
  <2>4. /\ row'[c.task].phase # "absent" /\ SameLaunch(c.seen, row'[c.task])
        /\ c.seen.session => row'[c.task].session
        /\ c.seen.phase = "cancelled" => row'[c.task].phase = "cancelled"
        /\ c.seen.merge => ~c.seen.hold
        /\ Advanced(c.seen) => c.seen.session
    <3>1. UNCHANGED row
      BY <1>2 DEF Starts
    <3> QED
      BY <1>0, <2>2, <3>1 DEF Tied
  <2>5. Tied(d)'
    BY <2>1, <2>3, <2>4 DEF Tied, Starters
  <2> QED
    BY <2>1, <2>5
<1>3. CASE Wrote(p)
  <2>1. PICK d : /\ proc' = [proc EXCEPT ![p] = d]
                 /\ \/ Rests(d)
                    \/ /\ d.pc = c.move.effect /\ d.pc # "none" /\ d.task = c.task
                       /\ d.seen = row'[d.task] /\ d.move = Idle.move
    BY <1>3 DEF Wrote
  <2>2. CASE Rests(d)
    BY <2>1, <2>2 DEF Rests, Tied
  <2>3. CASE ~Rests(d)
    <3>1. /\ c.task \in Tasks /\ c.pc = "write" /\ c.move.effect \in Effects /\ row[c.task].phase # "absent"
          /\ row'[c.task].phase # "absent"
      <4>1. c.task \in Tasks /\ row'[c.task].phase = c.move.next.phase /\ Sound(c.seen, c.move)
        BY <1>0, <1>3, WroteFacts
      <4>2. c.pc = "write"
        BY <1>3 DEF Wrote
      <4>3. row[c.task].phase # "absent"
        BY <1>0, <4>2 DEF Tied, Working, Pcs
      <4> QED
        BY <4>1, <4>2, <4>3 DEF Sound, Moves
    <3>2. d.pc \in {"start", "check", "send", "land"}
      BY <2>1, <2>3, <3>1 DEF Effects
    <3>3. d.pc = "start" => Ready(c.task)'
      <4>1. d.pc = "start" => Ready(c.task)
        BY <1>0, <2>1, <2>3, <3>1 DEF Tied, Working, Pcs
      <4> QED
        BY <1>0, <3>1, <4>1, ReadyGrows
    <3>4. RowOK(c.task)'
      BY <3>1
    <3>5. /\ row'[c.task].merge => ~row'[c.task].hold
          /\ Advanced(row'[c.task]) => row'[c.task].session
      BY <3>4 DEF RowOK, Advanced
    <3>6. Tied(d)'
      BY <2>1, <2>3, <3>1, <3>2, <3>3, <3>5 DEF Tied, Starters, SameLaunch
    <3> QED
      BY <2>1, <3>6
  <2> QED
    BY <2>1, <2>2, <2>3
<1>4. CASE Inserts(p)
  <2>1. PICK t \in Tasks : \E d :
         /\ row[t].phase = "absent" /\ row' = [row EXCEPT ![t] = d.seen]
         /\ proc' = [proc EXCEPT ![p] = d] /\ d.task = t /\ Local(d)
         /\ d.seen.phase \in {"running", "waiting"}
         /\ d.pc = IF d.seen.phase = "running" THEN "launchLock" ELSE "queue"
         /\ d.seen.phase = "running" => \A u \in d.seen.after : row[u].phase = "done"
    BY <1>4 DEF Inserts
  <2>2. PICK d :
         /\ row[t].phase = "absent" /\ row' = [row EXCEPT ![t] = d.seen]
         /\ proc' = [proc EXCEPT ![p] = d] /\ d.task = t /\ Local(d)
         /\ d.seen.phase \in {"running", "waiting"}
         /\ d.pc = IF d.seen.phase = "running" THEN "launchLock" ELSE "queue"
         /\ d.seen.phase = "running" => \A u \in d.seen.after : row[u].phase = "done"
    BY <2>1
  <2>3. row'[t] = d.seen /\ d.seen \in Rows(Tasks)
    BY <1>0, <2>2, CallFacts DEF Typed, Local
  <2>4. /\ row'[t].merge => ~row'[t].hold
        /\ Advanced(row'[t]) => row'[t].session
    <3>1. RowOK(t)'
      OBVIOUS
    <3> QED
      BY <3>1 DEF RowOK, Advanced
  <2>5. d.pc = "launchLock" => Ready(t)'
    <3> HAVE d.pc = "launchLock"
    <3>1. \A u \in d.seen.after : u \in Tasks /\ row[u].phase = "done"
      BY <2>2, <2>3, RowFacts
    <3>2. \A u \in d.seen.after : row'[u].phase = "done"
      BY <3>1 DEF Grows
    <3> QED
      BY <2>2, <2>3, <3>2 DEF Ready
  <2>6. d.pc \in {"launchLock", "queue"}
    BY <2>2
  <2>7. Tied(d)'
    BY <2>2, <2>3, <2>4, <2>5, <2>6 DEF Tied, SameLaunch, Starters
  <2> QED
    BY <2>2, <2>7
<1>5. CASE Records(p) \/ Holds(p)
  <2>1. proc' = [proc EXCEPT ![p] = Idle]
    BY <1>5 DEF Records, Holds, Updates
  <2>2. Tied(Idle)'
    BY IdleFacts DEF Tied, Working
  <2> QED
    BY <2>1, <2>2
<1> QED
  BY <1>0, <1>1, <1>2, <1>3, <1>4, <1>5 DEF Progress, Deletes

LEMMA InitOrdered == Init => Ordered
<1> HAVE Init
<1>1. row = [t \in Tasks |-> NoRow] /\ proc = [p \in Procs |-> Idle] /\ session = [t \in Tasks |-> "none"]
  BY DEF Init
<1>2. \A t \in Tasks : RowOK(t)
  <2>1. ~Advanced(NoRow)
    BY NoRowFacts DEF Advanced
  <2> QED
    BY <1>1, <2>1, NoRowFacts DEF RowOK
<1>3. \A p \in Procs : Tied(proc[p])
  <2>1. Tied(Idle)
    BY IdleFacts DEF Tied, Working
  <2> QED
    BY <1>1, <2>1
<1> QED
  BY <1>2, <1>3, InitTyped DEF Ordered

LEMMA NextOrdered == Ordered /\ NoneWithdrawn /\ [Next]_vars => Ordered' /\ Grows
<1> SUFFICES ASSUME Ordered, NoneWithdrawn, [Next]_vars PROVE Ordered' /\ Grows
  OBVIOUS
<1>0. Typed /\ Typed'
  BY NextTyped DEF Ordered
<1>1. CASE Quiet
  <2>1. Grows
    BY <1>1 DEF Quiet, NothingStarts, Grows, SameLaunch
  <2>2. \A t \in Tasks : RowOK(t)'
    BY <1>1, <2>1, RowStays DEF Quiet, NothingStarts
  <2>3. \A p \in Procs : Tied(proc[p])'
    <3> TAKE p \in Procs
    <3>1. PICK c : c = proc[p] /\ c = proc'[p]
      BY <1>1 DEF Quiet
    <3>2. Tied(c)'
      BY <1>0, <2>1, <3>1, TiedGrows DEF Ordered, Typed
    <3> QED
      BY <3>1, <3>2
  <2> QED
    BY <1>0, <2>1, <2>2, <2>3 DEF Ordered
<1>2. ASSUME NEW p \in Procs, Progress(p) PROVE Ordered' /\ Grows
  <2>1. Grows
    BY <1>2, ProgressGrows
  <2>2. \A t \in Tasks : RowOK(t)'
    BY <1>2, <2>1, ProgressRows
  <2>3. PICK d : proc' = [proc EXCEPT ![p] = d] /\ Tied(d)'
    BY <1>2, <2>1, <2>2, ProgressTied
  <2>4. \A q \in Procs : Tied(proc[q])'
    <3> TAKE q \in Procs
    <3>1. PICK c : c = proc'[q]
      OBVIOUS
    <3>2. Tied(c)'
      <4>1. CASE q = p
        BY <1>0, <2>3, <3>1, <4>1 DEF Typed
      <4>2. CASE q # p
        <5>1. c = proc[q]
          BY <1>0, <2>3, <3>1, <4>2 DEF Typed
        <5> QED
          BY <1>0, <2>1, <5>1, TiedGrows DEF Ordered, Typed
      <4> QED
        BY <4>1, <4>2
    <3> QED
      BY <3>1, <3>2
  <2> QED
    BY <1>0, <2>1, <2>2, <2>4 DEF Ordered
<1> QED
  BY <1>0, <1>1, <1>2, NextCases

(* A task queued after others has a session only when they are all done:   *)
(* whoever started it read that they were, and what is done stays so.      *)
THEOREM DependenciesFirst == Spec /\ []NoneWithdrawn => []StartsAfterDependencies
<1>1. Ordered => StartsAfterDependencies
  BY DEF Ordered, RowOK, Ready, StartsAfterDependencies
<1>2. Ordered /\ NoneWithdrawn /\ [Next]_vars => Ordered'
  BY NextOrdered
<1> QED
  BY <1>1, <1>2, InitOrdered, PTL DEF Spec

---------------------------------------------------------------------------
(* A task has one session.                                                 *)

(* A process that starts the session of t.                                 *)
Starter(c, t) == c.pc \in Starters /\ c.task = t

LEMMA StarterFacts ==
  ASSUME Ordered, Single, NEW p \in Procs, NEW t \in Tasks, Starter(proc[p], t)
  PROVE  /\ session[t] = "none" /\ row[t].phase \notin {"waiting", "absent"}
         /\ \A q \in Procs : Starter(proc[q], t) => q = p
<1>1. row[t].phase # "absent"
  BY DEF Ordered, Tied, Starter, Starters, Working, Pcs
<1> QED
  BY <1>1 DEF Single, Starter

(* Nobody new starts a session: then it is still one that does.            *)
LEMMA NobodyNew ==
  ASSUME Ordered, Single, NEW p \in Procs, NEW d, proc' = [proc EXCEPT ![p] = d],
         d.pc \in Starters => Starter(proc[p], d.task),
         \A t \in Tasks : session'[t] # "none" =>
            session[t] # "none" \/ (Starter(proc[p], t) /\ d.pc \notin Starters),
         \A t \in Tasks : row'[t].phase = "waiting" =>
            row[t].phase = "waiting" \/ (row[t].phase = "absent" /\ session'[t] = "none")
  PROVE  Single'
<1>0. proc = [q \in Procs |-> proc[q]] /\ \A q \in Procs : Local(proc[q])
  BY DEF Ordered, Typed
<1>1. \A q \in Procs : proc'[q] = IF q = p THEN d ELSE proc[q]
  BY <1>0
<1>2. \A q \in Procs : \A t : Starter(proc'[q], t) => Starter(proc[q], t)
  BY <1>1 DEF Starter
<1>3. ASSUME NEW q \in Procs, NEW t \in Tasks, Starter(proc'[q], t)
      PROVE  /\ session'[t] = "none" /\ row'[t].phase # "waiting"
             /\ \A o \in Procs : Starter(proc'[o], t) => o = q
  <2>1. Starter(proc[q], t)
    BY <1>2, <1>3
  <2>2. /\ session[t] = "none" /\ row[t].phase \notin {"waiting", "absent"}
        /\ \A o \in Procs : Starter(proc[o], t) => o = q
    BY <2>1, StarterFacts
  <2>3. session'[t] = "none"
    <3>1. ASSUME Starter(proc[p], t), d.pc \notin Starters PROVE FALSE
      <4>1. p = q
        BY <2>2, <3>1
      <4> QED
        BY <1>1, <1>3, <3>1, <4>1 DEF Starter
    <3> QED
      BY <2>2, <3>1
  <2> QED
    BY <1>2, <2>2, <2>3
<1>4. \A t \in Tasks : session'[t] # "none" => row'[t].phase # "waiting"
  <2> TAKE t \in Tasks
  <2> HAVE session'[t] # "none"
  <2>1. row[t].phase # "waiting"
    BY StarterFacts DEF Single
  <2> QED
    BY <2>1
<1>5. ASSUME NEW q \in Procs, proc'[q].pc \in Starters
      PROVE  /\ session'[proc'[q].task] = "none" /\ row'[proc'[q].task].phase # "waiting"
             /\ \A o \in Procs : proc'[o].pc \in Starters /\ proc'[o].task = proc'[q].task => o = q
  <2> DEFINE t == proc'[q].task
  <2>1. Starter(proc'[q], t)
    BY <1>5 DEF Starter
  <2>2. t \in Tasks
    <3>1. Starter(proc[q], t)
      BY <1>2, <2>1
    <3> QED
      BY <1>0, <3>1 DEF Starter, Starters, Local
  <2> QED
    BY <1>3, <2>1, <2>2 DEF Starter
<1> QED
  BY <1>4, <1>5 DEF Single

LEMMA InitSingle == Init => Single
BY IdleFacts DEF Init, Single, Starters

LEMMA ProgressSingle ==
  ASSUME Ordered, Single, NoneWithdrawn, NoneRequeued, NEW p \in Procs, Progress(p) PROVE Single'
<1>0. Typed /\ Tied(proc[p]) /\ Local(proc[p]) /\ proc[p].pc # "delete"
  BY DEF Ordered, Typed, NoneWithdrawn
<1>1. CASE Step(p)
  <2>1. PICK d : proc' = [proc EXCEPT ![p] = d] /\ Onward(proc[p], d)
    BY <1>1 DEF Step
  <2>2. UNCHANGED row /\ \A t \in Tasks : session'[t] = "none" <=> session[t] = "none"
    BY <1>1 DEF Step, NothingStarts
  <2>3. d.pc \in Starters => Starter(proc[p], d.task)
    BY <2>1 DEF Onward, Rests, Reads, WorksOn, Starter, Starters, Working, Pcs
  <2> QED
    BY <2>1, <2>2, <2>3, NobodyNew
<1>2. CASE Starts(p)
  <2>1. PICK d : proc' = [proc EXCEPT ![p] = d] /\ d.pc = "record"
    BY <1>2 DEF Starts
  <2>2. /\ UNCHANGED row /\ proc[p].task \in Tasks /\ Starter(proc[p], proc[p].task)
        /\ session' = [session EXCEPT ![proc[p].task] = "working"]
    BY <1>0, <1>2 DEF Starts, StartSession, Starter, Starters, Local
  <2>3. \A t \in Tasks : session'[t] # "none" => session[t] # "none" \/ Starter(proc[p], t)
    BY <1>0, <2>2 DEF Typed, WorldOK
  <2>4. d.pc \notin Starters
    BY <2>1 DEF Starters
  <2> QED
    BY <2>1, <2>2, <2>3, <2>4, NobodyNew
<1>3. CASE Wrote(p)
  <2> DEFINE t == proc[p].task
             m == proc[p].move
             r == row'[t]
  <2>0. proc[p].pc = "write" /\ UNCHANGED session
    BY <1>3 DEF Wrote, world
  <2>1. /\ t \in Tasks /\ Sound(proc[p].seen, m) /\ row[t].phase = proc[p].seen.phase
        /\ row' = [row EXCEPT ![t] = r] /\ r.phase = m.next.phase
    BY <1>0, <1>3, WroteFacts
  <2>2. PICK d : /\ proc' = [proc EXCEPT ![p] = d]
                 /\ Rests(d) \/ (d.pc = m.effect /\ d.task = t)
    BY <1>3 DEF Wrote
  <2>3. r.phase # "waiting"
    BY <2>0, <2>1 DEF NoneRequeued
  <2> HIDE DEF r
  <2>4. \A u \in Tasks : row'[u].phase = "waiting" => row[u].phase = "waiting"
    BY <1>0, <2>1, <2>3 DEF Typed
  <2>5. CASE d.pc \notin Starters
    BY <2>0, <2>2, <2>4, <2>5, NobodyNew
  <2>6. CASE d.pc \in Starters
    <3>1. m.effect \in Effects /\ ~Rests(d)
      BY <2>1, <2>6 DEF Sound, Moves, Rests, Starters, Working, Pcs
    <3>2. d.pc = "start" /\ d.task = t /\ row[t].phase = "waiting"
      BY <2>1, <2>2, <2>6, <3>1 DEF Effects, Starters, Sound
    <3>3. session[t] = "none" /\ \A q \in Procs : ~Starter(proc[q], t)
      BY <2>1, <3>2, StarterFacts DEF Single
    <3>4. \A q \in Procs : proc'[q] = IF q = p THEN d ELSE proc[q]
      BY <1>0, <2>2 DEF Typed
    <3>5. ASSUME NEW q \in Procs, proc'[q].pc \in Starters
          PROVE  /\ session'[proc'[q].task] = "none" /\ row'[proc'[q].task].phase # "waiting"
                 /\ \A o \in Procs : proc'[o].pc \in Starters /\ proc'[o].task = proc'[q].task => o = q
      <4>1. CASE q = p
        <5>1. proc'[q] = d /\ row'[t].phase # "waiting" /\ session'[t] = "none"
          BY <2>0, <2>3, <3>3, <3>4, <4>1 DEF r
        <5>2. \A o \in Procs : o # p => ~(proc'[o].pc \in Starters /\ proc'[o].task = t)
          BY <3>3, <3>4 DEF Starter
        <5> QED
          BY <3>2, <4>1, <5>1, <5>2
      <4>2. CASE q # p
        <5> DEFINE u == proc[q].task
        <5>1. proc'[q] = proc[q]
          BY <3>4, <4>2
        <5>2. u \in Tasks /\ Starter(proc[q], u) /\ u # t
          BY <1>0, <3>3, <3>5, <5>1 DEF Typed, Local, Starter, Starters
        <5>3. /\ session[u] = "none" /\ row[u].phase # "waiting"
              /\ \A o \in Procs : Starter(proc[o], u) => o = q
          BY <5>2, StarterFacts
        <5>4. \A o \in Procs : proc'[o].pc \in Starters /\ proc'[o].task = u => o = q
          BY <3>2, <3>4, <5>2, <5>3 DEF Starter
        <5> QED
          BY <2>0, <2>4, <5>1, <5>2, <5>3, <5>4
      <4> QED
        BY <4>1, <4>2
    <3>6. \A u \in Tasks : session'[u] # "none" => row'[u].phase # "waiting"
      BY <2>0, <2>4 DEF Single
    <3> QED
      BY <3>5, <3>6 DEF Single
  <2> QED
    BY <2>5, <2>6
<1>4. CASE Inserts(p)
  <2>0. UNCHANGED session
    BY <1>4 DEF Inserts, world
  <2>1. PICK t \in Tasks : \E d :
         /\ row[t].phase = "absent" /\ row' = [row EXCEPT ![t] = d.seen]
         /\ proc' = [proc EXCEPT ![p] = d] /\ d.task = t
         /\ d.pc = IF d.seen.phase = "running" THEN "launchLock" ELSE "queue"
    BY <1>4 DEF Inserts
  <2>2. PICK d :
         /\ row' = [row EXCEPT ![t] = d.seen]
         /\ proc' = [proc EXCEPT ![p] = d] /\ d.task = t
         /\ d.pc = IF d.seen.phase = "running" THEN "launchLock" ELSE "queue"
    BY <2>1
  <2>3. session[t] = "none"
    BY <2>1 DEF Ordered, RowOK, Ready
  <2>4. \A q \in Procs : ~Starter(proc[q], t)
    BY <2>1, StarterFacts
  <2>5. \A u \in Tasks : row'[u].phase = "waiting" => row[u].phase = "waiting" \/ (u = t /\ d.pc = "queue")
    BY <1>0, <2>2 DEF Typed
  <2>6. \A q \in Procs : proc'[q] = IF q = p THEN d ELSE proc[q]
    BY <1>0, <2>2 DEF Typed
  <2>7. CASE d.pc = "queue"
    <3>1. d.pc \notin Starters
      BY <2>7 DEF Starters
    <3> QED
      BY <2>0, <2>1, <2>2, <2>3, <2>5, <3>1, NobodyNew
  <2>8. CASE d.pc = "launchLock"
    <3>1. ASSUME NEW q \in Procs, proc'[q].pc \in Starters
          PROVE  /\ session'[proc'[q].task] = "none" /\ row'[proc'[q].task].phase # "waiting"
                 /\ \A o \in Procs : proc'[o].pc \in Starters /\ proc'[o].task = proc'[q].task => o = q
      <4>1. CASE q = p
        <5>1. proc'[q] = d /\ row'[t].phase # "waiting" /\ session'[t] = "none"
          BY <2>0, <2>1, <2>3, <2>5, <2>6, <2>8, <4>1
        <5>2. \A o \in Procs : o # p => ~(proc'[o].pc \in Starters /\ proc'[o].task = t)
          BY <2>4, <2>6 DEF Starter
        <5> QED
          BY <2>2, <4>1, <5>1, <5>2
      <4>2. CASE q # p
        <5> DEFINE u == proc[q].task
        <5>1. proc'[q] = proc[q]
          BY <2>6, <4>2
        <5>2. u \in Tasks /\ Starter(proc[q], u) /\ u # t
          BY <1>0, <2>4, <3>1, <5>1 DEF Typed, Local, Starter, Starters
        <5>3. /\ session[u] = "none" /\ row[u].phase # "waiting"
              /\ \A o \in Procs : Starter(proc[o], u) => o = q
          BY <5>2, StarterFacts
        <5>4. \A o \in Procs : proc'[o].pc \in Starters /\ proc'[o].task = u => o = q
          BY <2>2, <2>6, <5>2, <5>3 DEF Starter
        <5> QED
          BY <2>0, <2>5, <5>1, <5>2, <5>3, <5>4
      <4> QED
        BY <4>1, <4>2
    <3>2. \A u \in Tasks : session'[u] # "none" => row'[u].phase # "waiting"
      BY <2>0, <2>3, <2>5 DEF Single
    <3> QED
      BY <3>1, <3>2 DEF Single
  <2> QED
    BY <2>2, <2>7, <2>8
<1>5. CASE Records(p) \/ Holds(p)
  <2> DEFINE t == proc[p].task
             r == row'[t]
  <2>1. /\ t \in Tasks /\ row' = [row EXCEPT ![t] = r] /\ UNCHANGED session
        /\ proc' = [proc EXCEPT ![p] = Idle] /\ r.phase = row[t].phase
    BY <1>0, <1>5, UpdatesFacts
  <2> HIDE DEF r
  <2>2. \A u \in Tasks : row'[u].phase = "waiting" => row[u].phase = "waiting"
    BY <1>0, <2>1 DEF Typed
  <2>3. Idle.pc \notin Starters
    BY IdleFacts DEF Starters
  <2> QED
    BY <2>1, <2>2, <2>3, NobodyNew
<1> QED
  BY <1>0, <1>1, <1>2, <1>3, <1>4, <1>5 DEF Progress, Deletes

LEMMA NextSingle == Ordered /\ Single /\ NoneWithdrawn /\ NoneRequeued /\ [Next]_vars => Single'
<1> SUFFICES ASSUME Ordered, Single, NoneWithdrawn, NoneRequeued, [Next]_vars PROVE Single'
  OBVIOUS
<1>0. Typed
  BY DEF Ordered
<1>1. CASE Quiet
  <2>1. /\ UNCHANGED <<row, proc>> /\ (\A t \in Tasks : session'[t] = "none" <=> session[t] = "none")
        /\ \A q \in Procs : proc[q].pc \in Starters => proc[q].task \in Tasks
    BY <1>0, <1>1 DEF Quiet, NothingStarts, Typed, Local, Starters
  <2> QED
    BY <2>1 DEF Single
<1> QED
  BY <1>0, <1>1, NextCases, ProgressSingle

(* No process starts a session for a task that has one: of the launch and  *)
(* the passes that find a queued task ready, one writes that it runs, and  *)
(* it alone goes on to start it, once.                                     *)
THEOREM OneSessionEach == Spec /\ [](NoneWithdrawn /\ NoneRequeued) => []OneSession
<1>1. Ordered /\ Single => OneSession
  BY DEF Single, OneSession, Starters
<1>2. Ordered /\ NoneWithdrawn /\ [Next]_vars => Ordered'
  BY NextOrdered
<1> QED
  BY <1>1, <1>2, InitOrdered, InitSingle, NextSingle, PTL DEF Spec

---------------------------------------------------------------------------
(* A done task is clean.                                                   *)

(* c is about to make its task done, its branch behind it.                 *)
Finishes(c) == c.pc \in {"write", "remove"} /\ c.move.next.phase = "done"

(* What is removed stays so while no session starts, and nothing is        *)
(* started whose row is done, or is about to be.                           *)
LEMMA RemovedStays ==
  ASSUME Ordered, Single, Grows, NEW t \in Tasks, Removed(t), row[t].phase # "absent",
         (\A u \in Tasks : work[u] = "none" => work'[u] = "none") \/ (session[t] # "none" /\ \E p \in Procs : Starts(p))
  PROVE  Removed(t)'
<1>0. row'[t].inPlace = row[t].inPlace
  BY DEF Grows, SameLaunch
<1>1. work[t] = "none" => work'[t] = "none"
  <2>1. ASSUME session[t] # "none", NEW p \in Procs, Starts(p), work[t] = "none" PROVE work'[t] = "none"
    <3>1. Starter(proc[p], proc[p].task) /\ proc[p].task \in Tasks
      BY <2>1 DEF Starts, Starter, Starters, Ordered, Typed, Local
    <3>2. proc[p].task # t
      BY <2>1, <3>1, StarterFacts
    <3>3. work' = [work EXCEPT ![proc[p].task] = IF row[proc[p].task].inPlace THEN "none" ELSE "open"]
      BY <2>1 DEF Starts, StartSession
    <3> QED
      BY <2>1, <3>2, <3>3 DEF Ordered, Typed, WorldOK
  <2> QED
    BY <2>1
<1> QED
  BY <1>0, <1>1 DEF Removed

(* A row that is done, and one that is about to be, has had a session.     *)
LEMMA FinishesFacts ==
  ASSUME Ordered, NEW p \in Procs, Finishes(proc[p])
  PROVE  /\ proc[p].task \in Tasks /\ row[proc[p].task].phase # "absent" /\ session[proc[p].task] # "none"
<1>1. proc[p].pc \in Working /\ Tied(proc[p]) /\ Local(proc[p]) /\ proc[p].pc \in {"write", "clean", "remove"}
  BY DEF Ordered, Typed, Finishes, Working, Pcs
<1>2. proc[p].task \in Tasks
  BY <1>1 DEF Local, Working
<1>3. row[proc[p].task].phase # "absent" /\ row[proc[p].task].session
  BY <1>1 DEF Tied, Finishes
<1>4. RowOK(proc[p].task)
  BY <1>2 DEF Ordered
<1> QED
  BY <1>2, <1>3, <1>4 DEF RowOK

LEMMA DoneFacts == ASSUME Ordered, NEW t \in Tasks, row[t].phase = "done" PROVE session[t] # "none" /\ row[t].phase # "absent"
BY DEF Ordered, RowOK

LEMMA InitCleared == Init => Cleared
<1> HAVE Init
<1>1. \A t \in Tasks : row[t].phase # "done"
  BY NoRowFacts DEF Init
<1>2. \A p \in Procs : proc[p].pc \notin {"write", "remove"}
  BY IdleFacts DEF Init
<1> QED
  BY <1>1, <1>2 DEF Cleared

(* The rest of Cleared, once it is known which rows become done and who is *)
(* about to make one done.                                                 *)
LEMMA ClearedStays ==
  ASSUME Ordered, Single, Cleared, Grows, NEW p \in Procs, NEW d, proc' = [proc EXCEPT ![p] = d],
         (\A u \in Tasks : work[u] = "none" => work'[u] = "none") \/ (\E q \in Procs : Starts(q)),
         \A t \in Tasks : row'[t].phase = "done" => row[t].phase = "done" \/ (Finishes(proc[p]) /\ t = proc[p].task),
         Finishes(d) => Removed(d.task)'
  PROVE  Cleared'
<1>0. proc = [q \in Procs |-> proc[q]]
  BY DEF Ordered, Typed
<1>1. ASSUME NEW q \in Procs, Finishes(proc[q]), NEW t \in Tasks, t = proc[q].task PROVE Removed(t)'
  <2>1. row[t].phase # "absent" /\ session[t] # "none"
    BY <1>1, FinishesFacts
  <2>2. Removed(t)
    BY <1>1 DEF Cleared, Finishes
  <2> QED
    BY <2>1, <2>2, RemovedStays
<1>2. ASSUME NEW t \in Tasks, row'[t].phase = "done" PROVE Removed(t)'
  <2>1. CASE row[t].phase = "done"
    <3>1. Removed(t)
      BY <2>1 DEF Cleared
    <3> QED
      BY <2>1, <3>1, DoneFacts, RemovedStays
  <2>2. CASE Finishes(proc[p]) /\ t = proc[p].task
    BY <1>1, <2>2
  <2> QED
    BY <1>2, <2>1, <2>2
<1>3. ASSUME NEW q \in Procs, Finishes(proc'[q]) PROVE Removed(proc[q].task)'
  <2>1. CASE q = p
    <3>1. proc'[q] = d
      BY <1>0, <2>1
    <3> QED
      BY <1>3, <3>1
  <2>2. CASE q # p
    <3>1. proc'[q] = proc[q]
      BY <1>0, <2>2
    <3>2. PICK t \in Tasks : t = proc[q].task
      BY <1>3, <3>1, FinishesFacts
    <3>3. Removed(t)'
      BY <1>1, <1>3, <3>1, <3>2
    <3> QED
      BY <3>1, <3>2, <3>3
  <2> QED
    BY <2>1, <2>2
<1> QED
  BY <1>2, <1>3 DEF Cleared, Finishes

LEMMA ProgressCleared ==
  ASSUME Ordered, Single, Cleared, NoneWithdrawn, NEW p \in Procs, Progress(p) PROVE Cleared'
<1>0. Typed /\ Tied(proc[p]) /\ Local(proc[p]) /\ proc[p].pc # "delete" /\ Grows
  BY ProgressGrows DEF Ordered, Typed, NoneWithdrawn
<1>1. CASE Step(p)
  <2>1. PICK d : proc' = [proc EXCEPT ![p] = d] /\ Onward(proc[p], d) /\ Local(d)
    BY <1>1 DEF Step
  <2>2. UNCHANGED row /\ NothingStarts
    BY <1>1 DEF Step
  <2>3. ASSUME Finishes(d) PROVE Removed(d.task)'
    <3>1. d.pc \in {"write", "clean", "remove"} /\ d.move.next.phase = "done" /\ d.pc \in Working
      BY <2>3 DEF Finishes, Working, Pcs
    <3>2. WorksOn(proc[p], d)
      BY <2>1, <3>1 DEF Onward, Rests, Reads, Working, Pcs
    <3>3. PICK t \in Tasks : t = d.task /\ t = proc[p].task
      BY <2>1, <3>1, <3>2 DEF WorksOn, Local, Working
    <3>4. \/ d.pc = "remove" /\ proc[p].seen.inPlace
          \/ work'[t] = "none"
          \/ Finishes(proc[p])
      BY <2>3, <3>1, <3>2, <3>3 DEF WorksOn, Finishes
    <3>5. proc[p].seen.inPlace => row'[t].inPlace
      BY <1>0, <2>2, <3>2, <3>3 DEF WorksOn, Tied, SameLaunch
    <3>6. Finishes(proc[p]) => Removed(t)
      BY <3>3 DEF Cleared, Finishes
    <3>7. Removed(t)'
      BY <2>2, <3>4, <3>5, <3>6 DEF Removed, NothingStarts
    <3> QED
      BY <3>3, <3>7
  <2> QED
    BY <1>0, <2>1, <2>2, <2>3, ClearedStays DEF NothingStarts
<1>2. CASE Starts(p)
  <2>1. PICK d : proc' = [proc EXCEPT ![p] = d] /\ d.pc = "record"
    BY <1>2 DEF Starts
  <2>2. UNCHANGED row /\ ~Finishes(d)
    BY <1>2, <2>1 DEF Starts, Finishes
  <2> QED
    BY <1>0, <1>2, <2>1, <2>2, ClearedStays
<1>3. CASE Wrote(p)
  <2> DEFINE t == proc[p].task
             m == proc[p].move
             r == row'[t]
  <2>0. proc[p].pc = "write" /\ UNCHANGED work
    BY <1>3 DEF Wrote, world
  <2>1. t \in Tasks /\ row' = [row EXCEPT ![t] = r] /\ r.phase = m.next.phase /\ m.effect \in Effects
    BY <1>0, <1>3, WroteFacts DEF Sound, Moves
  <2>2. PICK d : proc' = [proc EXCEPT ![p] = d] /\ (Rests(d) \/ d.pc = m.effect)
    BY <1>3 DEF Wrote
  <2>3. ~Finishes(d)
    BY <2>1, <2>2 DEF Finishes, Rests, Working, Pcs, Effects
  <2> HIDE DEF r
  <2>4. \A u \in Tasks : row'[u].phase = "done" => row[u].phase = "done" \/ (Finishes(proc[p]) /\ u = t)
    BY <1>0, <2>0, <2>1 DEF Typed, Finishes
  <2> QED
    BY <1>0, <2>0, <2>2, <2>3, <2>4, ClearedStays
<1>4. CASE Inserts(p)
  <2>0. UNCHANGED work
    BY <1>4 DEF Inserts, world
  <2>1. PICK t \in Tasks : \E d :
         /\ row' = [row EXCEPT ![t] = d.seen] /\ proc' = [proc EXCEPT ![p] = d]
         /\ d.seen.phase \in {"running", "waiting"}
         /\ d.pc = IF d.seen.phase = "running" THEN "launchLock" ELSE "queue"
    BY <1>4 DEF Inserts
  <2>2. PICK d :
         /\ row' = [row EXCEPT ![t] = d.seen] /\ proc' = [proc EXCEPT ![p] = d]
         /\ d.seen.phase \in {"running", "waiting"}
         /\ d.pc = IF d.seen.phase = "running" THEN "launchLock" ELSE "queue"
    BY <2>1
  <2>3. \A u \in Tasks : row'[u].phase = "done" => row[u].phase = "done"
    BY <1>0, <2>2 DEF Typed
  <2>4. ~Finishes(d)
    BY <2>2 DEF Finishes
  <2> QED
    BY <1>0, <2>0, <2>2, <2>3, <2>4, ClearedStays
<1>5. CASE Records(p) \/ Holds(p)
  <2> DEFINE t == proc[p].task
             r == row'[t]
  <2>1. /\ t \in Tasks /\ row' = [row EXCEPT ![t] = r] /\ UNCHANGED work
        /\ proc' = [proc EXCEPT ![p] = Idle] /\ r.phase = row[t].phase
    BY <1>0, <1>5, UpdatesFacts
  <2> HIDE DEF r
  <2>2. \A u \in Tasks : row'[u].phase = "done" => row[u].phase = "done"
    BY <1>0, <2>1 DEF Typed
  <2>3. ~Finishes(Idle)
    BY IdleFacts DEF Finishes
  <2> QED
    BY <1>0, <2>1, <2>2, <2>3, ClearedStays
<1> QED
  BY <1>0, <1>1, <1>2, <1>3, <1>4, <1>5 DEF Progress, Deletes

LEMMA NextCleared == Ordered /\ Single /\ Cleared /\ NoneWithdrawn /\ [Next]_vars => Cleared'
<1> SUFFICES ASSUME Ordered, Single, Cleared, NoneWithdrawn, [Next]_vars PROVE Cleared'
  OBVIOUS
<1>1. CASE Quiet
  <2>1. UNCHANGED <<row, proc>> /\ \A t \in Tasks : work[t] = "none" => work'[t] = "none"
    BY <1>1 DEF Quiet, NothingStarts
  <2>2. \A p \in Procs : Finishes(proc[p]) => proc[p].task \in Tasks
    BY FinishesFacts
  <2> QED
    BY <2>1, <2>2 DEF Cleared, Removed, Finishes
<1> QED
  BY <1>1, NextCases, ProgressCleared DEF Ordered

(* A done task has no unmerged work left: finish and the landing clean up  *)
(* before they write that it is done, and no session starts again.         *)
THEOREM DoneTasksAreClean == Spec /\ [](NoneWithdrawn /\ NoneRequeued) => []DoneIsClean
<1>1. Cleared => DoneIsClean
  BY DEF Cleared, Removed, DoneIsClean
<1>2. Ordered /\ NoneWithdrawn /\ [Next]_vars => Ordered'
  BY NextOrdered
<1> QED
  BY <1>1, <1>2, InitOrdered, InitSingle, InitCleared, NextSingle, NextCleared, PTL DEF Spec

---------------------------------------------------------------------------
(* A held task is not merged.                                              *)

(* p starts to land only a row that merges, as it read it.                 *)
LEMMA OnwardApart ==
  ASSUME Ordered, Apart, NEW p \in Procs, NEW d, Local(d), Onward(proc[p], d)
  PROVE  /\ d.pc \in Working /\ Merging(d.seen) => ~d.seen.hold
         /\ d.pc = "landing" => d.task \in Tasks /\ ~row[d.task].hold
<1>1. CASE Rests(d)
  BY <1>1 DEF Rests, Working, Pcs
<1>2. CASE Reads(proc[p], d)
  <2>1. d.pc \in Working /\ d.seen = row[d.task] /\ d.task \in Tasks
    BY <1>2 DEF Reads, Local, Working
  <2>2. d.pc = "landing" => Merging(d.seen)
    BY DEF Local, Merging
  <2> QED
    BY <2>1, <2>2 DEF Apart
<1>3. CASE WorksOn(proc[p], d)
  BY <1>3 DEF WorksOn, Apart
<1> QED
  BY <1>1, <1>2, <1>3 DEF Onward

LEMMA ApartStays ==
  ASSUME Ordered, Apart, NEW p \in Procs, NEW d, proc' = [proc EXCEPT ![p] = d],
         \A t \in Tasks : Merging(row'[t]) => ~row'[t].hold,
         d.pc \in Working /\ Merging(d.seen) => ~d.seen.hold,
         d.pc = "landing" => ~row'[d.task].hold,
         \A t \in Tasks : row'[t].hold =>
            row[t].hold \/ \A q \in Procs : proc[q].pc = "landing" => proc[q].task # t
  PROVE  Apart'
<1>0. \A q \in Procs : proc'[q] = IF q = p THEN d ELSE proc[q]
  BY DEF Ordered, Typed
<1>1. \A t \in Tasks : Merging(row[t])' => ~row'[t].hold
  BY DEF Merging
<1>2. ASSUME NEW q \in Procs
      PROVE  /\ proc'[q].pc \in Working /\ Merging(proc'[q].seen) => ~proc'[q].seen.hold
             /\ proc'[q].pc = "landing" => ~row'[proc'[q].task].hold
  <2>1. CASE q = p
    BY <1>0, <2>1
  <2>2. CASE q # p
    <3>1. proc'[q] = proc[q]
      BY <1>0, <2>2
    <3>2. proc[q].pc = "landing" => proc[q].task \in Tasks
      BY DEF Ordered, Typed, Local
    <3> QED
      BY <3>1, <3>2 DEF Apart
  <2> QED
    BY <2>1, <2>2
<1>3. \A q \in Procs : Merging(proc[q].seen)' <=> Merging(proc'[q].seen)
  BY DEF Merging
<1> QED
  BY <1>1, <1>2, <1>3 DEF Apart

LEMMA InitApart == Init => Apart
<1> HAVE Init
<1>1. \A t \in Tasks : ~Merging(row[t])
  BY NoRowFacts DEF Init, Merging
<1>2. \A p \in Procs : proc[p].pc = "idle" /\ "idle" \notin Working
  BY IdleFacts DEF Init, Working
<1> QED
  BY <1>1, <1>2 DEF Apart

LEMMA ProgressApart ==
  ASSUME Ordered, Apart, NoneWithdrawn, HeldBefore, NEW p \in Procs, Progress(p) PROVE Apart'
<1>0. Typed /\ Tied(proc[p]) /\ Local(proc[p]) /\ proc[p].pc # "delete"
  BY DEF Ordered, Typed, NoneWithdrawn
<1>1. CASE Step(p)
  <2>1. PICK d : proc' = [proc EXCEPT ![p] = d] /\ Onward(proc[p], d) /\ Local(d) /\ UNCHANGED row
    BY <1>1 DEF Step
  <2>2. /\ d.pc \in Working /\ Merging(d.seen) => ~d.seen.hold
        /\ d.pc = "landing" => d.task \in Tasks /\ ~row[d.task].hold
    BY <2>1, OnwardApart
  <2>3. \A t \in Tasks : Merging(row'[t]) => ~row'[t].hold
    BY <2>1 DEF Apart
  <2> QED
    BY <2>1, <2>2, <2>3, ApartStays
<1>2. CASE Starts(p)
  <2>1. PICK d : proc' = [proc EXCEPT ![p] = d] /\ d.pc = "record" /\ d.seen = proc[p].seen
    BY <1>2 DEF Starts
  <2>2. UNCHANGED row /\ proc[p].pc \in Working
    BY <1>2 DEF Starts, Working, Pcs
  <2>3. (\A t \in Tasks : Merging(row'[t]) => ~row'[t].hold) /\ (Merging(d.seen) => ~d.seen.hold)
    BY <2>1, <2>2 DEF Apart
  <2> QED
    BY <2>1, <2>2, <2>3, ApartStays
<1>3. CASE Wrote(p)
  <2> DEFINE t == proc[p].task
             m == proc[p].move
             c == proc[p]
             r == row'[t]
  <2>1. /\ t \in Tasks /\ row' = [row EXCEPT ![t] = r] /\ r.phase = m.next.phase /\ r.step = m.next.step
        /\ Sound(c.seen, m) /\ row[t].hold = c.seen.hold /\ r.hold = row[t].hold
    BY <1>0, <1>3, WroteFacts
  <2>2. PICK d : /\ proc' = [proc EXCEPT ![p] = d]
                 /\ Rests(d) \/ (d.pc = m.effect /\ d.seen = row'[d.task] /\ d.task = t)
    BY <1>3 DEF Wrote
  <2>3. Merging(r) => ~r.hold
    <3>1. Merging(r) <=> Merging(m.next)
      BY <2>1 DEF Merging
    <3>2. Merging(m.next) => Merging(c.seen) \/ c.seen.merge \/ ~c.seen.hold
      BY <2>1 DEF Sound
    <3>3. (Merging(c.seen) => ~c.seen.hold) /\ (c.seen.merge => ~c.seen.hold)
      BY <1>0, <1>3 DEF Apart, Tied, Wrote, Working, Pcs
    <3> QED
      BY <2>1, <3>1, <3>2, <3>3
  <2>4. m.effect \in Effects
    BY <2>1 DEF Sound, Moves
  <2>5. d.pc \in Working /\ Merging(d.seen) => ~d.seen.hold
    BY <2>2, <2>3 DEF Rests
  <2>6. d.pc # "landing"
    BY <2>2, <2>4 DEF Rests, Working, Pcs, Effects
  <2> HIDE DEF r
  <2>7. \A u \in Tasks : (Merging(row'[u]) => ~row'[u].hold) /\ row'[u].hold = row[u].hold
    BY <1>0, <2>1, <2>3 DEF Typed, Apart
  <2> QED
    BY <2>2, <2>5, <2>6, <2>7, ApartStays
<1>4. CASE Inserts(p)
  <2>1. PICK t \in Tasks : \E d :
         /\ row[t].phase = "absent"
         /\ row' = [row EXCEPT ![t] = d.seen] /\ proc' = [proc EXCEPT ![p] = d]
         /\ d.seen.phase \in {"running", "waiting"}
         /\ d.pc = IF d.seen.phase = "running" THEN "launchLock" ELSE "queue"
    BY <1>4 DEF Inserts
  <2>2. PICK d :
         /\ row' = [row EXCEPT ![t] = d.seen] /\ proc' = [proc EXCEPT ![p] = d]
         /\ d.seen.phase \in {"running", "waiting"}
         /\ d.pc = IF d.seen.phase = "running" THEN "launchLock" ELSE "queue"
    BY <2>1
  <2>3. ~Merging(d.seen) /\ d.pc # "landing"
    BY <2>2 DEF Merging
  <2>4. \A q \in Procs : proc[q].pc = "landing" => proc[q].task # t
    BY <2>1 DEF Ordered, Tied, Working, Pcs
  <2>5. \A u \in Tasks : (Merging(row'[u]) => ~row'[u].hold) /\ (row'[u].hold => row[u].hold \/ u = t)
    BY <1>0, <2>2, <2>3 DEF Typed, Apart
  <2> QED
    BY <2>2, <2>3, <2>4, <2>5, ApartStays
<1>5. CASE Records(p) \/ Holds(p)
  <2> DEFINE t == proc[p].task
             r == row'[t]
  <2>1. /\ t \in Tasks /\ row' = [row EXCEPT ![t] = r] /\ proc' = [proc EXCEPT ![p] = Idle]
        /\ r.phase = row[t].phase /\ r.step = row[t].step
        /\ r.hold => row[t].hold \/ proc[p].pc = "hold"
    BY <1>0, <1>5, UpdatesFacts
  <2>2. proc[p].pc = "hold" => ~Merging(row[t]) /\ \A q \in Procs : proc[q].pc = "landing" => proc[q].task # t
    BY DEF HeldBefore
  <2>3. Merging(r) <=> Merging(row[t])
    BY <2>1 DEF Merging
  <2>4. Idle.pc = "idle" /\ "idle" \notin Working
    BY IdleFacts DEF Working
  <2> HIDE DEF r
  <2>5. \A u \in Tasks : /\ Merging(row'[u]) => ~row'[u].hold
                         /\ row'[u].hold => row[u].hold \/ (u = t /\ proc[p].pc = "hold")
    BY <1>0, <2>1, <2>2, <2>3 DEF Typed, Apart
  <2> QED
    BY <2>1, <2>2, <2>4, <2>5, ApartStays
<1> QED
  BY <1>0, <1>1, <1>2, <1>3, <1>4, <1>5 DEF Progress, Deletes

LEMMA NextApart == Ordered /\ Apart /\ NoneWithdrawn /\ HeldBefore /\ [Next]_vars => Apart'
<1> SUFFICES ASSUME Ordered, Apart, NoneWithdrawn, HeldBefore, [Next]_vars PROVE Apart'
  OBVIOUS
<1>1. CASE Quiet
  BY <1>1 DEF Quiet, Apart, Merging
<1> QED
  BY <1>1, NextCases, ProgressApart DEF Ordered

(* A held task is not merged for the tasks queued after it, as long as no  *)
(* hold is set while the task merges: a pass that decided to merge before  *)
(* the hold loses its compare-and-set.                                     *)
THEOREM HeldStaysApart == Spec /\ [](NoneWithdrawn /\ HeldBefore) => HeldNotMerged
<1>1. Apart => [\A t \in Tasks : (\E p \in Procs : FastForwards(p, t)) => ~row[t].hold]_vars
  BY DEF Apart, FastForwards, At
<1>2. Ordered /\ NoneWithdrawn /\ [Next]_vars => Ordered'
  BY NextOrdered
<1> QED
  BY <1>1, <1>2, InitOrdered, InitApart, NextApart, PTL DEF Spec, HeldNotMerged

---------------------------------------------------------------------------
(* A branch is merged while its row merges.                                *)

(* p comes to d with the locks it had and free ones, and lands only what   *)
(* it found merging under the lock.                                        *)
Comes(p, d) ==
  /\ proc' = [proc EXCEPT ![p] = d] /\ Guarded(d)
  /\ \A l \in d.locks : l \in proc[p].locks \/ ~Held(l)
  /\ d.pc = "landing" => row' = row /\ row[d.task].phase = "merging"
  /\ d.pc = "launchLock" => row[d.task].phase = "absent"
  /\ d.pc = "launchStart" => proc[p].pc = "launchLock" /\ proc[p].task = d.task

(* A process at a point where nothing is asked of it.                      *)
Plain == {"idle", "stopped", "insert", "check", "start", "record", "land", "checkLock", "checkRun", "checkApply",
          "queue", "delete", "finish", "cancel", "discard", "hold", "release", "retry", "clear"}

LEMMA PlainComes ==
  ASSUME NEW p \in Procs, NEW d, proc' = [proc EXCEPT ![p] = d], d.pc \in Plain,
         \A l \in d.locks : l \in proc[p].locks \/ ~Held(l)
  PROVE  Comes(p, d)
BY DEF Comes, Guarded, Plain

LEMMA EndComes == ASSUME NEW p \in Procs, End(p) PROVE \E d : Comes(p, d)
<1>1. proc' = [proc EXCEPT ![p] = Idle] /\ Idle.pc \in Plain /\ Idle.locks = {}
  BY IdleFacts DEF End, Become, Plain
<1> QED
  BY <1>1, PlainComes

(* It goes on to x as it is.                                               *)
LEMMA GoesComes ==
  ASSUME Typed, NEW p \in Procs, NEW x \in Pcs, x \notin {"landing", "look", "decide", "write", "send", "launchLock"},
         x = "launchStart" => proc[p].pc = "launchLock",
         Become(p, [proc[p] EXCEPT !.pc = x]),
         x \in {"starting", "clean", "remove", "finishing", "cancelStop", "cancelling", "discarding"}
           => TaskLock(proc[p].task) \in proc[p].locks
  PROVE  \E d : Comes(p, d)
<1> DEFINE c == proc[p]
           d == [c EXCEPT !.pc = x]
<1>0. c \in Calls
  BY DEF Typed, Local
<1>1. proc' = [proc EXCEPT ![p] = d]
  BY DEF Become
<1> HIDE DEF c
<1>2. d.pc = x /\ d.task = c.task /\ d.locks = c.locks
  BY <1>0, CallTo
<1> HIDE DEF d
<1>3. Comes(p, d)
  BY <1>1, <1>2 DEF Comes, Guarded, c
<1> QED
  BY <1>3

(* It works from a row it has just read.                                   *)
LEMMA ReadsComes ==
  ASSUME Typed, NEW p \in Procs, NEW t \in Tasks, NEW x \in Pcs, NEW j \in Jobs, NEW n \in Nat,
         proc' = [proc EXCEPT ![p] = ReadAt(t, x, j, n)] \/ proc' = [proc EXCEPT ![p] = ReadNow(t, x, j)],
         x \in Plain \/ (x = "look" /\ j \in {"pass", "show"}) \/ (x = "decide" /\ j = "pass")
  PROVE  \E d : Comes(p, d)
<1>1. /\ ReadAt(t, x, j, n).pc = x /\ ReadAt(t, x, j, n).job = j /\ ReadNow(t, x, j).pc = x /\ ReadNow(t, x, j).job = j
  BY ReadFacts
<1>2. ReadAt(t, x, j, n).locks = {} /\ ReadNow(t, x, j).locks = {}
  <2> DEFINE i == Idle
             r == [i EXCEPT !.task = t, !.seen = row[t], !.ver = ver[t]]
  <2>1. i \in Calls /\ i.locks = {}
    BY IdleFacts
  <2> HIDE DEF i
  <2>2. r \in Calls /\ r.locks = {}
    <3>1. row[t] \in Rows(Tasks) /\ ver[t] \in Nat
      BY DEF Typed
    <3> QED
      BY <2>1, <3>1 DEF Calls
  <2> HIDE DEF r
  <2>3. [r EXCEPT !.pc = x, !.job = j, !.at = n].locks = {} /\ [r EXCEPT !.pc = x, !.job = j].locks = {}
    BY <2>2 DEF Calls
  <2> QED
    BY <2>3 DEF ReadAt, ReadNow, Reading, r, i
<1>3. PICK d : /\ proc' = [proc EXCEPT ![p] = d] /\ d.pc = x /\ d.job = j /\ d.locks = {}
  BY <1>1, <1>2
<1>4. Comes(p, d)
  BY <1>3 DEF Comes, Guarded, Plain
<1> QED
  BY <1>4

(* It takes the task's lock and reads the row again.                       *)
LEMMA ClaimComes ==
  ASSUME Typed, NEW p \in Procs, NEW j \in {"starting", "landing", "finishing"}, Claim(p, j), proc[p].task \in Tasks,
         j = "landing" => UNCHANGED row /\ row[proc[p].task].phase = "merging"
  PROVE  \E d : Comes(p, d)
<1> DEFINE c == proc[p]
           t == c.task
           L == c.locks \union {TaskLock(t)}
           r == row[t]
           v == ver[t]
           d == [c EXCEPT !.pc = j, !.job = j, !.seen = r, !.ver = v, !.locks = L]
<1>0. c \in Calls
  BY DEF Typed, Local
<1>1. proc' = [proc EXCEPT ![p] = d] /\ ~Held(TaskLock(t))
  BY DEF Claim, Become, CanTake
<1> HIDE DEF c, L, r, v
<1>2. d.pc = j /\ d.task = t /\ d.locks = L
  BY <1>0 DEF Calls
<1> HIDE DEF d
<1>3. Guarded(d)
  BY <1>2 DEF Guarded, L
<1>4. Comes(p, d)
  BY <1>1, <1>2, <1>3 DEF Comes, L, c
<1> QED
  BY <1>4

(* A decided move: p writes it or lands, with the locks it has.            *)
LEMMA DueComes ==
  ASSUME Typed, NEW p \in Procs, NEW m \in Moves, Due(p, m), m.next = proc[p].seen => m.effect \in {"none", "land"},
         \/ proc[p].job = "pass"
         \/ /\ proc[p].seen.phase = "merging" => TaskLock(proc[p].task) \in proc[p].locks
            /\ m.effect = "send" /\ m.next.phase = "merging" => proc[p].seen.phase = "merging"
  PROVE  \E d : Comes(p, d)
<1> DEFINE c == proc[p]
           x == IF Changed(c.seen, m) THEN "write" ELSE m.effect
           d == [c EXCEPT !.move = m, !.live = "unknown", !.pc = x]
<1>1. c \in Calls
  BY DEF Typed, Local
<1>2. CASE ~Acts(c.seen, m)
  BY <1>2, EndComes DEF Due
<1>3. CASE Acts(c.seen, m)
  <2>1. proc' = [proc EXCEPT ![p] = d]
    BY <1>3 DEF Due, Become
  <2>2. x \in {"write", "land"}
    BY <1>3 DEF Changed, Acts
  <2>a. c = proc[p]
    OBVIOUS
  <2> HIDE DEF x, c
  <2>3. d.pc = x /\ d.task = c.task /\ d.seen = c.seen /\ d.move = m /\ d.job = c.job /\ d.locks = c.locks
    BY <1>1 DEF Calls
  <2> HIDE DEF d
  <2>4. Guarded(d)
    BY <2>2, <2>3, <2>a DEF Guarded
  <2>5. Comes(p, d)
    BY <2>1, <2>2, <2>3, <2>4, <2>a DEF Comes
  <2> QED
    BY <2>5
<1> QED
  BY <1>2, <1>3

(* p failed: it writes that the task needs its user.                       *)
LEMMA FailComes ==
  ASSUME Typed, NEW p \in Procs, NEW s \in Steps, Fail(p, s),
         proc[p].job # "pass" /\ proc[p].seen.phase = "merging" => TaskLock(proc[p].task) \in proc[p].locks
  PROVE  \E d : Comes(p, d)
<1> DEFINE c == proc[p]
           m == NeedsYou(c.seen, s)
           d == [c EXCEPT !.pc = "write", !.move = m]
<1>1. c \in Calls /\ c = proc[p]
  BY DEF Typed, Local
<1>2. proc' = [proc EXCEPT ![p] = d]
  BY DEF Fail, Become
<1>3. m.effect = "none"
  BY DEF NeedsYou, Stay, Move
<1> HIDE DEF c, m
<1>4. d.pc = "write" /\ d.task = c.task /\ d.seen = c.seen /\ d.move = m /\ d.job = c.job /\ d.locks = c.locks
  BY <1>1 DEF Calls
<1> HIDE DEF d
<1>5. Comes(p, d)
  BY <1>1, <1>2, <1>3, <1>4 DEF Comes, Guarded
<1> QED
  BY <1>5

---------------------------------------------------------------------------
(* Each action comes to a point like that.                                 *)
LEMMA PassComes ==
  ASSUME Typed, NEW p \in Procs, Guarded(proc[p]),
         \/ \E t \in Tasks : List(p, t) \/ Show(p, t) \/ Stopped(p, t)
         \/ StoppedLate(p) \/ Look(p) \/ Decide(p)
  PROVE  \E d : Comes(p, d)
<1> DEFINE c == proc[p]
<1>0. c \in Calls /\ c.job \in Jobs /\ c.at \in Nat /\ ver \in [Tasks -> Nat]
  BY CallFacts DEF Typed, Local
<1>1. ASSUME NEW t \in Tasks, List(p, t) PROVE \E d : Comes(p, d)
  <2>1. PICK x \in {"look", "decide"} : proc' = [proc EXCEPT ![p] = ReadAt(t, x, "pass", c.at)]
    BY <1>1 DEF List, Become, ReadAt
  <2>2. x \in Pcs /\ "pass" \in Jobs
    BY DEF Pcs, Jobs
  <2> QED
    BY <1>0, <2>1, <2>2, ReadsComes
<1>2. ASSUME NEW t \in Tasks, Show(p, t) PROVE \E d : Comes(p, d)
  <2>1. proc' = [proc EXCEPT ![p] = ReadNow(t, "look", "show")]
    BY <1>2 DEF Show, Become, ReadNow
  <2>2. "look" \in Pcs /\ "show" \in Jobs
    BY DEF Pcs, Jobs
  <2> QED
    BY <1>0, <2>1, <2>2, ReadsComes
<1>3. ASSUME NEW t \in Tasks, Stopped(p, t) PROVE \E d : Comes(p, d)
  <2> DEFINE i == Idle
             n == ver[t]
             d == [i EXCEPT !.pc = "stopped", !.task = t, !.at = n]
  <2>1. proc' = [proc EXCEPT ![p] = d]
    BY <1>3 DEF Stopped, Become
  <2>2. i \in Calls /\ i.locks = {}
    BY IdleFacts
  <2> HIDE DEF i, n
  <2>3. d.pc = "stopped" /\ d.locks = {}
    BY <2>2 DEF Calls
  <2> HIDE DEF d
  <2>4. Comes(p, d)
    BY <2>1, <2>3, PlainComes DEF Plain
  <2> QED
    BY <2>4
<1>4. CASE StoppedLate(p)
  BY <1>4, EndComes DEF StoppedLate
<1>5. CASE Look(p)
  <2> DEFINE x == IF c.job = "show" THEN "clear" ELSE "decide"
             live == session[c.task]
  <2>1. c.pc = "look" /\ \/ proc' = [proc EXCEPT ![p] = [c EXCEPT !.pc = x, !.live = live]]
                         \/ proc' = [proc EXCEPT ![p] = [c EXCEPT !.pc = x]]
    BY <1>5 DEF Look, At, Become
  <2>2. x = "clear" \/ (x = "decide" /\ c.job = "pass")
    BY <2>1 DEF Guarded
  <2> HIDE DEF c, x, live
  <2>3. PICK d : proc' = [proc EXCEPT ![p] = d] /\ d.pc = x /\ d.job = c.job /\ d.locks = c.locks
    <3>1. CASE proc' = [proc EXCEPT ![p] = [c EXCEPT !.pc = x, !.live = live]]
      <4> DEFINE d == [c EXCEPT !.pc = x, !.live = live]
      <4>1. d.pc = x /\ d.job = c.job /\ d.locks = c.locks
        BY <1>0 DEF Calls
      <4> QED
        BY <3>1, <4>1
    <3>2. CASE proc' = [proc EXCEPT ![p] = [c EXCEPT !.pc = x]]
      <4> DEFINE d == [c EXCEPT !.pc = x]
      <4>1. d.pc = x /\ d.job = c.job /\ d.locks = c.locks
        BY <1>0 DEF Calls
      <4> QED
        BY <3>2, <4>1
    <3> QED
      BY <2>1, <3>1, <3>2
  <2>4. Comes(p, d)
    BY <2>2, <2>3 DEF Comes, Guarded, c
  <2> QED
    BY <2>4
<1>6. CASE Decide(p)
  <2>1. c.job = "pass" /\ c.pc = "decide"
    BY <1>6 DEF Decide, At, Guarded
  <2>2. PICK patient \in BOOLEAN : Due(p, NextMove(c.seen, Observation(p, patient)))
    BY <1>6 DEF Decide
  <2> DEFINE o == Observation(p, patient)
             m == NextMove(c.seen, o)
  <2>3. o.verdict = NoVerdict \/ Given(o.verdict)
    <3>1. o.verdict = IF c.seen.phase = "checking" THEN VerdictOf(c.task, c.seen, c.ver) ELSE NoVerdict
      BY DEF Observation
    <3> QED
      BY <3>1, VerdictFacts
  <2> HIDE DEF o
  <2>4. m \in Moves /\ (m.next = c.seen => m.effect \in {"none", "land"})
    BY <1>0, <2>3, NextDecided, CallFacts DEF Decided
  <2> HIDE DEF m
  <2>5. Due(p, m)
    BY <2>2 DEF m, o
  <2> QED
    BY <2>1, <2>4, <2>5, DueComes
<1> QED
  BY <1>1, <1>2, <1>3, <1>4, <1>5, <1>6

(* What is stored is merging again only by who took it there, or first.    *)
LEMMA WriteComes == ASSUME Typed, NEW p \in Procs, Guarded(proc[p]), Write(p) PROVE \E d : Comes(p, d)
<1> DEFINE c == proc[p]
           t == c.task
           m == c.move
<1>0. c \in Calls /\ Local(c) /\ c.pc = "write" /\ t \in Tasks /\ Sound(c.seen, m) /\ m \in Moves
  BY DEF Typed, Local, Write, At, Sound
<1>1. CASE End(p)
  BY <1>1, EndComes
<1>2. CASE ~End(p)
  <2> DEFINE r == row'[t]
             v == ver'[t]
             i == Idle
             none == i.move
             x == m.effect
             d == [c EXCEPT !.pc = x, !.seen = r, !.ver = v, !.move = none]
  <2>1. proc' = [proc EXCEPT ![p] = d] /\ Transition(t, m.next) /\ Wins(p)
    BY <1>2 DEF Write, Become
  <2>2. r.phase = m.next.phase /\ row[t].phase = c.seen.phase
    <3>1. row \in [Tasks -> Rows(Tasks)] /\ m.next \in Rows(Tasks)
      BY <1>0 DEF Typed, Moves
    <3> DEFINE n == m.next
               b == row[t].session
               h == row[t].hold
    <3>2. row' = [row EXCEPT ![t] = [n EXCEPT !.session = b, !.hold = h]]
      BY <2>1 DEF Transition
    <3> HIDE DEF n, b, h
    <3>3. r = [n EXCEPT !.session = b, !.hold = h]
      BY <1>0, <3>1, <3>2
    <3>4. n \in Rows(Tasks)
      BY <3>1 DEF n
    <3>5. r.phase = n.phase
      BY <3>3, <3>4 DEF Rows
    <3> QED
      BY <2>1, <3>5 DEF n, Wins, Same
  <2>3. x \in Effects
    BY <1>0 DEF Moves
  <2>4. x # "none"
    BY <1>2, <2>1 DEF Write
  <2>a. c = proc[p]
    OBVIOUS
  <2>5. c.job # "pass" /\ x = "send" /\ r.phase = "merging" => TaskLock(t) \in c.locks
    <3>1. Guarded(c)
      OBVIOUS
    <3> QED
      BY <1>0, <2>2, <3>1 DEF Guarded
  <2>6. d.pc = x /\ d.task = t /\ d.seen = r /\ d.job = c.job /\ d.locks = c.locks
    <3> HIDE DEF r, v, x, none, c
    <3> QED
      BY <1>0 DEF Calls
  <2> HIDE DEF d, r, v, x, none, c
  <2>7. Guarded(d)
    BY <2>3, <2>4, <2>5, <2>6 DEF Guarded, Effects
  <2>8. Comes(p, d)
    BY <2>1, <2>3, <2>6, <2>7, <2>a DEF Comes, Effects
  <2> QED
    BY <2>8
<1> QED
  BY <1>1, <1>2

LEMMA StartComes ==
  ASSUME Typed, NEW p \in Procs, Guarded(proc[p]),
         SpawnCheck(p) \/ Send(p) \/ StartQueued(p) \/ Starting(p) \/ Record(p) \/ Land(p)
  PROVE  \E d : Comes(p, d)
<1>0. Local(proc[p])
  BY DEF Typed
<1>1. CASE SpawnCheck(p)
  <2>1. proc[p].seen.phase = "checking" /\ "check" \in Steps
    BY <1>0, <1>1, Words DEF SpawnCheck, At, Local
  <2>2. End(p) \/ Fail(p, "check")
    BY <1>1 DEF SpawnCheck
  <2> QED
    BY <2>1, <2>2, EndComes, FailComes
<1>2. CASE Send(p)
  <2>1. "" \in Steps /\ (proc[p].job # "pass" /\ proc[p].seen.phase = "merging" => TaskLock(proc[p].task) \in proc[p].locks)
    BY <1>2, Words DEF Send, At, Guarded
  <2>2. End(p) \/ Fail(p, "")
    BY <1>2 DEF Send
  <2> QED
    BY <2>1, <2>2, EndComes, FailComes
<1>3. CASE StartQueued(p)
  <2>1. proc[p].task \in Tasks
    BY <1>0, <1>3 DEF StartQueued, At, Local
  <2>2. Claim(p, "starting") \/ End(p)
    BY <1>3 DEF StartQueued, Missed
  <2> QED
    BY <2>1, <2>2, EndComes, ClaimComes
<1>4. CASE Starting(p)
  <2>1. TaskLock(proc[p].task) \in proc[p].locks /\ "record" \in Pcs /\ "waiting" \in Steps
    BY <1>4, Words DEF Starting, At, Guarded, Pcs
  <2>2. Become(p, [proc[p] EXCEPT !.pc = "record"]) \/ Fail(p, "waiting")
    BY <1>4 DEF Starting
  <2> QED
    BY <2>1, <2>2, GoesComes, FailComes
<1>5. CASE Record(p)
  BY <1>5, EndComes DEF Record
<1>6. CASE Land(p)
  <2>1. proc[p].task \in Tasks
    BY <1>0, <1>6 DEF Land, At, Local
  <2>2. End(p) \/ (Claim(p, "landing") /\ row[proc[p].task].phase = "merging" /\ UNCHANGED row)
    BY <1>6 DEF Land, Missed
  <2> QED
    BY <2>1, <2>2, EndComes, ClaimComes
<1> QED
  BY <1>1, <1>2, <1>3, <1>4, <1>5, <1>6

(* p landed: it goes on to clean what it leaves.                           *)
LEMMA LandedComes ==
  ASSUME Typed, NEW p \in Procs, NEW x \in {"clean", "remove"}, NEW m,
         Become(p, [proc[p] EXCEPT !.pc = x, !.move = m]), TaskLock(proc[p].task) \in proc[p].locks
  PROVE  \E d : Comes(p, d)
<1> DEFINE c == proc[p]
           d == [c EXCEPT !.pc = x, !.move = m]
<1>1. c \in Calls /\ c = proc[p]
  BY DEF Typed, Local
<1>2. proc' = [proc EXCEPT ![p] = d]
  BY DEF Become
<1> HIDE DEF c
<1>3. d.pc = x /\ d.task = c.task /\ d.locks = c.locks
  BY <1>1 DEF Calls
<1> HIDE DEF d
<1>4. Comes(p, d)
  BY <1>1, <1>2, <1>3 DEF Comes, Guarded
<1> QED
  BY <1>4

LEMMA LandingComes ==
  ASSUME Typed, NEW p \in Procs, Guarded(proc[p]), Landing(p) \/ Clean(p) \/ Remove(p)
  PROVE  \E d : Comes(p, d)
<1> DEFINE c == proc[p]
<1>0. c \in Calls /\ Local(c) /\ TaskLock(c.task) \in c.locks /\ c.pc \in {"landing", "clean", "remove"}
  BY DEF Typed, Local, Landing, Clean, Remove, At, Guarded
<1>1. ASSUME NEW l \in {"problem", "conflict"}, c.seen.phase = "merging", Due(p, LandMove(p, l)) PROVE \E d : Comes(p, d)
  <2> DEFINE m == LandMove(p, l)
  <2>1. m \in Moves /\ (m.next = c.seen => m.effect \in {"none", "land"})
    BY <1>1, LandMoveFacts
  <2> HIDE DEF m
  <2>2. Due(p, m)
    BY <1>1 DEF m
  <2> QED
    BY <1>0, <1>1, <2>1, <2>2, DueComes
<1>2. CASE Landing(p)
  <2>1. c.seen.phase = "merging"
    BY <1>0, <1>2 DEF Landing, At, Local
  <2>2. \/ \E l \in {"problem", "conflict"} : Due(p, LandMove(p, l))
        \/ \E x \in {"clean", "remove"} : Become(p, [proc[p] EXCEPT !.pc = x, !.move = LandMove(p, "done")])
    BY <1>2 DEF Landing
  <2> QED
    BY <1>0, <1>1, <2>1, <2>2, LandedComes
<1>3. CASE Clean(p)
  <2>1. c.job = "landing" => c.seen.phase = "merging"
    BY <1>0, <1>3 DEF Clean, At, Local
  <2>2. \/ Become(p, [proc[p] EXCEPT !.pc = "remove"])
        \/ IF c.job = "landing" THEN Due(p, LandMove(p, "problem")) ELSE End(p)
    BY <1>3 DEF Clean
  <2>3. "remove" \in Pcs
    BY DEF Pcs
  <2> QED
    BY <1>0, <1>1, <2>1, <2>2, <2>3, GoesComes, EndComes
<1>4. CASE Remove(p)
  <2> DEFINE d == [c EXCEPT !.pc = "write"]
  <2>1. End(p) \/ proc' = [proc EXCEPT ![p] = d]
    BY <1>4 DEF Remove, Become
  <2>2. CASE proc' = [proc EXCEPT ![p] = d]
    <3>1. c.move = Idle.move \/ c.move.effect = "none"
      BY <1>0, <1>4 DEF Local, Remove, At
    <3>2. c.move.effect = "none"
      BY <3>1, IdleFacts
    <3>a. c = proc[p]
      OBVIOUS
    <3> HIDE DEF c
    <3>3. d.pc = "write" /\ d.task = c.task /\ d.locks = c.locks /\ d.move = c.move
      BY <1>0 DEF Calls
    <3> HIDE DEF d
    <3>4. Comes(p, d)
      BY <1>0, <2>2, <3>2, <3>3, <3>a DEF Comes, Guarded
    <3> QED
      BY <3>4
  <2> QED
    BY <2>1, <2>2, EndComes
<1> QED
  BY <1>2, <1>3, <1>4

(* Of a check come a fix round, a landing or its end.                      *)
LEMMA VerdictSends ==
  ASSUME NEW r \in Rows(Tasks), r.phase = "checking", NEW o, NextMove(r, o).effect = "send", o.verdict = NoVerdict \/ Given(o.verdict)
  PROVE  NextMove(r, o).next.phase = "fixing"
<1> DEFINE v == o.verdict
           n == Judged(r, v)
           u == To(n, "fixing", "")
           k == r.round + 1
           w == [u EXCEPT !.round = k]
<1>1. NextMove(r, o) = NextChecking(r, o)
  BY DEF NextMove
<1>2. NextChecking(r, o) = VerdictMove(r, v, o) /\ v # NoVerdict
  BY <1>1 DEF NextChecking, Stay, Move, NeedsYou
<1>3. VerdictMove(r, v, o) = Move(w, "send")
  <2>1. VerdictMove(r, v, o) \in {NeedsYou(n, "check"), Move(To(n, "merging", ""), "land"), Stay(To(n, "ready", "")),
                                  NeedsYou(n, "round"), Move(w, "send")}
    BY DEF VerdictMove, Judged
  <2>2. VerdictMove(r, v, o).effect = "send"
    BY <1>1, <1>2
  <2>3. \A a, e : Move(a, e).effect = e
    BY DEF Move
  <2> HIDE DEF n, w
  <2>4. /\ NeedsYou(n, "check").effect = "none" /\ NeedsYou(n, "round").effect = "none"
        /\ Stay(To(n, "ready", "")).effect = "none" /\ Move(To(n, "merging", ""), "land").effect = "land"
    BY <2>3 DEF NeedsYou, Stay
  <2> QED
    BY <2>1, <2>2, <2>4
<1>4. n \in Rows(Tasks)
  <2> HIDE DEF n
  <2>1. v.kind \in {"pass", "fail", "error"} /\ v.count \in Nat
    BY <1>2 DEF Given
  <2> HIDE DEF v
  <2> QED
    BY <2>1, HistoryFacts DEF n
<1> HIDE DEF n
<1>5. u.phase = "fixing" /\ u \in Rows(Tasks)
  <2>1. "fixing" \in Phases /\ "" \in Steps
    BY Words
  <2> QED
    BY <1>4, <2>1, ToFacts
<1>6. k \in Nat
  BY RowFacts
<1> HIDE DEF u, k
<1>7. w.phase = "fixing"
  BY <1>5, <1>6, RoundFacts
<1> HIDE DEF w
<1> QED
  BY <1>1, <1>2, <1>3, <1>7 DEF Move

LEMMA CheckComes ==
  ASSUME Typed, NEW p \in Procs, Guarded(proc[p]),
         CheckClaim(p) \/ CheckRun(p) \/ CheckApply(p)
  PROVE  \E d : Comes(p, d)
<1> DEFINE c == proc[p]
           t == c.task
<1>0. c \in Calls /\ Local(c) /\ c.seen \in Rows(Tasks)
  BY CallFacts DEF Typed, Local
<1>1. CASE CheckClaim(p)
  <2> DEFINE l == CheckLock(t, c.seen.round)
             r == row[t]
             v == ver[t]
             e == [c EXCEPT !.seen = r, !.ver = v, !.locks = {l}]
  <2>1. \/ End(p)
        \/ \E x \in {"checkRun", "checkApply"} : ~Held(l) /\ proc' = [proc EXCEPT ![p] = [e EXCEPT !.pc = x]]
    BY <1>1 DEF CheckClaim, Become, CanTake
  <2>2. ASSUME NEW x \in {"checkRun", "checkApply"}, ~Held(l), proc' = [proc EXCEPT ![p] = [e EXCEPT !.pc = x]]
        PROVE  \E d : Comes(p, d)
    <3> DEFINE d == [e EXCEPT !.pc = x]
    <3>1. row[t] \in Rows(Tasks) /\ ver[t] \in Nat
      BY <1>0, <1>1 DEF Typed, Local, CheckClaim, At
    <3>2. l \in Locks
      <4>1. t \in Tasks /\ c.seen.round \in Nat
        BY <1>0, <1>1, RowFacts DEF Local, CheckClaim, At
      <4> QED
        BY <4>1, TasksAssumption DEF CheckLock, Locks
    <3> HIDE DEF c, l, r, v
    <3>3. e \in Calls /\ e.locks = {l}
      BY <1>0, <3>1, <3>2 DEF Calls, r, v
    <3> HIDE DEF e
    <3>4. d.pc = x /\ d.locks = {l}
      BY <3>3 DEF Calls
    <3> HIDE DEF d
    <3>5. Comes(p, d)
      BY <2>2, <3>4, PlainComes DEF Plain, d
    <3> QED
      BY <3>5
  <2> QED
    BY <2>1, <2>2, EndComes
<1>2. CASE CheckRun(p)
  <2>1. Become(p, [proc[p] EXCEPT !.pc = "checkApply"]) /\ "checkApply" \in Pcs
    BY <1>2 DEF CheckRun, Pcs
  <2> QED
    BY <2>1, GoesComes
<1>3. CASE CheckApply(p)
  <2> DEFINE v == VerdictOf(t, c.seen, c.ver)
             k == Dependents(t)
             o == [NoObs EXCEPT !.verdict = v, !.dependents = k]
             m == NextMove(c.seen, o)
  <2>1. Due(p, m) /\ c.seen.phase = "checking"
    BY <1>0, <1>3 DEF CheckApply, At, Local
  <2>2. v = NoVerdict \/ Given(v)
    BY VerdictFacts
  <2>3. o.verdict = v
    <3> HIDE DEF v, k
    <3> QED
      BY DEF NoObs
  <2> HIDE DEF o, v
  <2>4. m \in Moves /\ (m.next = c.seen => m.effect \in {"none", "land"})
    BY <1>0, <2>2, <2>3, NextDecided DEF Decided
  <2>5. m.effect = "send" => m.next.phase = "fixing"
    BY <1>0, <2>1, <2>2, <2>3, VerdictSends
  <2> HIDE DEF m
  <2> QED
    BY <2>1, <2>4, <2>5, DueComes
<1> QED
  BY <1>1, <1>2, <1>3

LEMMA LaunchComes ==
  ASSUME Typed, NEW p \in Procs, Guarded(proc[p]),
         \/ \E a \in left.launches : Parse(p, a)
         \/ Insert(p) \/ Queue(p) \/ LaunchLock(p) \/ LaunchStart(p) \/ Delete(p)
  PROVE  \E d : Comes(p, d)
<1> DEFINE c == proc[p]
<1>0. c \in Calls /\ c = proc[p] /\ Local(c)
  BY DEF Typed, Local
<1>1. ASSUME NEW a \in left.launches, Parse(p, a) PROVE \E d : Comes(p, d)
  <2> DEFINE i == Idle
             r == [NoRow EXCEPT !.max = Rounds, !.after = a.after, !.check = a.check,
                                !.merge = a.merge, !.hold = a.hold, !.inPlace = a.inPlace]
             d == [i EXCEPT !.pc = "insert", !.job = "launch", !.seen = r]
  <2>1. proc' = [proc EXCEPT ![p] = d]
    BY <1>1 DEF Parse, Become
  <2>2. i \in Calls /\ i.locks = {}
    BY IdleFacts
  <2> HIDE DEF i, r
  <2>3. d.pc = "insert" /\ d.locks = {}
    BY <2>2 DEF Calls
  <2> HIDE DEF d
  <2>4. Comes(p, d)
    BY <2>1, <2>3, PlainComes DEF Plain
  <2> QED
    BY <2>4
<1>2. CASE Insert(p)
  <2>1. PICK t \in Tasks, x \in {"launchLock", "queue"}, n \in {"running", "waiting"} :
          row[t].phase = "absent" /\ proc' = [proc EXCEPT ![p] =
                    [[c EXCEPT !.task = t, !.seen = [c.seen EXCEPT !.phase = n], !.ver = ver[t] + 1] EXCEPT !.pc = x]]
    <3>1. PICK t \in Tasks : IsNextId(t) /\
            LET r == c.seen
                ready == \A u \in r.after : row[u].phase = "done"
                new == [r EXCEPT !.phase = IF ready THEN "running" ELSE "waiting"]
                inserted == [c EXCEPT !.task = t, !.seen = new, !.ver = ver[t] + 1]
            IN  proc' = [proc EXCEPT ![p] = [inserted EXCEPT !.pc = IF ready THEN "launchLock" ELSE "queue"]]
      BY <1>2 DEF Insert, Become
    <3>2. row[t].phase = "absent"
      BY <3>1, TasksAssumption DEF IsNextId
    <3> QED
      BY <3>1, <3>2
  <2> DEFINE r == [c.seen EXCEPT !.phase = n]
             v == ver[t] + 1
             e == [c EXCEPT !.task = t, !.seen = r, !.ver = v]
             d == [e EXCEPT !.pc = x]
  <2>2. r \in Rows(Tasks) /\ v \in Nat
    <3>1. c.seen \in Rows(Tasks) /\ n \in Phases
      BY <1>0, CallFacts, Words
    <3>2. v \in Nat
      BY DEF Typed
    <3> HIDE DEF c, v
    <3>3. r \in Rows(Tasks)
      BY <3>1 DEF Rows
    <3> QED
      BY <3>2, <3>3
  <2>3. proc' = [proc EXCEPT ![p] = d]
    BY <2>1
  <2> HIDE DEF c, r, v
  <2>4. e \in Calls /\ e.locks = c.locks /\ e.task = t
    BY <1>0, <2>2 DEF Calls
  <2> HIDE DEF e
  <2>5. d.pc = x /\ d.locks = c.locks /\ d.task = t
    BY <2>4 DEF Calls
  <2> HIDE DEF d
  <2>6. Comes(p, d)
    BY <1>0, <2>1, <2>3, <2>5 DEF Comes, Guarded
  <2> QED
    BY <2>6
<1>3. CASE Queue(p)
  <2>1. "delete" \in Pcs /\ (End(p) \/ Become(p, [proc[p] EXCEPT !.pc = "delete"]))
    BY <1>3 DEF Queue, Pcs
  <2> QED
    BY <2>1, EndComes, GoesComes
<1>4. ASSUME NEW x \in {"launchStart", "delete"}, NEW L \in SUBSET Locks, \A l \in L : ~Held(l),
             x = "launchStart" => c.pc = "launchLock",
             proc' = [proc EXCEPT ![p] = [c EXCEPT !.pc = x, !.locks = L]]
      PROVE  \E d : Comes(p, d)
  <2> DEFINE d == [c EXCEPT !.pc = x, !.locks = L]
  <2>1. d.pc = x /\ d.locks = L /\ d.task = c.task
    <3> HIDE DEF c
    <3> QED
      BY <1>0 DEF Calls
  <2>2. proc' = [proc EXCEPT ![p] = d]
    BY <1>4
  <2> HIDE DEF d
  <2>3. Comes(p, d)
    BY <1>4, <2>1, <2>2 DEF Comes, Guarded
  <2> QED
    BY <2>3
<1>5. CASE LaunchLock(p)
  <2>0. c.pc = "launchLock"
    BY <1>5 DEF LaunchLock, At
  <2>1. TaskLock(c.task) \in Locks /\ "launchStart" \in Pcs
    <3>1. c.task \in Tasks
      BY <1>0, <1>5 DEF LaunchLock, At, Local
    <3> QED
      BY <3>1, TasksAssumption DEF TaskLock, Locks, Pcs
  <2>2. \/ ~Held(TaskLock(c.task)) /\ proc' = [proc EXCEPT ![p] = [c EXCEPT !.pc = "launchStart", !.locks = {TaskLock(c.task)}]]
        \/ Become(p, [proc[p] EXCEPT !.pc = "launchStart"])
    BY <1>5 DEF LaunchLock, CanTake, Become
  <2>3. CASE ~Held(TaskLock(c.task)) /\ proc' = [proc EXCEPT ![p] = [c EXCEPT !.pc = "launchStart", !.locks = {TaskLock(c.task)}]]
    <3> DEFINE L == {TaskLock(c.task)}
    <3>1. L \in SUBSET Locks /\ \A l \in L : ~Held(l)
      BY <2>1, <2>3
    <3>2. proc' = [proc EXCEPT ![p] = [c EXCEPT !.pc = "launchStart", !.locks = L]]
      BY <2>3
    <3> HIDE DEF L, c
    <3> QED
      BY <1>4, <2>0, <3>1, <3>2
  <2> QED
    BY <2>0, <2>1, <2>2, <2>3, GoesComes
<1>6. CASE LaunchStart(p)
  <2>1. \/ Become(p, [proc[p] EXCEPT !.pc = "record"])
        \/ proc' = [proc EXCEPT ![p] = [c EXCEPT !.pc = "delete", !.locks = {}]]
    BY <1>6 DEF LaunchStart, Become
  <2>2. "record" \in Pcs
    BY DEF Pcs
  <2> QED
    BY <1>4, <2>1, <2>2, GoesComes
<1>7. CASE Delete(p)
  BY <1>7, EndComes DEF Delete
<1> QED
  BY <1>1, <1>2, <1>3, <1>5, <1>6, <1>7

(* A row that is to be cancelled is written with the locks p has by then.  *)
LEMMA CancelledComes ==
  ASSUME Typed, NEW p \in Procs, NEW d, proc' = [proc EXCEPT ![p] = d], d.pc \in {"write", "clean"},
         d.move.effect = "none", TaskLock(d.task) \in d.locks,
         \A l \in d.locks : l \in proc[p].locks \/ ~Held(l)
  PROVE  Comes(p, d)
BY DEF Comes, Guarded

LEMMA CancelsMove == ASSUME NEW r PROVE Stay(To(r, "cancelled", "")).effect = "none"
BY DEF Stay, Move

LEMMA CommandComes ==
  ASSUME Typed, NEW p \in Procs, Guarded(proc[p]),
         \/ \E t \in Tasks, kind \in Commands : Command(p, t, kind)
         \/ Retry(p) \/ SetHold(p) \/ Finish(p) \/ Finishing(p)
  PROVE  \E d : Comes(p, d)
<1> DEFINE c == proc[p]
<1>0. c \in Calls /\ c = proc[p] /\ Local(c) /\ c.seen \in Rows(Tasks)
  BY CallFacts DEF Typed, Local
<1>1. ASSUME NEW t \in Tasks, NEW kind \in Commands, Command(p, t, kind) PROVE \E d : Comes(p, d)
  <2> DEFINE x == IF kind = "discard" /\ Listed(t) THEN "cancel" ELSE kind
  <2>1. proc' = [proc EXCEPT ![p] = ReadNow(t, x, kind)]
    BY <1>1 DEF Command, Become, ReadNow
  <2>2. x \in Plain /\ x \in Pcs /\ kind \in Jobs /\ 0 \in Nat
    BY DEF Commands, Plain, Pcs, Jobs
  <2> HIDE DEF x
  <2> QED
    BY <2>1, <2>2, ReadsComes
<1>2. CASE Retry(p)
  <2> DEFINE r == c.seen
             m == RetryMove(r)
  <2>1. Resumable(r) /\ r \in Rows(Tasks) /\ Due(p, m)
    BY <1>0, <1>2 DEF Retry, At, Local
  <2>2. m.next # r /\ m \in Moves
    BY <2>1, RetrySound DEF Sound
  <2>3. r.phase = "needs_you"
    BY <2>1 DEF Resumable
  <2>4. m.effect = "send" => m.next.phase = "fixing"
    <3> DEFINE u == To(r, "fixing", "")
               a == r.max + 1
               b == r.round + 1
               n == [u EXCEPT !.max = a, !.round = b]
    <3>1. u \in Rows(Tasks) /\ u.phase = "fixing" /\ a \in Nat /\ b \in Nat
      <4>1. "fixing" \in Phases /\ "" \in Steps
        BY Words
      <4>2. r.max \in Nat /\ r.round \in Nat
        BY <2>1, RowFacts
      <4> HIDE DEF r
      <4>3. u \in Rows(Tasks) /\ u.phase = "fixing"
        BY <2>1, <4>1, ToFacts
      <4> HIDE DEF u
      <4> QED
        BY <4>2, <4>3
    <3>2. m.effect = "send" => m = Move(n, "send")
      BY <2>1 DEF RetryMove, Stay, Move, Resumable
    <3> HIDE DEF m, u, a, b
    <3>3. n.phase = "fixing"
      BY <3>1 DEF Rows
    <3> HIDE DEF n
    <3> QED
      BY <3>2, <3>3 DEF Move
  <2> HIDE DEF m
  <2> QED
    BY <2>1, <2>2, <2>3, <2>4, DueComes
<1>3. CASE SetHold(p)
  BY <1>3, EndComes DEF SetHold
<1>4. CASE Finish(p)
  <2>1. c.task \in Tasks /\ (Claim(p, "finishing") \/ End(p))
    BY <1>0, <1>4 DEF Finish, At, Local, Missed
  <2> QED
    BY <2>1, EndComes, ClaimComes
<1>5. CASE Finishing(p)
  <2>1. TaskLock(c.task) \in c.locks
    BY <1>5 DEF Finishing, At, Guarded
  <2>2. \/ End(p)
        \/ \E x \in {"clean", "remove"} : \E m : Become(p, [proc[p] EXCEPT !.pc = x, !.move = m])
    BY <1>5 DEF Finishing
  <2> QED
    BY <2>1, <2>2, EndComes, LandedComes
<1> QED
  BY <1>1, <1>2, <1>3, <1>4, <1>5

LEMMA CancelComes ==
  ASSUME Typed, NEW p \in Procs, Guarded(proc[p]),
         Cancel(p) \/ CancelStop(p) \/ Cancelling(p) \/ Discard(p) \/ Discarding(p) \/ ClearGone(p)
  PROVE  \E d : Comes(p, d)
<1> DEFINE c == proc[p]
           t == c.task
           L == {TaskLock(t)}
           m == Stay(To(c.seen, "cancelled", ""))
           e == [c EXCEPT !.move = m, !.pc = "write"]
<1>0. c \in Calls /\ c = proc[p] /\ Local(c) /\ m.effect = "none"
  BY CancelsMove DEF Typed, Local
<1>1. e = Cancelled(p)
  BY DEF Cancelled
<1>a. c.seen.phase \in Unfinished /\ c.seen \in Rows(Tasks) => m \in Moves
  <2> HAVE c.seen.phase \in Unfinished /\ c.seen \in Rows(Tasks)
  <2>1. "cancelled" \in Phases /\ "" \in Steps /\ "none" \in Effects
    BY Words
  <2> DEFINE u == To(c.seen, "cancelled", "")
  <2>2. u \in Rows(Tasks)
    BY <2>1, ToFacts
  <2> HIDE DEF u
  <2> QED
    BY <2>1, <2>2 DEF Stay, Move, Moves, u
<1>b. c.task \in Tasks => L \in SUBSET Locks
  <2>1. c.task \in Tasks => TaskLock(c.task) \in Locks
    BY TasksAssumption DEF TaskLock, Locks
  <2> HIDE DEF c
  <2> QED
    BY <2>1
<1>2. CASE Cancel(p)
  <2>0. c.seen.phase \in Unfinished /\ c.seen \in Rows(Tasks) /\ t \in Tasks
    BY <1>0, <1>2, CallFacts DEF Cancel, At, Local, Open
  <2>1. \/ End(p)
        \/ /\ ~Held(TaskLock(t))
           /\ \/ proc' = [proc EXCEPT ![p] = [e EXCEPT !.locks = L]]
              \/ proc' = [proc EXCEPT ![p] = [[c EXCEPT !.pc = "cancelStop"] EXCEPT !.locks = L]]
    BY <1>1, <1>2 DEF Cancel, CanTake, Missed
  <2>2. ASSUME ~Held(TaskLock(t)), proc' = [proc EXCEPT ![p] = [e EXCEPT !.locks = L]] PROVE \E d : Comes(p, d)
    <3> DEFINE d == [e EXCEPT !.locks = L]
    <3>1. m \in Moves /\ L \in SUBSET Locks
      BY <1>a, <1>b, <2>0
    <3>2. L = {TaskLock(t)} /\ t = c.task
      OBVIOUS
    <3> HIDE DEF L, c, m, t
    <3>3. e \in Calls /\ e.pc = "write" /\ e.task = c.task /\ e.move = m
      BY <1>0, <3>1 DEF Calls, Pcs
    <3> HIDE DEF e
    <3>4. d.pc = "write" /\ d.task = t /\ d.move = m /\ d.locks = L
      BY <3>2, <3>3 DEF Calls
    <3>5. Comes(p, d)
      <4> HIDE DEF d
      <4> QED
        BY <1>0, <2>2, <3>2, <3>4, CancelledComes DEF d
    <3> QED
      BY <3>5
  <2>3. ASSUME ~Held(TaskLock(t)), proc' = [proc EXCEPT ![p] = [[c EXCEPT !.pc = "cancelStop"] EXCEPT !.locks = L]]
        PROVE \E d : Comes(p, d)
    <3> DEFINE f == [c EXCEPT !.pc = "cancelStop"]
               d == [f EXCEPT !.locks = L]
    <3>1. L = {TaskLock(t)} /\ t = c.task
      OBVIOUS
    <3> HIDE DEF L, c, t
    <3>2. f \in Calls /\ f.pc = "cancelStop" /\ f.task = c.task
      BY <1>0 DEF Calls, Pcs
    <3> HIDE DEF f
    <3>3. d.pc = "cancelStop" /\ d.task = t /\ d.locks = L
      BY <3>1, <3>2 DEF Calls
    <3>4. proc' = [proc EXCEPT ![p] = d]
      BY <2>3 DEF f
    <3> HIDE DEF d
    <3>5. Comes(p, d)
      BY <2>3, <3>1, <3>3, <3>4 DEF Comes, Guarded
    <3> QED
      BY <3>5
  <2> QED
    BY <2>1, <2>2, <2>3, EndComes
<1>3. CASE CancelStop(p)
  <2>1. TaskLock(proc[p].task) \in proc[p].locks /\ "cancelling" \in Pcs
    BY <1>3 DEF CancelStop, At, Guarded, Pcs
  <2>2. End(p) \/ Become(p, [proc[p] EXCEPT !.pc = "cancelling"])
    BY <1>3 DEF CancelStop
  <2> QED
    BY <2>1, <2>2, EndComes, GoesComes
<1>4. CASE Cancelling(p)
  <2> DEFINE r == row[t]
             v == ver[t]
             n == Stay(To(r, "cancelled", ""))
             f == [c EXCEPT !.seen = r, !.ver = v, !.move = n]
  <2>1. TaskLock(t) \in c.locks /\ t \in Tasks
    BY <1>0, <1>4 DEF Cancelling, At, Guarded, Local
  <2>2. End(p) \/ \E x \in {"write", "clean"} : proc' = [proc EXCEPT ![p] = [f EXCEPT !.pc = x]]
    BY <1>4 DEF Cancelling, Become
  <2>3. ASSUME NEW x \in {"write", "clean"}, proc' = [proc EXCEPT ![p] = [f EXCEPT !.pc = x]] PROVE \E d : Comes(p, d)
    <3> DEFINE d == [f EXCEPT !.pc = x]
    <3>1. r \in Rows(Tasks) /\ v \in Nat /\ n.effect = "none"
      BY <2>1, CancelsMove DEF Typed
    <3>2. n \in Moves
      <4>1. "cancelled" \in Phases /\ "" \in Steps /\ "none" \in Effects
        BY Words
      <4> DEFINE u == To(r, "cancelled", "")
      <4>2. u \in Rows(Tasks)
        BY <3>1, <4>1, ToFacts
      <4> HIDE DEF u, r
      <4> QED
        BY <4>1, <4>2 DEF Stay, Move, Moves, u
    <3>3. t = c.task
      OBVIOUS
    <3> HIDE DEF c, r, v, n, t
    <3>4. f \in Calls /\ f.task = c.task /\ f.locks = c.locks /\ f.move = n
      BY <1>0, <3>1, <3>2 DEF Calls
    <3> HIDE DEF f
    <3>5. d.pc = x /\ d.task = t /\ d.locks = c.locks /\ d.move = n
      BY <3>3, <3>4 DEF Calls
    <3>6. Comes(p, d)
      <4> HIDE DEF d
      <4> QED
        BY <1>0, <2>1, <2>3, <3>1, <3>5, CancelledComes DEF d
    <3> QED
      BY <3>6
  <2> QED
    BY <2>2, <2>3, EndComes
<1>5. CASE Discard(p)
  <2> DEFINE d == [c EXCEPT !.pc = "discarding", !.locks = L]
  <2>1. End(p) \/ (~Held(TaskLock(t)) /\ proc' = [proc EXCEPT ![p] = d])
    BY <1>5 DEF Discard, CanTake, Become, Missed
  <2>2. CASE ~Held(TaskLock(t)) /\ proc' = [proc EXCEPT ![p] = d]
    <3>1. L = {TaskLock(t)} /\ t = c.task
      OBVIOUS
    <3> HIDE DEF c, L, t
    <3>2. d.pc = "discarding" /\ d.task = t /\ d.locks = L
      BY <1>0, <3>1 DEF Calls
    <3> HIDE DEF d
    <3>3. Comes(p, d)
      BY <2>2, <3>1, <3>2 DEF Comes, Guarded
    <3> QED
      BY <3>3
  <2> QED
    BY <2>1, <2>2, EndComes
<1>6. CASE Discarding(p)
  <2>1. TaskLock(proc[p].task) \in proc[p].locks /\ "clean" \in Pcs
    BY <1>6 DEF Discarding, At, Guarded, Pcs
  <2>2. End(p) \/ Become(p, [proc[p] EXCEPT !.pc = "clean"])
    BY <1>6 DEF Discarding
  <2> QED
    BY <2>1, <2>2, EndComes, GoesComes
<1>7. CASE ClearGone(p)
  <2> DEFINE d == [e EXCEPT !.locks = L, !.live = "unknown"]
  <2>0. c.seen.phase \in Unfinished /\ c.seen \in Rows(Tasks) /\ t \in Tasks
    BY <1>0, <1>7, CallFacts DEF ClearGone, At, Local, Open
  <2>1. End(p) \/ (~Held(TaskLock(t)) /\ proc' = [proc EXCEPT ![p] = d])
    BY <1>1, <1>7 DEF ClearGone, CanTake, Become, Missed
  <2>2. CASE ~Held(TaskLock(t)) /\ proc' = [proc EXCEPT ![p] = d]
    <3>1. m \in Moves /\ L \in SUBSET Locks
      BY <1>a, <1>b, <2>0
    <3>2. L = {TaskLock(t)} /\ t = c.task
      OBVIOUS
    <3> HIDE DEF L, c, m, t
    <3>3. e \in Calls /\ e.pc = "write" /\ e.task = c.task /\ e.move = m
      BY <1>0, <3>1 DEF Calls, Pcs
    <3> HIDE DEF e
    <3>4. d.pc = "write" /\ d.task = t /\ d.move = m /\ d.locks = L
      BY <3>2, <3>3 DEF Calls
    <3>5. Comes(p, d)
      <4> HIDE DEF d
      <4> QED
        BY <1>0, <2>2, <3>2, <3>4, CancelledComes DEF d
    <3> QED
      BY <3>5
  <2> QED
    BY <2>1, <2>2, EndComes
<1> QED
  BY <1>2, <1>3, <1>4, <1>5, <1>6, <1>7

(* p does something.                                                       *)
Acting(p) ==
  \/ Pass(p) \/ Effect(p) \/ Checker(p) \/ User(p) \/ Crash(p)
  \/ \E t \in Tasks : Stopped(p, t) \/ Check(p, t)

(* A step is one of these for one process, or nothing that is of them.     *)
LEMMA NextComes ==
  ASSUME Typed, \A p \in Procs : Guarded(proc[p]), [Next]_vars
  PROVE  Quiet \/ \E p \in Procs : Acting(p) /\ Progress(p) /\ \E d : Comes(p, d)
<1>1. ASSUME NEW p \in Procs, Acting(p)
      PROVE  Quiet \/ (Progress(p) /\ \E d : Comes(p, d))
  <2>1. CASE Pass(p)
    BY <2>1, PassStep, PassComes, WriteComes DEF Pass
  <2>2. CASE Effect(p)
    BY <2>2, EffectStep, StartComes, LandingComes DEF Effect
  <2>3. CASE Checker(p)
    BY <2>3, CheckClaimStep, CheckRunStep, CheckApplyStep, CheckComes DEF Checker, Progress
  <2>4. CASE User(p)
    <3>1. CASE \/ \E a \in left.launches : Parse(p, a)
               \/ Insert(p) \/ Queue(p) \/ LaunchLock(p) \/ LaunchStart(p) \/ Delete(p)
      BY <2>4, <3>1, UserStep, LaunchComes
    <3>2. CASE \/ \E t \in Tasks, kind \in {"finish", "cancel", "discard", "hold", "release", "retry"} : Command(p, t, kind)
               \/ Retry(p) \/ SetHold(p) \/ Finish(p) \/ Finishing(p)
      BY <2>4, <3>2, UserStep, CommandComes DEF Commands
    <3>3. CASE Cancel(p) \/ CancelStop(p) \/ Cancelling(p) \/ Discard(p) \/ Discarding(p) \/ ClearGone(p)
      BY <2>4, <3>3, UserStep, CancelComes
    <3> QED
      BY <2>4, <3>1, <3>2, <3>3 DEF User
  <2>5. CASE Crash(p)
    BY <2>5, CrashStep, EndComes DEF Crash, Progress
  <2>6. ASSUME NEW t \in Tasks, Stopped(p, t) PROVE Progress(p) /\ \E d : Comes(p, d)
    BY <2>6, StoppedStep, PassComes DEF Progress
  <2>7. ASSUME NEW t \in Tasks, Check(p, t)
        PROVE  Quiet \/ (Progress(p) /\ \E d : Comes(p, d))
    <3>1. UNCHANGED row /\ (proc' = proc \/ proc' = [proc EXCEPT ![p] = ReadNow(t, "checkLock", "check")])
      BY <2>7 DEF Check, Become, ReadNow
    <3>2. "checkLock" \in Plain /\ "checkLock" \in Pcs /\ "check" \in Jobs /\ 0 \in Nat
      BY DEF Plain, Pcs, Jobs
    <3>3. proc' = proc \/ \E d : Comes(p, d)
      BY <3>1, <3>2, ReadsComes
    <3>4. Step(p) \/ Quiet
      BY <2>7, CheckStep
    <3>5. Step(p) /\ proc' = proc => Quiet
      BY DEF Step, Quiet
    <3> QED
      BY <3>3, <3>4, <3>5 DEF Progress
  <2> QED
    BY <1>1, <2>1, <2>2, <2>3, <2>4, <2>5, <2>6, <2>7 DEF Acting
<1>2. CASE World
  BY <1>2, TurnEndsStep, PicksUpStep, OutsideStep, UserMergesStep, LossStep DEF World
<1>3. CASE UNCHANGED vars
  <2>1. UNCHANGED <<row, ver, proc, left, world>>
    BY <1>3 DEF vars, world
  <2> QED
    BY <2>1, WorldStays, LeftStays DEF Quiet
<1> QED
  BY <1>1, <1>2, <1>3 DEF Next, Acting

LEMMA InitAlone == Init => Alone
<1> HAVE Init
<1>1. \A p \in Procs : proc[p].pc = "idle" /\ proc[p].locks = {}
  BY IdleFacts DEF Init
<1> QED
  BY <1>1 DEF Alone, Guarded

(* The locks stay apart: what p takes was free.                            *)
LEMMA ComesAlone ==
  ASSUME Typed, Alone, NEW p \in Procs, NEW d, Comes(p, d)
  PROVE  /\ \A q \in Procs : Guarded(proc'[q])
         /\ \A q \in Procs : \A u \in Procs \ {q} : \A l \in proc'[q].locks : l \notin proc'[u].locks
<1>1. \A q \in Procs : proc'[q] = IF q = p THEN d ELSE proc[q]
  BY DEF Typed, Comes
<1>2. \A q \in Procs \ {p} : \A l \in d.locks : l \notin proc[q].locks
  BY DEF Comes, Held, Alone
<1>3. \A q \in Procs : Guarded(proc'[q])
  BY <1>1 DEF Alone, Comes
<1> QED
  BY <1>1, <1>2, <1>3 DEF Alone

(* A task without a branch that somebody lands gets none: who starts a     *)
(* queued task holds the lock, and a launch starts its own.                *)
LEMMA BareStays ==
  ASSUME Ordered, Alone, NoneWithdrawn, NEW p \in Procs, Progress(p), NEW d, Comes(p, d),
         NEW t \in Tasks, Bare(t), TaskLock(t) \notin proc[p].locks, row[t].phase # "absent"
  PROVE  Bare(t)'
<1>0. Typed /\ work[t] = "none"
  BY DEF Ordered, Bare
<1>1. \A q \in Procs : proc'[q] = IF q = p THEN d ELSE proc[q]
  BY <1>0 DEF Typed, Comes
<1>2. d.pc \in {"launchLock", "launchStart"} => d.task # t
  BY DEF Comes, Bare
<1>3. work'[t] = "none"
  <2>1. CASE Step(p)
    BY <1>0, <2>1 DEF Step, NothingStarts
  <2>2. CASE Starts(p)
    <3>1. proc[p].task # t
      <4>1. CASE proc[p].pc = "starting"
        BY <4>1 DEF Alone, Guarded
      <4>2. CASE proc[p].pc = "launchStart"
        BY <4>2 DEF Bare
      <4> QED
        BY <2>2, <4>1, <4>2 DEF Starts
    <3> QED
      BY <1>0, <2>2, <3>1 DEF Starts, StartSession, Typed, WorldOK
  <2>3. CASE Wrote(p) \/ Inserts(p)
    BY <1>0, <2>3 DEF Wrote, Inserts, world
  <2>4. CASE Records(p) \/ Holds(p)
    BY <1>0, <2>4, UpdatesFacts
  <2> QED
    BY <2>1, <2>2, <2>3, <2>4 DEF Progress, Deletes, NoneWithdrawn
<1> QED
  BY <1>1, <1>2, <1>3 DEF Bare

(* A task that another process lands stays in merging, or stays bare.      *)
LEMMA MergingStays ==
  ASSUME Ordered, Alone, NoneWithdrawn, NoneGivenUp, NEW p \in Procs, Progress(p), NEW d, Comes(p, d),
         NEW q \in Procs \ {p}, NEW t \in Tasks, proc[q].pc = "landing", proc[q].task = t
  PROVE  row'[t].phase = "merging" \/ Bare(t)'
<1>0. /\ TaskLock(t) \in proc[q].locks /\ Typed /\ Tied(proc[p]) /\ Local(proc[p])
      /\ row \in [Tasks -> Rows(Tasks)]
  BY DEF Ordered, Typed, Local, Alone, Guarded
<1>1. row[t].phase # "absent"
  BY DEF Ordered, Tied, Working, Pcs
<1>2. TaskLock(t) \notin proc[p].locks
  BY <1>0 DEF Alone
<1>3. row[t].phase = "merging" \/ Bare(t)
  BY DEF Alone
<1>4. CASE Bare(t)
  BY <1>0, <1>1, <1>2, <1>4, BareStays
<1>5. CASE row[t].phase = "merging" /\ UNCHANGED row
  BY <1>5
<1>6. CASE row[t].phase = "merging" /\ Wrote(p)
  <2>1. LET u == proc[p].task
            m == proc[p].move
        IN  /\ u \in Tasks /\ row[u].phase = proc[p].seen.phase
            /\ row' = [row EXCEPT ![u] = Kept(row[u], m.next)] /\ row'[u].phase = m.next.phase
    BY <1>0, <1>6, WroteFacts
  <2>2. CASE proc[p].task # t
    BY <1>0, <1>6, <2>1, <2>2
  <2>3. CASE proc[p].task = t
    <3>1. proc[p].pc = "write" /\ proc[p].seen.phase = "merging"
      BY <1>6, <2>1, <2>3 DEF Wrote
    <3>2. proc[p].job = "pass"
      BY <1>2, <2>3, <3>1 DEF Alone, Guarded
    <3>3. proc[p].move.next.phase = "merging" \/ Bare(t)
      BY <2>3, <3>1, <3>2 DEF NoneGivenUp
    <3> QED
      BY <1>4, <2>1, <2>3, <3>3
  <2> QED
    BY <2>2, <2>3
<1>7. CASE row[t].phase = "merging" /\ Inserts(p)
  <2>1. PICK u \in Tasks : row[u].phase = "absent" /\ \E r : row' = [row EXCEPT ![u] = r]
    BY <1>7 DEF Inserts
  <2> QED
    BY <1>0, <1>7, <2>1
<1>8. CASE row[t].phase = "merging" /\ (Records(p) \/ Holds(p))
  <2>1. LET u == proc[p].task
            r == row'[u]
        IN  u \in Tasks /\ row' = [row EXCEPT ![u] = r] /\ r.phase = row[u].phase
    BY <1>0, <1>8, UpdatesFacts
  <2> QED
    BY <1>0, <1>8, <2>1
<1> QED
  BY <1>3, <1>4, <1>5, <1>6, <1>7, <1>8 DEF Progress, Step, Starts, Deletes, NoneWithdrawn

LEMMA NextAlone == Ordered /\ Alone /\ NoneWithdrawn /\ NoneGivenUp /\ [Next]_vars => Alone'
<1> SUFFICES ASSUME Ordered, Alone, NoneWithdrawn, NoneGivenUp, [Next]_vars PROVE Alone'
  OBVIOUS
<1>0. Typed /\ (\A p \in Procs : Guarded(proc[p])) /\ \A p \in Procs : proc[p].pc = "landing" => proc[p].task \in Tasks
  BY DEF Ordered, Typed, Local, Alone
<1>1. CASE Quiet
  <2>1. row' = row /\ proc' = proc /\ \A t \in Tasks : work[t] = "none" => work'[t] = "none"
    BY <1>1 DEF Quiet, NothingStarts
  <2>2. \A t \in Tasks : Bare(t) => Bare(t)'
    BY <2>1 DEF Bare
  <2> QED
    BY <1>0, <2>1, <2>2 DEF Alone, Guarded
<1>2. ASSUME NEW p \in Procs, Progress(p), NEW d, Comes(p, d) PROVE Alone'
  <2>1. /\ \A q \in Procs : Guarded(proc'[q])
        /\ \A q \in Procs : \A u \in Procs \ {q} : \A l \in proc'[q].locks : l \notin proc'[u].locks
    BY <1>0, <1>2, ComesAlone
  <2>2. \A q \in Procs : proc'[q] = IF q = p THEN d ELSE proc[q]
    BY <1>0, <1>2 DEF Typed, Comes
  <2>3. ASSUME NEW q \in Procs, NEW t \in Tasks, proc'[q].pc = "landing", proc'[q].task = t
        PROVE  row'[t].phase = "merging" \/ Bare(t)'
    <3>1. CASE q = p
      BY <1>2, <2>2, <2>3, <3>1 DEF Comes
    <3>2. CASE q # p
      BY <1>2, <2>2, <2>3, <3>2, MergingStays
    <3> QED
      BY <3>1, <3>2
  <2>4. \A q \in Procs : Guarded(proc[q])'
    BY <2>1 DEF Guarded
  <2>5. \A q \in Procs : proc'[q].pc = "landing" => row'[proc'[q].task].phase = "merging" \/ Bare(proc[q].task)'
    <3> SUFFICES ASSUME NEW q \in Procs, proc'[q].pc = "landing"
                 PROVE  row'[proc'[q].task].phase = "merging" \/ Bare(proc[q].task)'
      OBVIOUS
    <3>1. PICK t \in Tasks : proc'[q].task = t
      BY <1>0, NextOrdered DEF Ordered, Typed, Local
    <3>2. row'[t].phase = "merging" \/ Bare(t)'
      BY <2>3, <3>1
    <3> QED
      BY <3>1, <3>2 DEF Bare
  <2> QED
    BY <2>1, <2>4, <2>5 DEF Alone
<1> QED
  BY <1>0, <1>1, <1>2, NextComes

(* csquad fast-forwards a branch only while its task merges, as long as no *)
(* pass gives the merge up while it is landed: commands, checks and other      *)
(* landings are kept out by the task's lock, whatever they read before     *)
(* (land, finish, cancel).                                                 *)
THEOREM MergesWhileMerging == Spec /\ [](NoneWithdrawn /\ NoneGivenUp) => MergesMerging
<1>1. Alone => [\A t \in Tasks : (\E p \in Procs : FastForwards(p, t)) => row[t].phase = "merging"]_vars
  BY DEF Alone, Bare, FastForwards, At
<1>2. Ordered /\ NoneWithdrawn /\ [Next]_vars => Ordered'
  BY NextOrdered
<1> QED
  BY <1>1, <1>2, InitOrdered, InitAlone, NextAlone, PTL DEF Spec, MergesMerging

---------------------------------------------------------------------------
(* Removed work is accounted for.                                          *)

(* A process at its cleanup's end does nothing else.                       *)
LEMMA ClosingActs ==
  ASSUME NEW p \in Procs, Acting(p), proc[p].pc \in {"remove", "write"}
  PROVE  Remove(p) \/ Write(p) \/ Crash(p)
<1>1. CASE Pass(p)
  BY <1>1 DEF Pass, List, Show, StoppedLate, Look, Decide, At
<1>2. CASE Effect(p)
  BY <1>2 DEF Effect, SpawnCheck, Send, StartQueued, Starting, Record, Land, Landing, Clean, At
<1>3. CASE Checker(p)
  BY <1>3 DEF Checker, CheckClaim, CheckRun, CheckApply, At
<1>4. CASE User(p)
  BY <1>4 DEF User, Parse, Insert, Queue, LaunchLock, LaunchStart, Delete, Command, Retry, SetHold,
              Finish, Finishing, Cancel, CancelStop, Cancelling, Discard, Discarding, ClearGone, At
<1>5. CASE \E t \in Tasks : Stopped(p, t) \/ Check(p, t)
  BY <1>5 DEF Stopped, Check, At
<1> QED
  BY <1>1, <1>2, <1>3, <1>4, <1>5 DEF Acting

(* Only a cleanup, and the start of a session in place, leave a task       *)
(* without a branch.                                                       *)
LEMMA WorkStays ==
  ASSUME Typed, [Next]_vars, NEW t \in Tasks, work[t] # "none", work'[t] = "none"
  PROVE  \E p \in Procs :
           /\ proc[p].task = t
           /\ \/ Clean(p) /\ Become(p, [proc[p] EXCEPT !.pc = "remove"])
              \/ (Starting(p) \/ LaunchStart(p)) /\ row[t].inPlace
<1>0. work \in [Tasks -> {"none", "open", "merged"}]
  BY DEF Typed, WorldOK
<1>1. work' # work
  OBVIOUS
<1>2. ASSUME NEW p \in Procs, Clean(p) PROVE proc[p].task = t /\ Become(p, [proc[p] EXCEPT !.pc = "remove"])
  BY <1>0, <1>2 DEF Clean
<1>3. ASSUME NEW p \in Procs, Starting(p) \/ LaunchStart(p) PROVE proc[p].task = t /\ row[t].inPlace
  <2>1. work' = [work EXCEPT ![proc[p].task] = IF row[proc[p].task].inPlace THEN "none" ELSE "open"]
    BY <1>1, <1>3 DEF Starting, LaunchStart, StartSession
  <2> QED
    BY <1>0, <2>1
<1>4. ASSUME NEW p \in Procs, Landing(p) PROVE FALSE
  <2>1. work' = [work EXCEPT ![proc[p].task] = "merged"]
    BY <1>1, <1>4 DEF Landing
  <2> QED
    BY <1>0, <2>1
<1>5. ASSUME NEW p \in Procs, Acting(p) PROVE Clean(p) \/ Starting(p) \/ LaunchStart(p)
  <2>1. CASE Pass(p) \/ Checker(p) \/ Crash(p)
    BY <1>1, <2>1 DEF Pass, List, Show, StoppedLate, Look, Decide, Write, Checker, CheckClaim, CheckRun, CheckApply,
                      Crash, world
  <2>2. CASE Effect(p)
    BY <1>1, <1>4, <2>2 DEF Effect, SpawnCheck, Send, StartQueued, Record, Land, Remove, world
  <2>3. CASE User(p)
    BY <1>1, <2>3 DEF User, Parse, Insert, Queue, LaunchLock, Delete, Command, Retry, SetHold,
                      Finish, Finishing, Cancel, CancelStop, Cancelling, Discard, Discarding, ClearGone, world
  <2>4. CASE \E u \in Tasks : Stopped(p, u) \/ Check(p, u)
    BY <1>1, <2>4 DEF Stopped, Check
  <2> QED
    BY <1>5, <2>1, <2>2, <2>3, <2>4 DEF Acting
<1>6. ASSUME World PROVE FALSE
  <2>1. CASE \E u \in Tasks : TurnEnds(u) \/ UserMerges(u)
    BY <1>0, <2>1 DEF TurnEnds, UserMerges
  <2> QED
    BY <1>1, <1>6, <2>1 DEF World, PicksUp, Outside, LoseSpawn, LoseStop
<1>7. Next
  BY <1>1 DEF vars
<1> QED
  BY <1>2, <1>3, <1>5, <1>6, <1>7 DEF Next, Acting

(* The session of a task that starts leaves it a branch, or works in       *)
(* place.                                                                  *)
LEMMA GoneFrom ==
  ASSUME Ordered, NoneWithdrawn, [Next]_vars, NEW t \in Tasks, Gone(t)'
  PROVE  session[t] # "none" /\ ~row[t].inPlace
<1>0. Typed /\ session \in [Tasks -> LiveStates \union {"none"}] /\ work \in [Tasks -> {"none", "open", "merged"}]
  BY DEF Ordered, Typed, WorldOK
<1>1. Grows /\ RowOK(t)
  BY NextOrdered DEF Ordered
<1>2. session[t] # "none" => ~row[t].inPlace
  BY <1>1 DEF Gone, RowOK, Ready, Grows, SameLaunch
<1>3. ASSUME session[t] = "none" PROVE FALSE
  <2>1. session'[t] # "none" /\ work'[t] = "none" /\ ~row'[t].inPlace
    BY DEF Gone
  <2>2. PICK p \in Procs : Progress(p)
    BY <1>0, <1>3, <2>1, NextCases DEF Quiet, NothingStarts
  <2>3. Starts(p) \/ session' = session \/ Step(p)
    BY <1>0, <2>2, UpdatesFacts DEF Progress, Wrote, Inserts, Deletes, NoneWithdrawn, world
  <2>4. Starts(p)
    BY <1>3, <2>1, <2>3 DEF Step, NothingStarts
  <2>5. /\ session' = [session EXCEPT ![proc[p].task] = "working"] /\ UNCHANGED row
        /\ work' = [work EXCEPT ![proc[p].task] = IF row[proc[p].task].inPlace THEN "none" ELSE "open"]
    BY <2>4 DEF Starts, StartSession
  <2>6. proc[p].task = t
    BY <1>0, <1>3, <2>1, <2>5
  <2> QED
    BY <1>0, <2>1, <2>5, <2>6
<1> QED
  BY <1>2, <1>3

LEMMA InitAccounted == Init => Accounted
BY DEF Init, Accounted, Gone

LEMMA NextAccounted ==
  Ordered /\ (\A p \in Procs : Guarded(proc[p])) /\ Accounted /\ NoneWithdrawn /\ [Next]_vars /\ [SeenThrough]_vars => Accounted'
<1> SUFFICES ASSUME Ordered, \A p \in Procs : Guarded(proc[p]), Accounted, NoneWithdrawn, [Next]_vars, [SeenThrough]_vars,
                    NEW t \in Tasks, Gone(t)'
             PROVE  row'[t].phase \in {"done", "cancelled"} \/ \E p \in Procs : proc'[p].task = t /\ Closes(proc'[p])
  BY DEF Accounted, Closes
<1>0. Typed /\ Grows /\ proc = [p \in Procs |-> proc[p]] /\ \A p \in Procs : Local(proc[p]) /\ Tied(proc[p])
  BY NextOrdered DEF Ordered, Typed
<1>1. session[t] # "none" /\ ~row[t].inPlace
  BY GoneFrom
<1>2. ASSUME row[t].phase \in {"done", "cancelled"} PROVE row'[t].phase \in {"done", "cancelled"}
  BY <1>0, <1>2 DEF Grows
<1>3. ASSUME work[t] # "none"
      PROVE  row'[t].phase \in {"done", "cancelled"} \/ \E p \in Procs : proc'[p].task = t /\ Closes(proc'[p])
  <2>1. PICK p \in Procs : proc[p].task = t /\ Clean(p) /\ Become(p, [proc[p] EXCEPT !.pc = "remove"])
    BY <1>0, <1>1, <1>3, WorkStays DEF Gone
  <2> DEFINE c == proc[p]
             d == [c EXCEPT !.pc = "remove"]
  <2>2. c.pc = "clean" /\ c \in Calls /\ Local(c) /\ Tied(c) /\ Guarded(c) /\ proc' = [proc EXCEPT ![p] = d]
    BY <1>0, <2>1 DEF Clean, At, Local, Become
  <2>3. proc'[p] = d
    BY <1>0, <2>2
  <2>a. c = proc[p] /\ "remove" \in Pcs
    BY DEF Pcs
  <2> HIDE DEF c
  <2>4. d.pc = "remove" /\ d.task = c.task /\ d.locks = c.locks /\ d.move = c.move
    BY <2>2, <2>a, CallTo
  <2> HIDE DEF d
  <2>5. CASE c.seen.phase = "cancelled"
    <3>1. row[t].phase = "cancelled"
      BY <2>1, <2>2, <2>5, <2>a DEF Tied, Working, Pcs
    <3> QED
      BY <1>2, <3>1
  <2>6. CASE c.move.next.phase \in {"done", "cancelled"}
    <3>1. TaskLock(c.task) \in c.locks
      BY <2>2 DEF Guarded
    <3>2. Closes(d) /\ d.task = t
      BY <2>1, <2>4, <2>6, <2>a, <3>1 DEF Closes
    <3> QED
      BY <2>3, <3>2
  <2> QED
    BY <2>2, <2>5, <2>6 DEF Local
<1>4. ASSUME NEW q \in Procs, proc[q].task = t, Closes(proc[q])
      PROVE  row'[t].phase \in {"done", "cancelled"} \/ \E p \in Procs : proc'[p].task = t /\ Closes(proc'[p])
  <2>1. CASE proc' = proc
    BY <1>4, <2>1
  <2>2. ASSUME NEW p \in Procs, Acting(p), NEW e, Comes(p, e), proc' # proc
        PROVE  row'[t].phase \in {"done", "cancelled"} \/ \E u \in Procs : proc'[u].task = t /\ Closes(proc'[u])
    <3>0. proc' = [proc EXCEPT ![p] = e]
      BY <2>2 DEF Comes
    <3>1. CASE p # q
      <4>1. proc'[q] = proc[q]
        BY <1>0, <3>0, <3>1
      <4> QED
        BY <1>4, <4>1
    <3>2. CASE p = q /\ Remove(q)
      <4> DEFINE c == proc[q]
                 d == [c EXCEPT !.pc = "write"]
      <4>1. c.move # Idle.move /\ c \in Calls
        BY <1>0, <1>4, NoRowFacts, IdleFacts DEF Closes, Local
      <4>2. proc' = [proc EXCEPT ![q] = d]
        BY <3>2, <4>1 DEF Remove, Become
      <4>3. proc'[q] = d
        BY <1>0, <4>2
      <4>a. c = proc[q] /\ "write" \in Pcs
        BY DEF Pcs
      <4> HIDE DEF c
      <4>4. d.pc = "write" /\ d.task = c.task /\ d.locks = c.locks /\ d.move = c.move
        BY <4>1, <4>a, CallTo
      <4> HIDE DEF d
      <4>5. Closes(d) /\ d.task = t
        BY <1>4, <4>4, <4>a DEF Closes
      <4> QED
        BY <4>3, <4>5
    <3>3. CASE p = q /\ (Write(q) \/ Crash(q))
      <4>1. SeenThrough
        BY <2>2 DEF vars
      <4>2. Write(q) /\ Wins(q)
        BY <1>4, <3>3, <4>1 DEF SeenThrough
      <4> DEFINE n == proc[q].move.next
                 b == row[t].session
                 h == row[t].hold
                 r == [n EXCEPT !.session = b, !.hold = h]
      <4>3. row' = [row EXCEPT ![t] = r] /\ proc[q].pc = "write"
        BY <1>4, <4>2 DEF Write, Transition, At
      <4>4. n \in Rows(Tasks) /\ row \in [Tasks -> Rows(Tasks)]
        BY <1>0, <4>3 DEF Local, Sound, Moves, Typed
      <4>5. n.phase \in {"done", "cancelled"}
        BY <1>4 DEF Closes
      <4> HIDE DEF n, b, h
      <4>6. r.phase = n.phase
        BY <4>4 DEF Rows
      <4> HIDE DEF r
      <4> QED
        BY <4>3, <4>4, <4>5, <4>6
    <3> QED
      BY <1>4, <2>2, <3>1, <3>2, <3>3, ClosingActs DEF Closes
  <2> QED
    BY <1>0, <2>1, <2>2, NextComes DEF Quiet
<1>5. CASE work[t] = "none"
  <2>1. Gone(t)
    BY <1>1, <1>5 DEF Gone
  <2> QED
    BY <1>2, <1>4, <2>1 DEF Accounted
<1> QED
  BY <1>3, <1>5

(* Each process is at a point where it has the locks it should.            *)
LEMMA NextGuarded ==
  Ordered /\ (\A p \in Procs : Guarded(proc[p])) /\ [Next]_vars => \A p \in Procs : Guarded(proc[p])'
<1> SUFFICES ASSUME Ordered, \A p \in Procs : Guarded(proc[p]), [Next]_vars, NEW q \in Procs PROVE Guarded(proc'[q])
  BY DEF Guarded
<1>0. Typed /\ proc = [p \in Procs |-> proc[p]]
  BY DEF Ordered, Typed
<1>1. CASE Quiet
  BY <1>1 DEF Quiet
<1>2. ASSUME NEW p \in Procs, NEW d, Comes(p, d) PROVE Guarded(proc'[q])
  <2>1. proc'[q] = IF q = p THEN d ELSE proc[q]
    BY <1>0, <1>2 DEF Comes
  <2> QED
    BY <1>2, <2>1 DEF Comes
<1> QED
  BY <1>0, <1>1, <1>2, NextComes

(* Work that was removed is accounted for: its row is done or cancelled,   *)
(* or who removed it, under the task's lock, is about to write so (finish, *)
(* landing, cancel), as long as that process is neither killed nor         *)
(* overtaken between the cleanup and the write.  Nobody else takes a       *)
(* branch away, whatever else runs.                                        *)
THEOREM RemovedIsAccounted == Spec /\ []NoneWithdrawn /\ [][SeenThrough]_vars => []RemovedIsFinished
<1> DEFINE G == \A p \in Procs : Guarded(proc[p])
<1>1. Ordered /\ Accounted => RemovedIsFinished
  BY DEF Ordered, RowOK, Accounted, Gone, Closes, RemovedIsFinished, Finished, Finals
<1>2. Ordered /\ NoneWithdrawn /\ [Next]_vars => Ordered'
  BY NextOrdered
<1>3. Ordered /\ G /\ [Next]_vars => G'
  BY NextGuarded
<1>4. Init => G
  BY InitAlone DEF Alone
<1>5. Ordered /\ G /\ Accounted /\ NoneWithdrawn /\ [Next]_vars /\ [SeenThrough]_vars => Accounted'
  BY NextAccounted
<1> HIDE DEF G
<1> QED
  BY <1>1, <1>2, <1>3, <1>4, <1>5, InitOrdered, InitAccounted, PTL DEF Spec

---------------------------------------------------------------------------
(* Part 2: the row of one task, Me, follows the flow.                      *)

Flows == INSTANCE TaskFlowProofs WITH
  task <- row[Me], Others <- Tasks, Counts <- Counts \union {0, 1}, RetryCap <- 0

(* What the flow decides does not depend on its parameters.                *)
LEMMA SameMoves ==
  \A s, o : Row!NextMove(s, o) = NextMove(s, o) /\ Row!RetryMove(s) = RetryMove(s)
  BY DEF Finals, Row!Finals, Unfinished, Row!Unfinished, Finished, Row!Finished, NoVerdict,
         Row!NoVerdict, Move, Row!Move, Stay, Row!Stay, To, Row!To, NeedsYou, Row!NeedsYou,
         Orchestrated, Row!Orchestrated, Implicit, Row!Implicit, Merges, Row!Merges, AtRest,
         Row!AtRest, TurnEnded, Row!TurnEnded, Lost, Row!Lost, LostMove, Row!LostMove, NextWaiting,
         Row!NextWaiting, AtLeastOne, Row!AtLeastOne, AfterWork, Row!AfterWork, NextWorking,
         Row!NextWorking, Prefix, Row!Prefix, History, Row!History, Plateau, Row!Plateau, Stuck,
         Row!Stuck, VerdictMove, Row!VerdictMove, NextChecking, Row!NextChecking, Landed,
         Row!Landed, NextMerging, Row!NextMerging, NextReady, Row!NextReady, NextStopped,
         Row!NextStopped, NextMove, Row!NextMove, Resumable, Row!Resumable, RetryMove, Row!RetryMove

(* TaskFlowProofs is instantiated as TaskFlow is: it is about the same     *)
(* flow.                                                                   *)
LEMMA SameFlow == (Flows!Init <=> Row!Init) /\ (Flows!Next <=> Row!Next)
  BY DEF Flows!Finals, Row!Finals, Flows!Unfinished, Row!Unfinished, Flows!Phases, Row!Phases,
         Flows!Steps, Row!Steps, Flows!CheckSpecs, Row!CheckSpecs, Flows!VerdictKinds,
         Row!VerdictKinds, Flows!Rows, Row!Rows, Flows!Finished, Row!Finished, Flows!LiveStates,
         Row!LiveStates, Flows!Verdicts, Row!Verdicts, Flows!NoVerdict, Row!NoVerdict,
         Flows!Landings, Row!Landings, Flows!NoObs, Row!NoObs, Flows!Effects, Row!Effects,
         Flows!Move, Row!Move, Flows!Stay, Row!Stay, Flows!Changed, Row!Changed, Flows!Acts,
         Row!Acts, Flows!To, Row!To, Flows!NeedsYou, Row!NeedsYou, Flows!Orchestrated,
         Row!Orchestrated, Flows!Implicit, Row!Implicit, Flows!Merges, Row!Merges, Flows!AtRest,
         Row!AtRest, Flows!TurnEnded, Row!TurnEnded, Flows!Lost, Row!Lost, Flows!LostMove,
         Row!LostMove, Flows!NextWaiting, Row!NextWaiting, Flows!AtLeastOne, Row!AtLeastOne,
         Flows!AfterWork, Row!AfterWork, Flows!NextWorking, Row!NextWorking, Flows!Prefix,
         Row!Prefix, Flows!History, Row!History, Flows!Plateau, Row!Plateau, Flows!Stuck, Row!Stuck,
         Flows!VerdictMove, Row!VerdictMove, Flows!NextChecking, Row!NextChecking, Flows!Landed,
         Row!Landed, Flows!NextMerging, Row!NextMerging, Flows!NextReady, Row!NextReady,
         Flows!NextStopped, Row!NextStopped, Flows!NextMove, Row!NextMove, Flows!Resumable,
         Row!Resumable, Flows!RetryMove, Row!RetryMove, Flows!NoRow, Row!NoRow, Flows!NewRow,
         Row!NewRow, Flows!NewRows, Row!NewRows, Flows!Launchable, Row!Launchable, Flows!Launch,
         Row!Launch, Flows!Withdraw, Row!Withdraw, Flows!RecordSession, Row!RecordSession,
         Flows!SetHold, Row!SetHold, Flows!When, Row!When, Flows!Observations, Row!Observations,
         Flows!Seen, Row!Seen, Flows!Back, Row!Back, Flows!Observe, Row!Observe, Flows!Retry,
         Row!Retry, Flows!EffectFails, Row!EffectFails, Flows!Finish, Row!Finish, Flows!Cancel,
         Row!Cancel, Flows!ClearGone, Row!ClearGone, Flows!Init, Row!Init, Flows!Next, Row!Next

---------------------------------------------------------------------------
(* Records keep their fields.                                              *)

LEMMA RowHasShape == ASSUME NEW r \in Rows(Tasks) PROVE RowShape(r)
  BY DEF Rows, RowShape

(* To changes the phase and the step.                                      *)
LEMMA ShapeTo ==
  ASSUME NEW r, RowShape(r), NEW p, NEW s
  PROVE  /\ RowShape(To(r, p, s))
         /\ To(r, p, s).phase = p /\ To(r, p, s).step = s
         /\ To(r, p, s).session = r.session /\ To(r, p, s).hold = r.hold
         /\ To(r, p, s).after = r.after
  BY DEF RowShape, To

---------------------------------------------------------------------------
(* Moves.                                                                  *)

(* A row that stays.                                                       *)
LEMMA FitStay ==
  ASSUME NEW r, RowShape(r), Waits(r), r.phase # "absent", NEW e \in {"none", "land"}
  PROVE  Fit(r, Move(r, e))
  BY DEF Fit, Move, Effects

(* A move to another phase or step.                                        *)
LEMMA FitTo ==
  ASSUME NEW r, RowShape(r), NEW p, NEW s, NEW e \in Effects,
         p # "absent", p # r.phase \/ s # r.step,
         p = "waiting" \/ (p = "needs_you" /\ s = "waiting") => r.after # {},
         e = "check" => p = "checking",
         e = "send" => p = "fixing" \/ (p = "merging" /\ s = "asked"),
         e = "start" => p = "running" /\ r.after # {}
  PROVE  Fit(r, Move(To(r, p, s), e))
<1> DEFINE u == To(r, p, s)
<1>1. /\ RowShape(u) /\ u.phase = p /\ u.step = s
      /\ u.session = r.session /\ u.hold = r.hold /\ u.after = r.after
  BY ShapeTo
<1> HIDE DEF u
<1>2. Fit(r, Move(u, e))
  BY <1>1 DEF Fit, Move, Suits, Waits
<1>3. QED
  BY <1>2 DEF u

(* A move that also changes the round, its maximum or the history.         *)
LEMMA FitRound ==
  ASSUME NEW r, RowShape(r), NEW u, RowShape(u),
         u.session = r.session, u.hold = r.hold, u.after = r.after,
         NEW p, NEW s, NEW e \in Effects,
         p \notin {"absent", "waiting"}, p # r.phase, s # "waiting",
         u.phase = p, u.step = s,
         e = "check" => p = "checking",
         e = "send" => p = "fixing",
         e # "start"
  PROVE  Fit(r, Move(u, e))
  BY DEF Fit, Move, Suits, Waits

(* Whatever is observed, Next decides a move of the row.                   *)
LEMMA WaitingFit ==
  ASSUME NEW r \in Rows(Tasks), r.phase = "waiting", Waits(r), NEW o
  PROVE  Fit(r, NextWaiting(r, o))
<1>1. RowShape(r) /\ r.after # {}
  BY RowHasShape DEF Waits
<1>2. Fit(r, Stay(r)) /\ Fit(r, NeedsYou(r, "waiting")) /\ Fit(r, Move(To(r, "running", ""), "start"))
  BY <1>1, FitStay, FitTo DEF Stay, NeedsYou, Effects
<1>3. QED
  BY <1>2 DEF NextWaiting

(* What is decided of a task that works.                                   *)
LEMMA WorkingFit ==
  ASSUME NEW r \in Rows(Tasks), r.phase \in {"running", "fixing"}, Waits(r), NEW o
  PROVE  Fit(r, NextWorking(r, o))
<1> DEFINE c == [To(r, "checking", "") EXCEPT !.round = AtLeastOne(r.round)]
<1>1. RowShape(r)
  BY RowHasShape
<1>2. /\ Fit(r, Stay(r)) /\ Fit(r, NeedsYou(r, "")) /\ Fit(r, Stay(To(r, "failed", "")))
      /\ Fit(r, Move(To(r, "merging", ""), "land"))
      /\ r.after # {} => Fit(r, NeedsYou(r, "waiting"))
  BY <1>1, FitStay, FitTo DEF Stay, NeedsYou, Effects
<1>3. RowShape(c) /\ c.session = r.session /\ c.hold = r.hold /\ c.after = r.after
      /\ c.phase = "checking" /\ c.step = ""
  BY <1>1 DEF RowShape, To
<1> HIDE DEF c
<1>4. Fit(r, Move(c, "check"))
  BY <1>1, <1>3, FitRound DEF Effects
<1>5. QED
  BY <1>2, <1>4 DEF NextWorking, AfterWork, LostMove, c

(* What is decided of a task that is checked.                              *)
LEMMA CheckingFit ==
  ASSUME NEW r \in Rows(Tasks), r.phase = "checking", Waits(r), NEW o
  PROVE  Fit(r, NextChecking(r, o))
<1> DEFINE v == o.verdict
           n == [r EXCEPT !.last = v.kind, !.blocking = History(r, v)]
           w == [To(n, "fixing", "") EXCEPT !.round = r.round + 1]
<1>1. RowShape(r)
  BY RowHasShape
<1>2. Fit(r, Stay(r)) /\ Fit(r, NeedsYou(r, "check"))
  BY <1>1, FitStay, FitTo DEF Stay, NeedsYou, Effects
<1>3. \A p, s : LET u == To(n, p, s)
                IN  /\ RowShape(u) /\ u.session = r.session /\ u.hold = r.hold
                    /\ u.after = r.after /\ u.phase = p /\ u.step = s
  BY <1>1 DEF RowShape, To
<1>4. /\ RowShape(w) /\ w.session = r.session /\ w.hold = r.hold
      /\ w.after = r.after /\ w.phase = "fixing" /\ w.step = ""
  BY <1>1 DEF RowShape, To
<1> HIDE DEF n, w
<1>5. \A p \in {"needs_you", "ready", "merging"}, s \in {"", "check", "round"}, e \in {"none", "land"} :
        Fit(r, Move(To(n, p, s), e))
  <2> SUFFICES ASSUME NEW p \in {"needs_you", "ready", "merging"},
                      NEW s \in {"", "check", "round"}, NEW e \in {"none", "land"}
               PROVE  Fit(r, Move(To(n, p, s), e))
    OBVIOUS
  <2> DEFINE u == To(n, p, s)
  <2>1. /\ RowShape(u) /\ u.session = r.session /\ u.hold = r.hold
        /\ u.after = r.after /\ u.phase = p /\ u.step = s
    BY <1>3
  <2> HIDE DEF u
  <2>2. Fit(r, Move(u, e))
    BY <1>1, <2>1, FitRound DEF Effects
  <2>3. QED
    BY <2>2 DEF u
<1>6. Fit(r, Move(w, "send"))
  BY <1>1, <1>4, FitRound DEF Effects
<1>7. Fit(r, VerdictMove(r, v, o))
  BY <1>5, <1>6 DEF VerdictMove, NeedsYou, Stay, n, w
<1>8. QED
  BY <1>2, <1>7 DEF NextChecking

(* What is decided of a task that is merged.                               *)
LEMMA MergingFit ==
  ASSUME NEW r \in Rows(Tasks), r.phase = "merging", Waits(r), NEW o
  PROVE  Fit(r, NextMerging(r, o))
<1>1. RowShape(r)
  BY RowHasShape
<1>2. /\ Fit(r, Move(r, "land")) /\ Fit(r, Move(r, "none")) /\ Fit(r, Stay(To(r, "done", "")))
      /\ Fit(r, NeedsYou(r, "merge")) /\ Fit(r, NeedsYou(r, "")) /\ Fit(r, Stay(To(r, "failed", "")))
      /\ r.step # "asked" => Fit(r, Move(To(r, "merging", "asked"), "send"))
  BY <1>1, FitStay, FitTo DEF Stay, NeedsYou, Effects
<1>3. QED
  BY <1>2 DEF NextMerging, Landed, LostMove

(* What is decided of a task that rests.                                   *)
LEMMA RestingFit ==
  ASSUME NEW r \in Rows(Tasks), Waits(r), r.phase # "absent", NEW o
  PROVE  /\ r.phase = "ready" => Fit(r, NextReady(r, o))
         /\ r.phase \in {"needs_you", "failed"} => Fit(r, NextStopped(r, o))
<1>1. RowShape(r)
  BY RowHasShape
<1>2. /\ Fit(r, Stay(r))
      /\ r.phase = "ready" => Fit(r, Move(To(r, "merging", ""), "land"))
      /\ r.phase \in {"needs_you", "failed"} => Fit(r, Stay(To(r, "running", "")))
  BY <1>1, FitStay, FitTo DEF Stay, Effects
<1>3. QED
  BY <1>2 DEF NextReady, NextStopped

(* What is decided of any task.                                            *)
LEMMA NextFit ==
  ASSUME NEW r \in Rows(Tasks), Waits(r), r.phase # "absent", NEW o
  PROVE  Fit(r, NextMove(r, o))
<1>1. Fit(r, Stay(r))
  BY FitStay, RowHasShape DEF Stay
<1>2. QED
  BY <1>1, WaitingFit, WorkingFit, CheckingFit, MergingFit, RestingFit DEF NextMove

(* A retry is a move, and changes the row.                                 *)
LEMMA RetryFit ==
  ASSUME NEW r \in Rows(Tasks), Waits(r), Resumable(r)
  PROVE  Fit(r, RetryMove(r)) /\ RetryMove(r).next # r
<1> DEFINE w == [To(r, "fixing", "") EXCEPT !.max = r.max + 1, !.round = r.round + 1]
<1>1. RowShape(r) /\ r.phase = "needs_you" /\ r.step \in {"waiting", "check", "merge", "round"}
  BY RowHasShape DEF Resumable
<1>2. /\ r.step = "waiting" => Fit(r, Stay(To(r, "waiting", "")))
      /\ Fit(r, Move(To(r, "checking", ""), "check"))
      /\ Fit(r, Move(To(r, "merging", ""), "land"))
  BY <1>1, FitTo DEF Stay, Effects, Waits
<1>3. /\ RowShape(w) /\ w.session = r.session /\ w.hold = r.hold
      /\ w.after = r.after /\ w.phase = "fixing" /\ w.step = ""
  BY <1>1 DEF RowShape, To
<1> HIDE DEF w
<1>4. Fit(r, Move(w, "send"))
  BY <1>1, <1>3, FitRound DEF Effects
<1>5. Fit(r, RetryMove(r))
  BY <1>1, <1>2, <1>4 DEF RetryMove, w
<1>6. \A s : To(r, "waiting", s).phase = "waiting" /\ To(r, "checking", s).phase = "checking"
             /\ To(r, "merging", s).phase = "merging"
  BY <1>1, ShapeTo
<1>7. RetryMove(r).next.phase # "needs_you"
  BY <1>1, <1>3, <1>6 DEF RetryMove, w, Stay, Move
<1>8. QED
  BY <1>1, <1>5, <1>7

---------------------------------------------------------------------------
(* The flow from a reading.                                                *)

(* Transition keeps what the row has of the session and the hold.          *)
LEMMA StoredTo ==
  ASSUME NEW r \in Rows(Tasks), NEW x, NEW p, NEW s
  PROVE  Stored(r, To([r EXCEPT !.session = x], p, s)) = To(r, p, s)
  BY DEF Rows, Stored, To

(* The row a retry writes is the retry of the row as it is.                *)
LEMMA StoredRetry ==
  ASSUME NEW r \in Rows(Tasks), NEW x, Resumable(r)
  PROVE  LET s == [r EXCEPT !.session = x]
         IN  Stored(r, RetryMove(s).next) = RetryMove(r).next
<1> DEFINE s == [r EXCEPT !.session = x]
<1>1. s.phase = r.phase /\ s.step = r.step /\ s.max = r.max /\ s.round = r.round
      /\ r.step \in {"waiting", "check", "merge", "round"}
  BY DEF Rows, Resumable
<1>2. \A p, t : Stored(r, To(s, p, t)) = To(r, p, t)
  BY StoredTo
<1>3. Stored(r, [To(s, "fixing", "") EXCEPT !.max = r.max + 1, !.round = r.round + 1])
      = [To(r, "fixing", "") EXCEPT !.max = r.max + 1, !.round = r.round + 1]
  BY DEF Rows, Stored, To
<1> HIDE DEF s
<1>4. Stored(r, RetryMove(s).next) = RetryMove(r).next
  BY <1>1, <1>2, <1>3 DEF RetryMove, Stay, Move
<1>5. QED
  BY <1>4 DEF s

(* What Transition stores is what the flow says it does.                   *)
LEMMA StoredBack ==
  ASSUME NEW r \in Rows(Tasks), NEW u, RowShape(u), u.hold = r.hold
  PROVE  Stored(r, u) = Row!Back(r, u)
  BY DEF Row!Back, Stored, RowShape, Rows

(* A write that won its compare-and-set is a step of the row as it is:     *)
(* what it was decided on may lack the session, and nothing else.          *)
LEMMA WinSteps ==
  ASSUME row[Me] \in Rows(Tasks), row[Me].phase # "absent", row[Me].max # 0,
         NEW x \in {FALSE, row[Me].session}, NEW u,
         LET s == [row[Me] EXCEPT !.session = x]
         IN  RowShape(u) /\ u.hold = s.hold /\ u # s /\ Moved(s, u),
         row'[Me] = Stored(row[Me], u)
  PROVE  Row!Next
<1> DEFINE r == row[Me]
           s == [r EXCEPT !.session = x]
<1>1. RowShape(u) /\ u.hold = s.hold /\ u # s /\ Moved(s, u) /\ row'[Me] = Stored(r, u)
  OBVIOUS
<1>2. /\ s.phase = r.phase /\ s.step = r.step /\ s.after = r.after /\ s.hold = r.hold
  BY DEF Rows
<1>3. s = Row!Seen(row[Me], x)
  BY DEF Row!Seen
<1>4. row'[Me] = Row!Back(row[Me], u)
  BY <1>1, <1>2, StoredBack
<1>5. Row!Observations(s) = Row!Observations(row[Me])
  BY <1>2 DEF Row!Observations
<1>6. \A p, t : Stored(r, To(s, p, t)) = To(r, p, t)
  BY StoredTo
<1>7. \A p, t : u = To(s, p, t) => row'[Me] = Row!To(row[Me], p, t)
  <2>1. \A p, t : Row!To(row[Me], p, t) = To(r, p, t)
    BY DEF To, Row!To
  <2> HIDE DEF s
  <2>2. QED
    BY <2>1, <1>1, <1>6
<1>8. Resumable(s) => Resumable(r) /\ Stored(r, RetryMove(s).next) = RetryMove(r).next
  BY <1>2, StoredRetry DEF Resumable
<1>9. Stored(r, [s EXCEPT !.phase = "done"]) = [r EXCEPT !.phase = "done"]
  BY DEF Rows, Stored
<1> HIDE DEF s
<1>10. CASE \E o \in Row!Observations(s) : u = NextMove(s, o).next
  <2>1. PICK o \in Row!Observations(s) : u = NextMove(s, o).next
    BY <1>10
  <2>2. u = Row!NextMove(Row!Seen(row[Me], x), o).next
    BY <2>1, <1>3, SameMoves
  <2>3. Row!Changed(Row!Seen(row[Me], x), Row!NextMove(Row!Seen(row[Me], x), o))
    BY <2>2, <1>1, <1>3 DEF Row!Changed
  <2> HIDE DEF r
  <2>4. Row!Observe
    BY <2>1, <2>2, <2>3, <1>4, <1>5 DEF Row!Observe
  <2>5. QED
    BY <2>4 DEF Row!Next
<1>11. CASE Resumable(s) /\ u = RetryMove(s).next
  <2>1. Resumable(r) /\ row'[Me] = RetryMove(r).next
    BY <1>1, <1>11, <1>8
  <2>3. r.max \in Nat /\ r.phase = "needs_you" /\ Row!Resumable(r)
    BY <2>1 DEF Rows, Resumable, Row!Resumable
  <2>4. Row!RetryMove(r) = RetryMove(r)
    BY SameMoves
  <2>5. QED
    BY <2>1, <2>3, <2>4 DEF Row!Next, Row!Retry
<1>12. CASE r.phase = "running" /\ r.after # {} /\ u = To(s, "needs_you", "waiting")
  <2>1. row'[Me] = Row!To(row[Me], "needs_you", "waiting")
    BY <1>7, <1>12
  <2>2. QED
    BY <2>1, <1>12 DEF Row!Next, Row!EffectFails
<1>13. CASE r.phase = "checking" /\ u = To(s, "needs_you", "check")
  <2>1. row'[Me] = Row!To(row[Me], "needs_you", "check")
    BY <1>7, <1>13
  <2>2. QED
    BY <2>1, <1>13 DEF Row!Next, Row!EffectFails
<1>14. CASE /\ r.phase = "fixing" \/ (r.phase = "merging" /\ r.step = "asked")
            /\ u = To(s, "needs_you", "")
  <2>1. row'[Me] = Row!To(row[Me], "needs_you", "")
    BY <1>7, <1>14
  <2>2. QED
    BY <2>1, <1>14 DEF Row!Next, Row!EffectFails
<1>15. CASE r.phase \in Unfinished /\ u = [s EXCEPT !.phase = "done"]
  <2>2. row'[Me] = [row[Me] EXCEPT !.phase = "done"]
    BY <1>1, <1>9, <1>15
  <2>3. QED
    BY <2>2, <1>15 DEF Row!Next, Row!Finish, Unfinished, Row!Unfinished
<1>16. CASE r.phase \in Unfinished /\ u = To(s, "cancelled", "")
  <2>1. row'[Me] = Row!To(row[Me], "cancelled", "")
    BY <1>7, <1>16
  <2>2. QED
    BY <2>1, <1>16 DEF Row!Next, Row!Cancel, Unfinished, Row!Unfinished
<1>17. QED
  BY <1>1, <1>2, <1>10, <1>11, <1>12, <1>13, <1>14, <1>15, <1>16 DEF Moved

---------------------------------------------------------------------------
(* What a process observes is an observation of the flow.                  *)

(* What is read of the verdict files is a verdict, or none.                *)
LEMMA VerdictTyped ==
  ASSUME VerdictsTyped, NEW t, NEW r, NEW n
  PROVE  VerdictOf(t, r, n) \in {NoVerdict} \union Verdicts(Counts \union {0, 1})
<1> DEFINE fit == {v \in verdicts : v.task = t /\ v.round = r.round /\ v.for = n}
<1>1. CASE fit = {}
  BY <1>1 DEF VerdictOf
<1>2. CASE fit # {}
  <2> DEFINE v == CHOOSE x \in fit : TRUE
  <2>1. v \in verdicts
    BY <1>2
  <2>2. VerdictOf(t, r, n) = [kind |-> v.kind, count |-> v.count]
    BY <1>2 DEF VerdictOf
  <2> HIDE DEF v
  <2>3. QED
    BY <2>1, <2>2 DEF VerdictsTyped, Verdicts
<1>3. QED
  BY <1>1, <1>2

(* A dependency's phase is only compared: with absent, cancelled and done. *)
LEMMA SameDeps ==
  ASSUME NEW r, NEW o, NEW u,
         \A d \in r.after : /\ u.deps[d] \in {"absent", "cancelled"} <=> o.deps[d] \in {"absent", "cancelled"}
                            /\ u.deps[d] = "done" <=> o.deps[d] = "done"
  PROVE  NextWaiting(r, u) = NextWaiting(r, o)
  BY DEF NextWaiting

(* What a pass observes is, to the flow, an observation it allows.         *)
LEMMA Observed ==
  ASSUME NEW p \in Procs, proc[p].seen \in Rows(Tasks),
         proc[p].live \in LiveStates \union {"unknown"}, VerdictsTyped, NEW patient \in BOOLEAN
  PROVE  \E o \in Row!Observations(proc[p].seen) :
           NextMove(proc[p].seen, o) = NextMove(proc[p].seen, Observation(p, patient))
<1> DEFINE r == proc[p].seen
           o == Observation(p, patient)
           known(d) == IF row[d].phase \in Phases THEN row[d].phase ELSE "waiting"
           deps == IF r.phase = "waiting" THEN [d \in r.after |-> known(d)] ELSE <<>>
           u == [o EXCEPT !.deps = deps]
<1>1. o.observed \in BOOLEAN
  BY DEF Observation
<1>2. o.live \in LiveStates
  BY DEF Observation, LiveStates, NoObs
<1>3. o.stopped \in BOOLEAN
  BY DEF Observation
<1>4. /\ o.replied \in Row!When(r.phase \in {"fixing", "merging"}, BOOLEAN, FALSE)
      /\ o.settled \in Row!When(r.phase \in {"running", "fixing"}, BOOLEAN, FALSE)
      /\ o.graced \in Row!When(r.phase \in {"running", "checking", "merging"}, BOOLEAN, FALSE)
  BY DEF Observation, Row!When
<1>5. /\ o.dependents \in Row!When(r.phase \in {"running", "checking", "ready"}, SUBSET Tasks, {})
      /\ o.busy \in Row!When(r.phase \in {"running", "checking", "merging"}, BOOLEAN, FALSE)
      /\ o.land \in Row!When(r.phase = "merging", {"none"} \union Row!Landings, "none")
  BY DEF Observation, Row!When, Dependents
<1>6. o.verdict \in Row!When(r.phase = "checking",
                             {Row!NoVerdict} \union Row!Verdicts(Counts \union {0, 1}), Row!NoVerdict)
  BY VerdictTyped DEF Observation, Row!When, NoVerdict, Row!NoVerdict, Verdicts, Row!Verdicts
<1>7. deps \in Row!When(r.phase = "waiting", [r.after -> Row!Phases], <<>>)
  BY DEF Row!When, Phases, Row!Phases, Finals, Unfinished, Row!Finals, Row!Unfinished
<1>8. o.deps = IF r.phase = "waiting" THEN [d \in r.after |-> row[d].phase] ELSE <<>>
  BY DEF Observation
<1>9. o \in [observed : {o.observed}, live : {o.live}, stopped : {o.stopped}, replied : {o.replied},
             settled : {o.settled}, graced : {o.graced}, deps : {o.deps}, dependents : {o.dependents},
             busy : {o.busy}, verdict : {o.verdict}, land : {o.land}]
  BY DEF Observation
<1> HIDE DEF o, deps
<1>10. u \in Row!Observations(r) /\ u.deps = deps
  BY <1>4, <1>5, <1>6, <1>7, <1>9, <1>1, <1>2, <1>3 DEF Row!Observations, LiveStates, Row!LiveStates
<1>11. CASE r.phase = "waiting"
  <2>1. NextMove(r, u) = NextWaiting(r, u) /\ NextMove(r, o) = NextWaiting(r, o)
    BY <1>11 DEF NextMove
  <2>2. \A d \in r.after : u.deps[d] = known(d) /\ o.deps[d] = row[d].phase
    BY <1>8, <1>10, <1>11 DEF deps
  <2>3. NextWaiting(r, u) = NextWaiting(r, o)
    <3> HIDE DEF u
    <3>1. QED
      BY <2>2, SameDeps DEF Phases, Finals
  <2>4. QED
    BY <1>10, <2>1, <2>3 DEF o
<1>12. CASE r.phase # "waiting"
  <2>1. u = o
    BY <1>8, <1>9, <1>12 DEF deps
  <2>2. QED
    BY <1>10, <2>1 DEF o
<1>13. QED
  BY <1>11, <1>12

(* A landing is an observation the flow allows.                            *)
LEMMA ObservedLanding ==
  ASSUME NEW r, r.phase = "merging", NEW x \in Landings
  PROVE  [NoObs EXCEPT !.land = x] \in Row!Observations(r)
  BY DEF NoObs, Landings, Row!Observations, Row!When, Row!LiveStates, Row!NoVerdict, NoVerdict, Row!Landings

(* So is a verdict.                                                        *)
LEMMA ObservedVerdict ==
  ASSUME NEW r, r.phase = "checking", VerdictsTyped, NEW t, NEW n
  PROVE  [NoObs EXCEPT !.verdict = VerdictOf(t, r, n), !.dependents = Dependents(t)] \in Row!Observations(r)
<1> DEFINE v == VerdictOf(t, r, n)
<1>1. v \in {NoVerdict} \union Verdicts(Counts \union {0, 1}) /\ Dependents(t) \in SUBSET Tasks
  BY VerdictTyped DEF Dependents
<1> HIDE DEF v
<1>2. [NoObs EXCEPT !.verdict = v, !.dependents = Dependents(t)] \in Row!Observations(r)
  BY <1>1 DEF NoObs, Row!Observations, Row!When, Row!LiveStates, Row!NoVerdict, NoVerdict,
         Row!Verdicts, Verdicts
<1>3. QED
  BY <1>2 DEF v

---------------------------------------------------------------------------
(* The processes that work on the task.                                    *)

RowInv ==
  /\ Flows!Inv
  /\ row[Me].phase = "absent" => row[Me] = NoRow
  /\ Waits(row[Me])

(* The inductive invariant.                                                *)
IInv ==
  /\ Shapes
  /\ VerdictsTyped
  /\ RowInv
  /\ SessionInv
  /\ ver[Me] \in Nat
  /\ \A p \in Procs : Good(proc[p], row[Me], ver[Me], session[Me])

LEMMA MeFacts == Me \in Tasks /\ Me # 0
  BY TasksAssumption, MeAssumption

LEMMA SameRows == Flows!Rows(Tasks) = Rows(Tasks)
  BY DEF Flows!Rows, Rows, Flows!Phases, Phases, Flows!Finals, Finals, Flows!Unfinished, Unfinished,
         Flows!Steps, Steps, Flows!VerdictKinds, VerdictKinds, Flows!CheckSpecs, CheckSpecs

(* The row is one of the table.                                            *)
LEMMA RowTyped ==
  ASSUME RowInv
  PROVE  row[Me] \in Rows(Tasks) /\ (row[Me].phase # "absent" => row[Me].max # 0)
<1>1. row[Me] \in Rows(Tasks)
  BY SameRows DEF RowInv, Flows!Inv, Flows!TypeOK
<1>2. row[Me].phase # "absent" => row[Me].max >= 1
  BY DEF RowInv, Flows!Inv, Flows!RoundsGranted
<1>3. QED
  BY <1>1, <1>2

---------------------------------------------------------------------------
(* What a process becomes.                                                 *)

(* An idle process knows nothing.                                          *)
LEMMA GoodIdle == ASSUME NEW r, NEW v, NEW s PROVE Good(Idle, r, v, s)
  BY MeFacts DEF Good, Idle, Shaped, Stay, Move, Effects, OnMe

(* A process that goes on with the row it read.                            *)
LEMMA GoodOn ==
  ASSUME NEW r, NEW v, NEW s0, NEW s, NEW d, Good(d, r, v, s0), d.pc # "stopped",
         NEW e, Shaped(e), e.task = d.task, e.seen = d.seen, e.ver = d.ver,
         e.move.effect \in Effects, e.pc # "insert",
         d.task = Me => Placed(e) /\ Sees(e, s)
  PROVE  Good(e, r, v, s)
  BY MeFacts DEF Good, OnMe, Current

(* A process that reads the row.                                           *)
LEMMA GoodRead ==
  ASSUME NEW r \in Rows(Tasks), Waits(r), NEW v \in Nat, NEW s,
         NEW e, Shaped(e), e.move.effect \in Effects, e.pc # "insert",
         e.task = Me => /\ e.seen = r /\ e.ver = v /\ r.phase # "absent"
                        /\ Placed(e) /\ Sees(e, s)
  PROVE  Good(e, r, v, s)
<1>1. Alike(r, r)
  BY DEF Alike, Rows
<1>2. QED
  BY <1>1 DEF Good, Current, OnMe

(* The row, its version and its session as they are later.                 *)
Later(r, v, s, r2, v2, s2) ==
  /\ v \in Nat /\ v2 \in Nat /\ v <= v2
  /\ v2 = v /\ r2.phase # "absent" => r.phase # "absent" /\ Alike(r, r2)
  /\ s # "none" => s2 # "none"

(* What a process knows stays true while the row moves on.                 *)
LEMMA GoodLater ==
  ASSUME NEW d, NEW r \in Rows(Tasks), NEW v, NEW s, NEW r2 \in Rows(Tasks), NEW v2, NEW s2,
         Good(d, r, v, s), Later(r, v, s, r2, v2, s2)
  PROVE  Good(d, r2, v2, s2)
<1>1. SUFFICES ASSUME OnMe(d) PROVE Current(d, r2, v2) /\ Sees(d, s2)
  BY DEF Good
<1>2. Sees(d, s2)
  BY <1>1 DEF Good, Sees, Later
<1>3. d.ver = v2 /\ r2.phase # "absent" => Alike(d.seen, r2)
  <2> SUFFICES ASSUME d.ver = v2, r2.phase # "absent" PROVE Alike(d.seen, r2)
    OBVIOUS
  <2>1. v2 = v /\ Alike(r, r2) /\ Alike(d.seen, r) /\ d.seen \in Rows(Tasks)
    BY <1>1 DEF Good, Current, Later
  <2>2. QED
    BY <2>1 DEF Alike, Rows
<1>4. QED
  BY <1>1, <1>2, <1>3 DEF Good, Current, Later

(* The step takes p to a good process and leaves the others.               *)
Took(p) ==
  /\ proc' = [q \in Procs |-> proc'[q]]
  /\ \A q \in Procs \ {p} : proc'[q] = proc[q]
  /\ Good(proc'[p], row[Me], ver[Me], session'[Me])

LEMMA TookBecome ==
  ASSUME IInv, NEW p \in Procs, NEW e, Become(p, e), Good(e, row[Me], ver[Me], session'[Me])
  PROVE  Took(p) /\ proc'[p] = e
  BY DEF Become, Took, IInv, Shapes

(* A process that ends.                                                    *)
LEMMA TookEnd == ASSUME IInv, NEW p \in Procs, End(p) PROVE Took(p)
  BY TookBecome, GoodIdle DEF End

---------------------------------------------------------------------------
(* The steps that leave the row alone, process by process.                 *)

LEMMA MoveEffects ==
  \A r, o : NextMove(r, o).effect \in Effects /\ RetryMove(r).effect \in Effects
  BY DEF NextMove, NextWaiting, NextWorking, NextChecking, NextMerging, NextReady, NextStopped,
         AfterWork, VerdictMove, Landed, LostMove, RetryMove, NeedsYou, Stay, Move, Effects

(* A decided move takes a process to its write, or to landing again.       *)
LEMMA TookDue ==
  ASSUME IInv, NEW p \in Procs, proc[p].pc # "stopped", NEW m, m.effect \in Effects,
         proc[p].task = Me => Fit(proc[p].seen, m) /\ Moved(proc[p].seen, m.next),
         Due(p, m), UNCHANGED session
  PROVE  Took(p)
<1> DEFINE d == proc[p]
           e == [d EXCEPT !.move = m, !.live = "unknown",
                          !.pc = IF Changed(d.seen, m) THEN "write" ELSE m.effect]
<1>1. CASE ~Acts(d.seen, m)
  BY <1>1, TookEnd DEF Due
<1>2. CASE Acts(d.seen, m)
  <2>1. Good(d, row[Me], ver[Me], session[Me]) /\ Shaped(d)
    BY DEF IInv, Good
  <2>2. /\ Shaped(e) /\ e.task = d.task /\ e.seen = d.seen /\ e.ver = d.ver /\ e.move = m
        /\ e.live = "unknown" /\ e.pc = IF Changed(d.seen, m) THEN "write" ELSE m.effect
    BY <2>1 DEF Shaped
  <2>3. Become(p, e)
    BY <1>2 DEF Due
  <2> HIDE DEF e
  <2>4. d.task = Me => Placed(e) /\ Sees(e, session[Me])
    <3> SUFFICES ASSUME d.task = Me PROVE Placed(e) /\ Sees(e, session[Me])
      OBVIOUS
    <3>1. (e.pc = "write" /\ Legal(e.seen, e.move)) \/ e.pc = "land"
      BY <1>2, <2>2 DEF Legal, Fit, Acts, Changed
    <3>2. QED
      BY <2>2, <3>1 DEF Placed, Sees, Suits
  <2>5. e.pc # "insert"
    BY <2>2 DEF Effects
  <2>6. Good(e, row[Me], ver[Me], session[Me])
    BY <2>1, <2>2, <2>4, <2>5, GoodOn
  <2>7. QED
    BY <2>3, <2>6, TookBecome
<1>3. QED
  BY <1>1, <1>2

(* What Next decides from an observation of the flow.                      *)
LEMMA TookNext ==
  ASSUME IInv, NEW p \in Procs, proc[p].pc # "stopped", NEW o,
         proc[p].task = Me => \E u \in Row!Observations(proc[p].seen) :
                                NextMove(proc[p].seen, u) = NextMove(proc[p].seen, o),
         Due(p, NextMove(proc[p].seen, o)), UNCHANGED session
  PROVE  Took(p)
<1> DEFINE d == proc[p]
           m == NextMove(d.seen, o)
<1>1. m.effect \in Effects
  BY MoveEffects
<1>2. ASSUME d.task = Me PROVE Fit(d.seen, m) /\ Moved(d.seen, m.next)
  <2>1. d.seen \in Rows(Tasks) /\ Waits(d.seen) /\ d.seen.phase # "absent"
    BY <1>2 DEF IInv, Good, OnMe, Current
  <2>2. Fit(d.seen, m)
    BY <2>1, NextFit
  <2>3. \E u \in Row!Observations(d.seen) : m.next = NextMove(d.seen, u).next
    BY <1>2
  <2> HIDE DEF m
  <2>4. QED
    BY <2>2, <2>3 DEF Moved
<1> HIDE DEF m
<1>3. Due(p, m)
  BY DEF m
<1>4. QED
  BY <1>1, <1>2, <1>3, TookDue

(* Mover.Decide of a pass.                                                 *)
LEMMA DecideTook == ASSUME IInv, NEW p \in Procs, Decide(p) PROVE Took(p)
<1>1. PICK patient \in BOOLEAN : Due(p, NextMove(proc[p].seen, Observation(p, patient)))
  BY DEF Decide
<1>2. proc[p].pc = "decide" /\ UNCHANGED session /\ VerdictsTyped
  BY DEF Decide, At, world, IInv
<1>3. proc[p].task = Me => \E u \in Row!Observations(proc[p].seen) :
                             NextMove(proc[p].seen, u) = NextMove(proc[p].seen, Observation(p, patient))
  <2> SUFFICES ASSUME proc[p].task = Me
               PROVE  \E u \in Row!Observations(proc[p].seen) :
                        NextMove(proc[p].seen, u) = NextMove(proc[p].seen, Observation(p, patient))
    OBVIOUS
  <2>1. proc[p].seen \in Rows(Tasks) /\ proc[p].live \in LiveStates \union {"unknown"}
    BY <1>2 DEF IInv, Good, OnMe, Current, Sees
  <2>2. QED
    BY <1>2, <2>1, Observed
<1>4. QED
  BY <1>1, <1>2, <1>3, TookNext

(* The check process applies its verdict.                                  *)
LEMMA CheckApplyTook == ASSUME IInv, NEW p \in Procs, CheckApply(p) PROVE Took(p)
<1> DEFINE o == [NoObs EXCEPT !.verdict = VerdictOf(proc[p].task, proc[p].seen, proc[p].ver),
                              !.dependents = Dependents(proc[p].task)]
<1>1. Due(p, NextMove(proc[p].seen, o)) /\ proc[p].pc = "checkApply" /\ UNCHANGED session /\ VerdictsTyped
  BY DEF CheckApply, At, world, IInv
<1>2. proc[p].task = Me => o \in Row!Observations(proc[p].seen)
  <2>1. proc[p].task = Me => proc[p].seen.phase = "checking"
    BY <1>1 DEF IInv, Good, OnMe, Placed
  <2>2. QED
    BY <1>1, <2>1, ObservedVerdict
<1> HIDE DEF o
<1>3. QED
  BY <1>1, <1>2, TookNext

(* A landing applies what became of it.                                    *)
LEMMA LandMoveTook ==
  ASSUME IInv, NEW p \in Procs, proc[p].pc # "stopped", NEW x \in Landings,
         proc[p].task = Me => proc[p].seen.phase = "merging",
         Due(p, LandMove(p, x)), UNCHANGED session
  PROVE  Took(p)
<1> DEFINE o == [NoObs EXCEPT !.land = x]
<1>1. Due(p, NextMove(proc[p].seen, o))
  BY DEF LandMove
<1>2. proc[p].task = Me => o \in Row!Observations(proc[p].seen)
  BY ObservedLanding
<1> HIDE DEF o
<1>3. QED
  BY <1>1, <1>2, TookNext

(* The user retries.                                                       *)
LEMMA RetryTook == ASSUME IInv, NEW p \in Procs, Retry(p) PROVE Took(p)
<1> DEFINE d == proc[p]
           m == RetryMove(d.seen)
<1>1. d.pc = "retry" /\ Due(p, m) /\ UNCHANGED session /\ m.effect \in Effects
  BY MoveEffects DEF Retry, At, world
<1>2. ASSUME d.task = Me PROVE Fit(d.seen, m) /\ Moved(d.seen, m.next)
  <2>1. d.seen \in Rows(Tasks) /\ Waits(d.seen) /\ Resumable(d.seen)
    BY <1>1, <1>2 DEF IInv, Good, OnMe, Current, Placed
  <2>2. QED
    BY <2>1, RetryFit DEF Moved
<1> HIDE DEF m
<1>3. QED
  BY <1>1, <1>2, TookDue

(* A process that goes on with the row it read, or with no task of its own.*)
LEMMA TookOn ==
  ASSUME IInv, NEW p \in Procs, proc[p].pc # "stopped", NEW e, Become(p, e), Shaped(e),
         e.task = proc[p].task, e.seen = proc[p].seen, e.ver = proc[p].ver,
         e.move.effect \in Effects, e.pc # "insert",
         proc[p].task = Me => Placed(e) /\ Sees(e, session'[Me])
  PROVE  Took(p)
<1>1. Good(proc[p], row[Me], ver[Me], session[Me])
  BY DEF IInv
<1>2. Good(e, row[Me], ver[Me], session'[Me])
  BY <1>1, GoodOn
<1>3. QED
  BY <1>2, TookBecome

(* A process that goes on with the row as it is.                           *)
LEMMA TookRead ==
  ASSUME IInv, NEW p \in Procs, NEW e, Become(p, e), Shaped(e),
         e.move.effect \in Effects, e.pc # "insert",
         e.task = Me => /\ e.seen = row[Me] /\ e.ver = ver[Me] /\ row[Me].phase # "absent"
                        /\ Placed(e) /\ Sees(e, session'[Me])
  PROVE  Took(p)
<1>1. Good(e, row[Me], ver[Me], session'[Me])
  BY RowTyped, GoodRead DEF IInv, RowInv
<1>2. QED
  BY <1>1, TookBecome

(* A process keeps the row it read, and its move, and goes on to x.        *)
LEMMA TookWent ==
  ASSUME IInv, NEW p \in Procs, proc[p].pc # "stopped", NEW x, x # "insert",
         Become(p, [proc[p] EXCEPT !.pc = x]),
         \A e : /\ proc[p].task = Me /\ e.pc = x /\ e.job = proc[p].job /\ e.seen = proc[p].seen
                /\ e.live = proc[p].live /\ e.move = proc[p].move
                => Placed(e) /\ Sees(e, session'[Me])
  PROVE  Took(p)
<1> DEFINE e == [proc[p] EXCEPT !.pc = x]
<1>1. Shaped(proc[p]) /\ proc[p].move.effect \in Effects
  BY DEF IInv, Good
<1>2. /\ Shaped(e) /\ e.pc = x /\ e.job = proc[p].job /\ e.task = proc[p].task
      /\ e.seen = proc[p].seen /\ e.ver = proc[p].ver /\ e.live = proc[p].live
      /\ e.move = proc[p].move
  BY <1>1 DEF Shaped
<1> HIDE DEF e
<1>3. Become(p, e)
  BY DEF e
<1>4. QED
  BY <1>1, <1>2, <1>3, TookOn

(* The same with a move of its own.                                        *)
LEMMA TookMove ==
  ASSUME IInv, NEW p \in Procs, proc[p].pc # "stopped", NEW x, x # "insert",
         NEW m, m.effect \in Effects,
         Become(p, [proc[p] EXCEPT !.pc = x, !.move = m]),
         \A e : /\ proc[p].task = Me /\ e.pc = x /\ e.job = proc[p].job /\ e.seen = proc[p].seen
                /\ e.live = proc[p].live /\ e.move = m
                => Placed(e) /\ Sees(e, session'[Me])
  PROVE  Took(p)
<1> DEFINE e == [proc[p] EXCEPT !.pc = x, !.move = m]
<1>1. Shaped(proc[p])
  BY DEF IInv, Good
<1>2. /\ Shaped(e) /\ e.pc = x /\ e.job = proc[p].job /\ e.task = proc[p].task
      /\ e.seen = proc[p].seen /\ e.ver = proc[p].ver /\ e.live = proc[p].live /\ e.move = m
  BY <1>1 DEF Shaped
<1> HIDE DEF e
<1>3. Become(p, e)
  BY DEF e
<1>4. QED
  BY <1>2, <1>3, TookOn

LEMMA MoveEffect == \A r : Stay(r).effect \in Effects /\ Stay(r).next = r
  BY DEF Stay, Move, Effects

(* The rows csquad writes outside Next are rows of the flow.               *)
LEMMA LegalNeedsYou ==
  ASSUME NEW r \in Rows(Tasks), NEW s,
         \/ r.phase = "running" /\ r.after # {} /\ s = "waiting"
         \/ r.phase = "checking" /\ s = "check"
         \/ (r.phase = "fixing" \/ (r.phase = "merging" /\ r.step = "asked")) /\ s = ""
  PROVE  Legal(r, NeedsYou(r, s))
<1>1. RowShape(r)
  BY RowHasShape
<1>2. Fit(r, NeedsYou(r, s))
  BY <1>1, FitTo DEF NeedsYou, Stay, Effects
<1>3. To(r, "needs_you", s).phase = "needs_you"
  BY DEF To, Rows
<1>4. QED
  BY <1>2, <1>3, MoveEffect DEF Legal, Moved, NeedsYou

(* The row of a cancel.                                                    *)
LEMMA LegalCancelled ==
  ASSUME NEW r \in Rows(Tasks), r.phase \in Unfinished
  PROVE  Legal(r, Stay(To(r, "cancelled", "")))
<1>1. RowShape(r)
  BY RowHasShape
<1>2. Fit(r, Stay(To(r, "cancelled", "")))
  BY <1>1, FitTo DEF Stay, Effects, Unfinished
<1>3. To(r, "cancelled", "").phase = "cancelled"
  BY DEF To, Rows
<1>4. QED
  BY <1>2, <1>3, MoveEffect DEF Legal, Moved, Unfinished

(* The row of a finish.                                                    *)
LEMMA LegalDone ==
  ASSUME NEW r \in Rows(Tasks), r.phase \in Unfinished
  PROVE  Legal(r, Stay([r EXCEPT !.phase = "done"]))
<1>1. RowShape(r)
  BY RowHasShape
<1>2. [r EXCEPT !.phase = "done"] = To(r, "done", r.step)
  BY <1>1 DEF To, RowShape
<1>3. Fit(r, Stay(To(r, "done", r.step)))
  BY <1>1, FitTo DEF Stay, Effects, Unfinished
<1>4. To(r, "done", r.step).phase = "done"
  BY DEF To, Rows
<1>5. QED
  BY <1>2, <1>3, <1>4, MoveEffect DEF Legal, Moved, Unfinished

(* The row of a merge that landed.                                         *)
LEMMA LegalLanded ==
  ASSUME NEW p, proc[p].seen \in Rows(Tasks), proc[p].seen.phase = "merging", Waits(proc[p].seen)
  PROVE  Legal(proc[p].seen, LandMove(p, "done"))
<1> DEFINE r == proc[p].seen
           o == [NoObs EXCEPT !.land = "done"]
<1>1. o \in Row!Observations(r)
  BY ObservedLanding DEF Landings
<1>2. NextMove(r, o) = Stay(To(r, "done", ""))
  BY DEF NextMove, NextMerging, Landed, NoObs
<1>3. Fit(r, NextMove(r, o))
  BY NextFit
<1>4. To(r, "done", "").phase = "done"
  BY DEF To, Rows
<1> HIDE DEF o
<1>5. QED
  BY <1>1, <1>2, <1>3, <1>4, MoveEffect DEF Legal, Moved, LandMove, o

(* What a process that works on the task knows.                            *)
LEMMA Mine ==
  ASSUME IInv, NEW p \in Procs, proc[p].task = Me, proc[p].pc # "stopped"
  PROVE  /\ proc[p].seen \in Rows(Tasks) /\ proc[p].seen.phase # "absent" /\ Waits(proc[p].seen)
         /\ proc[p].ver \in Nat /\ proc[p].ver <= ver[Me]
         /\ proc[p].ver = ver[Me] /\ row[Me].phase # "absent" => Alike(proc[p].seen, row[Me])
         /\ Placed(proc[p]) /\ Sees(proc[p], session[Me])
  BY DEF IInv, Good, OnMe, Current

LEMMA MineShaped ==
  ASSUME IInv, NEW p \in Procs
  PROVE  Shaped(proc[p]) /\ proc[p].move.effect \in Effects
  BY DEF IInv, Good

LEMMA ReadingIs ==
  ASSUME NEW t
  PROVE  /\ Shaped(Reading(t)) /\ Reading(t).task = t /\ Reading(t).seen = row[t]
         /\ Reading(t).ver = ver[t] /\ Reading(t).live = "unknown" /\ Reading(t).move = Idle.move
         /\ Idle.move.effect = "none"
  BY DEF Reading, Idle, Shaped, Stay, Move

(* The pass.                                                               *)
LEMMA ListTook == ASSUME IInv, NEW p \in Procs, NEW t \in Tasks, List(p, t) \/ Show(p, t) PROVE Took(p)
<1> DEFINE Saw(pc, e) ==
        /\ Become(p, e)
        /\ \/ e = [Reading(t) EXCEPT !.pc = pc, !.job = "pass", !.at = proc[p].at]
           \/ e = [Reading(t) EXCEPT !.pc = pc, !.job = "show"]
        /\ row[t].phase \in Unfinished /\ (pc = "look" => row[t].session) /\ UNCHANGED session
<1>1. \E pc \in {"look", "decide"} : \E e : Saw(pc, e)
  <2>1. CASE List(p, t)
    BY <2>1 DEF List, Listed, world
  <2>2. CASE Show(p, t)
    BY <2>2 DEF Show, Unfinished, world
  <2>3. QED
    BY <2>1, <2>2
<1>2. PICK pc \in {"look", "decide"} : \E e : Saw(pc, e)
  BY <1>1
<1>3. PICK e : Saw(pc, e)
  BY <1>2
<1>4. /\ Shaped(e) /\ e.move.effect \in Effects /\ e.pc = pc /\ e.task = t /\ e.seen = row[t]
      /\ e.ver = ver[t] /\ e.live = "unknown"
  <2> DEFINE d == Reading(t)
  <2>1. /\ Shaped(d) /\ d.task = t /\ d.seen = row[t] /\ d.ver = ver[t] /\ d.live = "unknown"
        /\ d.move.effect \in Effects
    BY ReadingIs DEF Effects
  <2>2. \/ e = [d EXCEPT !.pc = pc, !.job = "pass", !.at = proc[p].at]
        \/ e = [d EXCEPT !.pc = pc, !.job = "show"]
    BY <1>3
  <2> HIDE DEF d
  <2>3. QED
    BY <2>1, <2>2 DEF Shaped
<1>5. row[Me].session => session'[Me] # "none"
  BY <1>3 DEF IInv, SessionInv
<1>6. t = Me => Placed(e) /\ Sees(e, session'[Me])
  BY <1>3, <1>4, <1>5 DEF Placed, Sees, Suits
<1>7. row[t].phase # "absent"
  BY <1>3 DEF Unfinished
<1>8. QED
  BY <1>3, <1>4, <1>6, <1>7, TookRead

(* A Stop hook begins.                                                     *)
LEMMA StoppedTook == ASSUME IInv, NEW p \in Procs, NEW t \in Tasks, Stopped(p, t) PROVE Took(p)
<1> DEFINE e == [Idle EXCEPT !.pc = "stopped", !.task = t, !.at = ver[t]]
<1>1. Shaped(e) /\ e.move.effect \in Effects /\ e.pc = "stopped"
  BY DEF Idle, Shaped, Stay, Move, Effects
<1> HIDE DEF e
<1>2. Good(e, row[Me], ver[Me], session'[Me])
  BY <1>1 DEF Good, OnMe
<1>3. Become(p, e)
  BY DEF Stopped, e
<1>4. QED
  BY <1>2, <1>3, TookBecome

(* A pass looks at the session.                                            *)
LEMMA LookTook == ASSUME IInv, NEW p \in Procs, Look(p) PROVE Took(p)
<1> DEFINE d == proc[p]
<1>1. d.pc = "look" /\ UNCHANGED session
  BY DEF Look, At, world
<1>2. PICK pc \in {"clear", "decide"}, live \in {d.live, session[d.task]} :
        Become(p, [d EXCEPT !.pc = pc, !.live = live])
  <2>1. [d EXCEPT !.pc = "clear"] = [d EXCEPT !.pc = "clear", !.live = d.live]
        /\ [d EXCEPT !.pc = "decide"] = [d EXCEPT !.pc = "decide", !.live = d.live]
    BY MineShaped DEF Shaped
  <2>2. QED
    BY <2>1 DEF Look
<1> DEFINE e == [d EXCEPT !.pc = pc, !.live = live]
<1>3. /\ Shaped(e) /\ e.pc = pc /\ e.task = d.task /\ e.seen = d.seen
      /\ e.ver = d.ver /\ e.live = live /\ e.move = d.move
  BY MineShaped DEF Shaped
<1> HIDE DEF e
<1>4. d.task = Me => Placed(e) /\ Sees(e, session'[Me])
  <2> SUFFICES ASSUME d.task = Me PROVE Placed(e) /\ Sees(e, session'[Me])
    OBVIOUS
  <2>1. Placed(d) /\ Sees(d, session[Me])
    BY <1>1, Mine
  <2>2. d.seen.phase \in Unfinished /\ live \in LiveStates \union {"unknown"}
    BY <1>1, <1>2, <2>1 DEF Placed, Sees, IInv, SessionInv
  <2>3. QED
    BY <1>3, <2>2 DEF Placed, Sees, Suits
<1>5. QED
  BY <1>1, <1>2, <1>3, <1>4, MineShaped, TookOn DEF e

(* The effects.                                                            *)
LEMMA FailTook ==
  ASSUME IInv, NEW p \in Procs, proc[p].pc # "stopped", NEW s, Fail(p, s), UNCHANGED session,
         LET r == proc[p].seen
         IN  proc[p].task = Me =>
               \/ r.phase = "running" /\ r.after # {} /\ s = "waiting"
               \/ r.phase = "checking" /\ s = "check"
               \/ (r.phase = "fixing" \/ (r.phase = "merging" /\ r.step = "asked")) /\ s = ""
  PROVE  Took(p)
<1> DEFINE m == NeedsYou(proc[p].seen, s)
<1>1. m.effect \in Effects
  BY MoveEffect DEF NeedsYou
<1>2. proc[p].task = Me => Legal(proc[p].seen, m)
  BY Mine, LegalNeedsYou
<1>3. proc[p].task = Me => Sees(proc[p], session'[Me])
  BY Mine
<1> HIDE DEF m
<1>4. Become(p, [proc[p] EXCEPT !.pc = "write", !.move = m])
  BY DEF Fail, m
<1>5. QED
  BY <1>1, <1>2, <1>3, <1>4, TookMove DEF Placed, Sees, Suits

(* A check is spawned, or a message sent, or that fails.                   *)
LEMMA SpawnTook == ASSUME IInv, NEW p \in Procs, SpawnCheck(p) \/ Send(p) PROVE Took(p)
<1>1. /\ proc[p].pc \in {"check", "send"} /\ UNCHANGED session
      /\ \/ End(p)
         \/ proc[p].pc = "check" /\ Fail(p, "check")
         \/ proc[p].pc = "send" /\ Fail(p, "")
  BY DEF SpawnCheck, Send, At
<1>2. proc[p].task = Me => Suits(proc[p].pc, proc[p].seen)
  BY <1>1, Mine DEF Placed
<1>3. CASE proc[p].pc = "check" /\ Fail(p, "check")
  BY <1>1, <1>2, <1>3, FailTook DEF Suits
<1>4. CASE proc[p].pc = "send" /\ Fail(p, "")
  BY <1>1, <1>2, <1>4, FailTook DEF Suits
<1>5. QED
  BY <1>1, <1>3, <1>4, TookEnd

(* The task's lock, and the row as it is now.                              *)
LEMMA ClaimTook ==
  ASSUME IInv, NEW p \in Procs, proc[p].pc # "stopped", NEW job, job \notin {"insert", "look", "record"},
         Claim(p, job), UNCHANGED session,
         proc[p].task = Me => row[Me].phase # "absent",
         \A e : proc[p].task = Me /\ e.pc = job /\ e.job = job /\ e.seen = row[Me] => Placed(e)
  PROVE  Took(p)
<1> DEFINE d == proc[p]
           e == [d EXCEPT !.pc = job, !.job = job, !.seen = row[d.task], !.ver = ver[d.task],
                          !.locks = @ \union {TaskLock(d.task)}]
<1>1. /\ Shaped(e) /\ e.pc = job /\ e.job = job /\ e.task = d.task /\ e.seen = row[d.task]
      /\ e.ver = ver[d.task] /\ e.live = d.live /\ e.move = d.move
  BY MineShaped DEF Shaped
<1>2. Become(p, e)
  BY DEF Claim
<1> HIDE DEF e
<1>3. d.task = Me => d.live \in LiveStates \union {"unknown"}
  BY Mine DEF Sees
<1>4. QED
  BY <1>1, <1>2, <1>3, MineShaped, TookRead DEF Sees

(* A queued task is to be started.                                         *)
LEMMA StartQueuedTook == ASSUME IInv, NEW p \in Procs, StartQueued(p) PROVE Took(p)
<1> DEFINE d == proc[p]
<1>1. d.pc = "start" /\ UNCHANGED session
  BY DEF StartQueued, At, world
<1>2. CASE Same(d.seen, d.ver, d.task) /\ Claim(p, "starting")
  <2>1. ASSUME d.task = Me
        PROVE  row[Me].phase = "running" /\ row[Me].after # {}
    <3>1. d.seen.phase = "running" /\ d.seen.after # {} /\ row[Me].phase = d.seen.phase
      BY <1>1, <1>2, <2>1, Mine DEF Placed, Suits, Same
    <3>2. Alike(d.seen, row[Me]) /\ row[Me] \in Rows(Tasks)
      BY <1>1, <1>2, <2>1, <3>1, Mine, RowTyped DEF Same, IInv
    <3>3. d.seen.after = row[Me].after
      BY <3>2 DEF Alike, Rows
    <3>4. QED
      BY <3>1, <3>3
  <2>2. \A e : d.task = Me /\ e.pc = "starting" /\ e.job = "starting" /\ e.seen = row[Me] => Placed(e)
    BY <2>1 DEF Placed, Suits
  <2>3. QED
    BY <1>1, <1>2, <2>1, <2>2, ClaimTook
<1>3. QED
  BY <1>2, TookEnd DEF StartQueued, Missed

LEMMA StartsSession ==
  ASSUME IInv, NEW t, StartSession(t)
  PROVE  t = Me => session'[Me] = "working"
  BY MeFacts DEF IInv, Shapes, StartSession

(* The session of a queued task is started.                                *)
LEMMA StartingTook == ASSUME IInv, NEW p \in Procs, Starting(p) PROVE Took(p)
<1> DEFINE d == proc[p]
<1>1. d.pc = "starting"
  BY DEF Starting, At
<1>2. d.task = Me => d.seen.phase = "running" /\ d.seen.after # {} /\ d.live \in LiveStates \union {"unknown"}
  BY <1>1, Mine DEF Placed, Sees
<1>3. CASE StartSession(d.task) /\ Become(p, [d EXCEPT !.pc = "record"])
  BY <1>1, <1>2, <1>3, StartsSession, TookWent DEF Placed, Sees, Suits
<1>4. CASE Fail(p, "waiting") /\ UNCHANGED session
  BY <1>1, <1>2, <1>4, FailTook
<1>5. QED
  BY <1>3, <1>4 DEF Starting

(* A merge is to be landed.                                                *)
LEMMA LandTook == ASSUME IInv, NEW p \in Procs, Land(p) PROVE Took(p)
<1>1. proc[p].pc = "land" /\ UNCHANGED session
  BY DEF Land, At, world
<1>2. CASE Claim(p, "landing") /\ row[proc[p].task].phase = "merging"
  <2>1. \A e : proc[p].task = Me /\ e.pc = "landing" /\ e.job = "landing" /\ e.seen = row[Me] => Placed(e)
    BY <1>2 DEF Placed, Suits
  <2>2. QED
    BY <1>1, <1>2, <2>1, ClaimTook
<1>3. QED
  BY <1>2, TookEnd DEF Land, Missed

(* The branch is merged.                                                   *)
LEMMA LandingTook == ASSUME IInv, NEW p \in Procs, Landing(p) PROVE Took(p)
<1> DEFINE d == proc[p]
           m == LandMove(p, "done")
<1>1. d.pc = "landing" /\ UNCHANGED session
  BY DEF Landing, At
<1>2. d.task = Me => d.seen.phase = "merging"
  BY <1>1, Mine DEF Placed
<1>3. \/ \E x \in {"problem", "conflict"} : Due(p, LandMove(p, x))
      \/ \E pc \in {"remove", "clean"} : Become(p, [d EXCEPT !.pc = pc, !.move = m])
  BY DEF Landing
<1>4. CASE \E x \in {"problem", "conflict"} : Due(p, LandMove(p, x))
  BY <1>1, <1>2, <1>4, LandMoveTook DEF Landings
<1>5. CASE \E pc \in {"remove", "clean"} : Become(p, [d EXCEPT !.pc = pc, !.move = m])
  <2>1. PICK pc \in {"remove", "clean"} : Become(p, [d EXCEPT !.pc = pc, !.move = m])
    BY <1>5
  <2>2. m.effect \in Effects
    BY MoveEffects DEF LandMove
  <2>3. d.task = Me => Legal(d.seen, m) /\ d.live \in LiveStates \union {"unknown"}
    BY <1>1, <1>2, Mine, LegalLanded DEF Sees
  <2> HIDE DEF m
  <2>4. \A e : d.task = Me /\ e.pc = pc /\ e.seen = d.seen /\ e.live = d.live
               /\ e.move = m
               => Placed(e) /\ Sees(e, session'[Me])
    BY <1>2, <2>3 DEF Placed, Sees, Suits
  <2>5. QED
    BY <1>1, <2>1, <2>2, <2>4, TookMove
<1>6. QED
  BY <1>3, <1>4, <1>5

(* The worktree and the branch are removed.                                *)
LEMMA CleanTook == ASSUME IInv, NEW p \in Procs, Clean(p) PROVE Took(p)
<1> DEFINE d == proc[p]
<1>1. d.pc = "clean" /\ UNCHANGED session
  BY DEF Clean, At
<1>2. d.task = Me => /\ d.job = "landing" => d.seen.phase = "merging"
                     /\ d.move = Idle.move \/ Legal(d.seen, d.move)
                     /\ d.live \in LiveStates \union {"unknown"}
  BY <1>1, Mine DEF Placed, Sees
<1>3. CASE Become(p, [d EXCEPT !.pc = "remove"])
  BY <1>1, <1>2, <1>3, TookWent DEF Placed, Sees, Suits
<1>4. CASE d.job = "landing" /\ Due(p, LandMove(p, "problem"))
  BY <1>1, <1>2, <1>4, LandMoveTook DEF Landings
<1>5. QED
  BY <1>3, <1>4, TookEnd DEF Clean

(* The session is removed.                                                 *)
LEMMA RemoveTook == ASSUME IInv, NEW p \in Procs, Remove(p) PROVE Took(p)
<1> DEFINE d == proc[p]
<1>1. d.pc = "remove"
  BY DEF Remove, At
<1>2. CASE d.move # Idle.move /\ Become(p, [d EXCEPT !.pc = "write"])
  <2>1. d.task = Me => Legal(d.seen, d.move) /\ d.live \in LiveStates \union {"unknown"}
    BY <1>1, <1>2, Mine DEF Placed, Sees
  <2>2. QED
    BY <1>1, <1>2, <2>1, TookWent DEF Placed, Sees, Suits
<1>3. QED
  BY <1>2, TookEnd DEF Remove

(* csquad check.                                                           *)
LEMMA CheckTook == ASSUME IInv, NEW p \in Procs, NEW t \in Tasks, Check(p, t) PROVE Took(p)
<1>1. UNCHANGED session
  BY DEF Check
<1>2. CASE row[t].phase = "checking" /\ Become(p, [Reading(t) EXCEPT !.pc = "checkLock", !.job = "check"])
  <2> DEFINE d == Reading(t)
             e == [d EXCEPT !.pc = "checkLock", !.job = "check"]
  <2>1. Shaped(d) /\ d.task = t /\ d.seen = row[t] /\ d.ver = ver[t] /\ d.live = "unknown"
      /\ d.move.effect \in Effects
    BY ReadingIs DEF Effects
  <2>2. Become(p, e)
    BY <1>2
  <2> HIDE DEF d
  <2>3. /\ Shaped(e) /\ e.pc = "checkLock" /\ e.task = t /\ e.seen = row[t] /\ e.ver = ver[t]
        /\ e.live = "unknown" /\ e.move.effect \in Effects
    BY <2>1 DEF Shaped
  <2> HIDE DEF e
  <2>4. QED
    BY <1>2, <2>2, <2>3, TookRead DEF Placed, Sees, Suits
<1>3. CASE UNCHANGED proc
  BY <1>1, <1>3 DEF Took, IInv, Shapes
<1>4. QED
  BY <1>2, <1>3 DEF Check

(* The check process takes its lock and reads the row again.               *)
LEMMA CheckClaimTook == ASSUME IInv, NEW p \in Procs, CheckClaim(p) PROVE Took(p)
<1> DEFINE d == proc[p]
           t == d.task
           c == [d EXCEPT !.seen = row[t], !.ver = ver[t], !.locks = {CheckLock(t, d.seen.round)}]
<1>1. d.pc = "checkLock" /\ UNCHANGED session
  BY DEF CheckClaim, At
<1>2. \/ End(p)
      \/ \E pc \in {"checkRun", "checkApply"} : row[t].phase = "checking" /\ Become(p, [c EXCEPT !.pc = pc])
  BY DEF CheckClaim
<1>3. ASSUME NEW pc \in {"checkRun", "checkApply"}, row[t].phase = "checking", Become(p, [c EXCEPT !.pc = pc])
      PROVE  Took(p)
  <2> DEFINE e == [c EXCEPT !.pc = pc]
  <2>1. Shaped(c) /\ c.task = t /\ c.seen = row[t] /\ c.ver = ver[t] /\ c.live = d.live /\ c.move = d.move
    BY MineShaped DEF Shaped
  <2>2. Become(p, e)
    BY <1>3
  <2> HIDE DEF c
  <2>3. /\ Shaped(e) /\ e.pc = pc /\ e.task = t /\ e.seen = row[t] /\ e.ver = ver[t]
        /\ e.live = d.live /\ e.move = d.move
    BY <2>1 DEF Shaped
  <2>4. d.task = Me => d.live \in LiveStates \union {"unknown"}
    BY <1>1, Mine DEF Sees
  <2> HIDE DEF e
  <2>5. QED
    BY <1>3, <2>2, <2>3, <2>4, MineShaped, TookRead DEF Placed, Sees, Suits
<1>4. QED
  BY <1>2, <1>3, TookEnd

(* The check runs and leaves its verdict.                                  *)
LEMMA CheckRunTook == ASSUME IInv, NEW p \in Procs, CheckRun(p) PROVE Took(p)
<1> DEFINE d == proc[p]
<1>1. d.pc = "checkRun" /\ UNCHANGED session /\ Become(p, [d EXCEPT !.pc = "checkApply"])
  BY DEF CheckRun, At
<1>2. d.task = Me => d.seen.phase = "checking" /\ d.live \in LiveStates \union {"unknown"}
  BY <1>1, Mine DEF Placed, Sees
<1>3. QED
  BY <1>1, <1>2, TookWent DEF Placed, Sees, Suits

(* csquad task launch.                                                     *)
LEMMA ParseTook == ASSUME IInv, NEW p \in Procs, NEW a \in Launches, Parse(p, a) PROVE Took(p)
<1> DEFINE e == [Idle EXCEPT !.pc = "insert", !.job = "launch", !.seen = Asked(a)]
<1>1. Become(p, e)
  BY DEF Parse, Asked
<1> HIDE DEF Asked
<1>2. Shaped(e) /\ e.move.effect \in Effects /\ e.pc = "insert" /\ e.task = 0 /\ e.live = "unknown"
      /\ e.seen = Asked(a)
  BY DEF Idle, Shaped, Stay, Move, Effects
<1> HIDE DEF e
<1>3. Good(e, row[Me], ver[Me], session'[Me])
  BY <1>2, MeFacts DEF Good, OnMe
<1>4. QED
  BY <1>1, <1>3, TookBecome

(* The steps of a launch after its row is inserted.                        *)
LEMMA LaunchTook ==
  ASSUME IInv, NEW p \in Procs, Queue(p) \/ LaunchLock(p) \/ LaunchStart(p)
  PROVE  Took(p)
<1> DEFINE d == proc[p]
<1>1. d.pc \in {"queue", "launchLock", "launchStart"}
  BY DEF Queue, LaunchLock, LaunchStart, At
<1>2. d.task = Me => d.live \in LiveStates \union {"unknown"}
  BY <1>1, Mine DEF Sees
<1>3. CASE Become(p, [d EXCEPT !.pc = "record"]) /\ StartSession(d.task)
  BY <1>1, <1>2, <1>3, StartsSession, TookWent DEF Placed, Sees, Suits
<1>4. CASE \E pc \in {"delete", "launchStart"} : Become(p, [d EXCEPT !.pc = pc])
  BY <1>1, <1>2, <1>4, TookWent DEF Placed, Sees, Suits
<1>5. CASE \E l : \E pc \in {"delete", "launchStart"} : Become(p, [d EXCEPT !.pc = pc, !.locks = l])
  <2>1. PICK l : \E pc \in {"delete", "launchStart"} : Become(p, [d EXCEPT !.pc = pc, !.locks = l])
    BY <1>5
  <2>0. PICK pc \in {"delete", "launchStart"} : Become(p, [d EXCEPT !.pc = pc, !.locks = l])
    BY <2>1
  <2> DEFINE e == [d EXCEPT !.pc = pc, !.locks = l]
  <2>2. /\ Shaped(e) /\ e.pc = pc /\ e.task = d.task /\ e.seen = d.seen /\ e.ver = d.ver
        /\ e.live = d.live /\ e.move = d.move
    BY MineShaped DEF Shaped
  <2> HIDE DEF e
  <2>3. QED
    BY <1>1, <1>2, <2>0, <2>2, MineShaped, TookOn DEF Placed, Sees, Suits, e
<1>6. QED
  BY <1>3, <1>4, <1>5, TookEnd DEF Queue, LaunchLock, LaunchStart

(* The user's commands.                                                    *)
LEMMA CommandTook ==
  ASSUME IInv, NEW p \in Procs, NEW t \in Tasks,
         NEW kind \in {"finish", "cancel", "discard", "hold", "release", "retry"}, Command(p, t, kind)
  PROVE  Took(p)
<1> DEFINE d == Reading(t)
           pc == IF kind = "discard" /\ Listed(t) THEN "cancel" ELSE kind
           e == [d EXCEPT !.pc = pc, !.job = kind]
<1>1. Become(p, e) /\ Accepts(kind, row[t]) /\ UNCHANGED session
  BY DEF Command, world
<1>2. /\ Shaped(d) /\ d.task = t /\ d.seen = row[t] /\ d.ver = ver[t] /\ d.live = "unknown"
      /\ d.move = Idle.move /\ d.move.effect \in Effects
  BY ReadingIs DEF Effects
<1> HIDE DEF d, pc
<1>3. /\ Shaped(e) /\ e.pc = pc /\ e.job = kind /\ e.task = t /\ e.seen = row[t] /\ e.ver = ver[t]
      /\ e.live = "unknown" /\ e.move = Idle.move /\ e.move.effect \in Effects
  BY <1>2 DEF Shaped
<1> HIDE DEF e
<1>4. row[t].phase # "absent"
  BY <1>1 DEF Accepts, Unfinished, Resumable
<1>5. /\ pc \in {"finish", "cancel", "discard", "hold", "release", "retry"}
      /\ pc = "cancel" => row[t].phase \in Unfinished
      /\ pc = "retry" => Resumable(row[t])
  BY <1>1 DEF pc, Accepts, Listed
<1>6. Placed(e) /\ Sees(e, session'[Me])
  BY <1>3, <1>5 DEF Placed, Sees, Suits
<1>7. QED
  BY <1>1, <1>3, <1>4, <1>5, <1>6, TookRead

(* finish takes the lock.                                                  *)
LEMMA FinishTook == ASSUME IInv, NEW p \in Procs, Finish(p) PROVE Took(p)
<1>1. proc[p].pc = "finish" /\ UNCHANGED session
  BY DEF Finish, At, world
<1>2. CASE row[proc[p].task].phase \in Unfinished /\ Claim(p, "finishing")
  <2>1. \A e : proc[p].task = Me /\ e.pc = "finishing" /\ e.job = "finishing" /\ e.seen = row[Me] => Placed(e)
    BY <1>2 DEF Placed, Suits
  <2>2. QED
    BY <1>1, <1>2, <2>1, ClaimTook DEF Unfinished
<1>3. QED
  BY <1>2, TookEnd DEF Finish, Missed, Listed

(* finish looks at what is left of the task.                               *)
LEMMA FinishingTook == ASSUME IInv, NEW p \in Procs, Finishing(p) PROVE Took(p)
<1> DEFINE d == proc[p]
           m == Stay([d.seen EXCEPT !.phase = "done"])
<1>1. d.pc = "finishing" /\ UNCHANGED session /\ m.effect \in Effects
  BY MoveEffect DEF Finishing, At, world
<1>2. End(p) \/ \E pc \in {"remove", "clean"} : Become(p, [d EXCEPT !.pc = pc, !.move = m])
  BY DEF Finishing
<1>3. ASSUME NEW pc \in {"remove", "clean"}, Become(p, [d EXCEPT !.pc = pc, !.move = m]) PROVE Took(p)
  <2>1. d.task = Me => Legal(d.seen, m) /\ d.job # "landing" /\ d.live \in LiveStates \union {"unknown"}
    BY <1>1, Mine, LegalDone DEF Placed, Sees
  <2> HIDE DEF m
  <2>2. \A e : /\ d.task = Me /\ e.pc = pc /\ e.job = d.job /\ e.seen = d.seen /\ e.live = d.live
               /\ e.move = m
               => Placed(e) /\ Sees(e, session'[Me])
    BY <2>1 DEF Placed, Sees, Suits
  <2>3. QED
    BY <1>1, <1>3, <2>2, TookMove
<1>4. QED
  BY <1>2, <1>3, TookEnd

(* A process that is about to write that the task of the row it read is    *)
(* cancelled.                                                              *)
LEMMA CancelledTook ==
  ASSUME IInv, NEW p \in Procs, proc[p].pc \in {"cancel", "clear"}, UNCHANGED session,
         NEW e, Become(p, e), Shaped(e), e.pc = "write", e.task = proc[p].task, e.seen = proc[p].seen,
         e.ver = proc[p].ver, e.live \in {proc[p].live, "unknown"},
         e.move = Stay(To(proc[p].seen, "cancelled", ""))
  PROVE  Took(p)
<1>1. e.move.effect \in Effects
  BY MoveEffect
<1>2. proc[p].task = Me => Legal(e.seen, e.move) /\ e.live \in LiveStates \union {"unknown"}
  BY Mine, LegalCancelled DEF Placed, Sees
<1>3. QED
  BY <1>1, <1>2, TookOn DEF Placed, Sees, Suits

(* cancel takes the lock.                                                  *)
LEMMA CancelTook == ASSUME IInv, NEW p \in Procs, Cancel(p) PROVE Took(p)
<1> DEFINE d == proc[p]
           m == Stay(To(d.seen, "cancelled", ""))
           c == [d EXCEPT !.move = m, !.pc = "write"]
           s == [d EXCEPT !.pc = "cancelStop"]
<1>1. d.pc = "cancel" /\ UNCHANGED session
  BY DEF Cancel, At, world
<1>2. \/ End(p)
      \/ \E l : Become(p, [s EXCEPT !.locks = l])
      \/ \E l : Become(p, [c EXCEPT !.locks = l])
  BY DEF Cancel, Missed, Cancelled, Become
<1>3. ASSUME NEW l, Become(p, [s EXCEPT !.locks = l]) PROVE Took(p)
  <2> DEFINE e == [s EXCEPT !.locks = l]
  <2>1. /\ Shaped(e) /\ e.pc = "cancelStop" /\ e.job = d.job /\ e.task = d.task /\ e.seen = d.seen
        /\ e.ver = d.ver /\ e.live = d.live /\ e.move = d.move
    BY MineShaped DEF Shaped
  <2> HIDE DEF e
  <2>2. d.task = Me => d.job # "landing" /\ d.live \in LiveStates \union {"unknown"}
    BY <1>1, Mine DEF Placed, Sees
  <2>3. QED
    BY <1>1, <1>3, <2>1, <2>2, MineShaped, TookOn DEF Placed, Sees, Suits, e
<1>4. ASSUME NEW l, Become(p, [c EXCEPT !.locks = l]) PROVE Took(p)
  <2> DEFINE e == [c EXCEPT !.locks = l]
  <2> HIDE DEF m
  <2>1. /\ Shaped(e) /\ e.pc = "write" /\ e.task = d.task /\ e.seen = d.seen
        /\ e.ver = d.ver /\ e.live = d.live /\ e.move = m
    BY MineShaped DEF Shaped
  <2>2. Become(p, e)
    BY <1>4
  <2> HIDE DEF e
  <2>3. QED
    BY <1>1, <2>1, <2>2, CancelledTook DEF m
<1>5. QED
  BY <1>2, <1>3, <1>4, TookEnd

(* cancel stops the session.                                               *)
LEMMA CancelStopTook == ASSUME IInv, NEW p \in Procs, CancelStop(p) PROVE Took(p)
<1> DEFINE d == proc[p]
<1>1. d.pc = "cancelStop" /\ (End(p) \/ Become(p, [d EXCEPT !.pc = "cancelling"]))
  BY DEF CancelStop, At
<1>2. d.task = Me => d.job # "landing" /\ d.live \in LiveStates \union {"unknown"}
  BY <1>1, Mine DEF Placed, Sees
<1>3. QED
  BY <1>1, <1>2, TookWent, TookEnd DEF Placed, Sees, Suits

(* cancel reads the row again.                                             *)
LEMMA CancellingTook == ASSUME IInv, NEW p \in Procs, Cancelling(p) PROVE Took(p)
<1> DEFINE d == proc[p]
           t == d.task
           m == Stay(To(row[t], "cancelled", ""))
           c == [d EXCEPT !.seen = row[t], !.ver = ver[t], !.move = m]
<1>1. d.pc = "cancelling" /\ UNCHANGED session /\ m.effect \in Effects
  BY MoveEffect DEF Cancelling, At, world
<1>2. \/ End(p)
      \/ \E pc \in {"write", "clean"} : row[t].phase \in Unfinished /\ Become(p, [c EXCEPT !.pc = pc])
  BY DEF Cancelling, Listed
<1>3. ASSUME NEW pc \in {"write", "clean"}, row[t].phase \in Unfinished, Become(p, [c EXCEPT !.pc = pc])
      PROVE  Took(p)
  <2> DEFINE e == [c EXCEPT !.pc = pc]
  <2>1. d.task = Me => /\ Legal(row[Me], m) /\ d.job # "landing"
                       /\ d.live \in LiveStates \union {"unknown"} /\ row[Me].phase # "absent"
    BY <1>1, <1>3, Mine, RowTyped, LegalCancelled DEF Placed, Sees, IInv, Unfinished
  <2> HIDE DEF m
  <2>2. /\ Shaped(e) /\ e.pc = pc /\ e.job = d.job /\ e.task = t /\ e.seen = row[t] /\ e.ver = ver[t]
        /\ e.live = d.live /\ e.move = m
    BY MineShaped DEF Shaped
  <2>3. Become(p, e)
    BY <1>3
  <2> HIDE DEF e
  <2>4. QED
    BY <1>1, <2>1, <2>2, <2>3, TookRead DEF Placed, Sees, Suits
<1>4. QED
  BY <1>2, <1>3, TookEnd

(* cancel --discard of a cancelled task.                                   *)
LEMMA DiscardTook == ASSUME IInv, NEW p \in Procs, Discard(p) \/ Discarding(p) PROVE Took(p)
<1> DEFINE d == proc[p]
<1>1. d.pc \in {"discard", "discarding"}
  BY DEF Discard, Discarding, At
<1>2. d.task = Me => d.job # "landing" /\ d.move = Idle.move /\ d.live \in LiveStates \union {"unknown"}
  BY <1>1, Mine DEF Placed, Sees
<1>3. CASE \E l : Become(p, [d EXCEPT !.pc = "discarding", !.locks = l])
  <2>1. PICK l : Become(p, [d EXCEPT !.pc = "discarding", !.locks = l])
    BY <1>3
  <2> DEFINE e == [d EXCEPT !.pc = "discarding", !.locks = l]
  <2>2. /\ Shaped(e) /\ e.pc = "discarding" /\ e.job = d.job /\ e.task = d.task /\ e.seen = d.seen
        /\ e.ver = d.ver /\ e.live = d.live /\ e.move = d.move
    BY MineShaped DEF Shaped
  <2> HIDE DEF e
  <2>3. QED
    BY <1>1, <1>2, <2>1, <2>2, MineShaped, TookOn DEF Placed, Sees, Suits, e
<1>4. CASE Become(p, [d EXCEPT !.pc = "clean"])
  BY <1>1, <1>2, <1>4, TookWent DEF Placed, Sees, Suits
<1>5. QED
  BY <1>3, <1>4, TookEnd DEF Discard, Discarding, Missed

(* A task whose session is gone and that left nothing.                     *)
LEMMA ClearGoneTook == ASSUME IInv, NEW p \in Procs, ClearGone(p) PROVE Took(p)
<1> DEFINE d == proc[p]
           m == Stay(To(d.seen, "cancelled", ""))
           c == [d EXCEPT !.move = m, !.pc = "write"]
<1>1. d.pc = "clear" /\ UNCHANGED session
  BY DEF ClearGone, At, world
<1>2. End(p) \/ \E l : Become(p, [c EXCEPT !.locks = l, !.live = "unknown"])
  BY DEF ClearGone, Missed, Cancelled
<1>3. ASSUME NEW l, Become(p, [c EXCEPT !.locks = l, !.live = "unknown"]) PROVE Took(p)
  <2> DEFINE e == [c EXCEPT !.locks = l, !.live = "unknown"]
  <2> HIDE DEF m
  <2>1. /\ Shaped(e) /\ e.pc = "write" /\ e.task = d.task /\ e.seen = d.seen
        /\ e.ver = d.ver /\ e.live = "unknown" /\ e.move = m
    BY MineShaped DEF Shaped
  <2>2. Become(p, e)
    BY <1>3
  <2> HIDE DEF e
  <2>3. QED
    BY <1>1, <2>1, <2>2, CancelledTook DEF m
<1>4. QED
  BY <1>2, <1>3, TookEnd

---------------------------------------------------------------------------
(* The frames of the steps that leave the row alone.                       *)

SessionFrame ==
  \/ UNCHANGED session
  \/ \E t, x : session' = [session EXCEPT ![t] = x] /\ (x = session[t] \/ x \in LiveStates)

LeftFrame ==
  \/ UNCHANGED left
  \/ \E k, n : left' = [left EXCEPT !.may[k] = n]
  \/ \E a : left' = [left EXCEPT !.launches = @ \ {a}]

Unmoved == UNCHANGED <<row, ver>> /\ SessionFrame /\ LeftFrame /\ VerdictsTyped'

LEMMA SpendFrame == ASSUME NEW kind, Spend(kind) PROVE LeftFrame
  BY DEF Spend, LeftFrame

(* A session that was started stays known.                                 *)
LEMMA SessionLater ==
  ASSUME IInv, SessionFrame
  PROVE  /\ session' = [t \in Tasks |-> session'[t]]
         /\ session'[Me] \in LiveStates \union {"none"}
         /\ session[Me] # "none" => session'[Me] # "none"
<1>1. session = [t \in Tasks |-> session[t]] /\ session[Me] \in LiveStates \union {"none"} /\ Me \in Tasks
  BY MeFacts DEF IInv, Shapes, SessionInv
<1>2. CASE UNCHANGED session
  BY <1>1, <1>2
<1>3. ASSUME NEW t, NEW x, session' = [session EXCEPT ![t] = x], x = session[t] \/ x \in LiveStates
      PROVE  /\ session' = [u \in Tasks |-> session'[u]]
             /\ session'[Me] \in LiveStates \union {"none"}
             /\ session[Me] # "none" => session'[Me] # "none"
  BY <1>1, <1>3 DEF LiveStates
<1>4. QED
  BY <1>2, <1>3 DEF SessionFrame

LEMMA LeftTyped ==
  ASSUME IInv, LeftFrame
  PROVE  left' \in [launches : SUBSET Launches, may : {left'.may}]
<1>1. left \in [launches : SUBSET Launches, may : {left.may}]
  BY DEF IInv, Shapes
<1>2. ASSUME NEW k, NEW n, left' = [left EXCEPT !.may[k] = n]
      PROVE  left' \in [launches : SUBSET Launches, may : {left'.may}]
  BY <1>1, <1>2
<1>3. ASSUME NEW a, left' = [left EXCEPT !.launches = @ \ {a}]
      PROVE  left' \in [launches : SUBSET Launches, may : {left'.may}]
  BY <1>1, <1>3
<1>4. QED
  BY <1>1, <1>2, <1>3 DEF LeftFrame

(* A step of that kind keeps the invariant.                                *)
LEMMA QuietInv ==
  ASSUME IInv, Unmoved, UNCHANGED proc \/ \E p \in Procs : Took(p)
  PROVE  IInv'
<1>1. /\ session' = [t \in Tasks |-> session'[t]] /\ session'[Me] \in LiveStates \union {"none"}
      /\ session[Me] # "none" => session'[Me] # "none"
  BY SessionLater DEF Unmoved
<1>2. row' = row /\ ver' = ver
  BY DEF Unmoved
<1>3. row[Me] \in Rows(Tasks) /\ Alike(row[Me], row[Me])
  BY RowTyped DEF IInv, Alike, Rows
<1>4. Later(row[Me], ver[Me], session[Me], row[Me], ver[Me], session'[Me])
  BY <1>1, <1>3 DEF Later, IInv
<1>5. \A q \in Procs : Good(proc[q], row[Me], ver[Me], session'[Me])
  <2> SUFFICES ASSUME NEW q \in Procs PROVE Good(proc[q], row[Me], ver[Me], session'[Me])
    OBVIOUS
  <2>1. Good(proc[q], row[Me], ver[Me], session[Me])
    BY DEF IInv
  <2>2. QED
    BY <2>1, <1>3, <1>4, GoodLater
<1>6. /\ proc' = [q \in Procs |-> proc'[q]]
      /\ \A q \in Procs : Good(proc'[q], row[Me], ver[Me], session'[Me])
  BY <1>5 DEF Took, IInv, Shapes
<1>7. Shapes'
  BY <1>1, <1>2, <1>6, LeftTyped DEF Shapes, IInv, Unmoved
<1>8. RowInv'
  BY <1>2 DEF RowInv, IInv, Flows!Inv, Flows!TypeOK, Flows!RoundsBounded, Flows!HistoryAligned,
              Flows!AcceptedPassed, Flows!ProgressHasSession, Flows!RoundsGranted
<1>9. SessionInv'
  BY <1>1, <1>2 DEF SessionInv, IInv
<1>10. \A q \in Procs : Good(proc'[q], row'[Me], ver'[Me], session'[Me])
  BY <1>2, <1>6
<1>11. QED
  BY <1>2, <1>7, <1>8, <1>9, <1>10 DEF IInv, Unmoved

(* The steps of the passes, the effects and the check process.             *)
LEMMA WorkFrame ==
  ASSUME IInv, NEW p \in Procs, NEW t \in Tasks,
         \/ List(p, t) \/ Show(p, t) \/ Stopped(p, t) \/ Check(p, t) \/ StoppedLate(p) \/ Look(p)
         \/ Decide(p) \/ SpawnCheck(p) \/ Send(p) \/ StartQueued(p) \/ Land(p) \/ Landing(p) \/ Clean(p)
         \/ CheckClaim(p) \/ CheckApply(p)
  PROVE  Unmoved
  BY SpendFrame DEF Unmoved, IInv, SessionFrame, LeftFrame, VerdictsTyped, world, List, Show, Stopped, Check,
     StoppedLate, Look, Decide, SpawnCheck, Send, StartQueued, Land, Landing, Clean, CheckClaim, CheckApply

(* The steps of the commands.                                              *)
LEMMA UserFrame ==
  ASSUME IInv, NEW p \in Procs, NEW t \in Tasks, NEW a, NEW kind,
         \/ Parse(p, a) \/ Queue(p) \/ LaunchLock(p) \/ Command(p, t, kind) \/ Retry(p) \/ Finish(p)
         \/ Finishing(p) \/ Cancel(p) \/ Cancelling(p) \/ Discard(p) \/ ClearGone(p) \/ Crash(p)
  PROVE  Unmoved
  BY SpendFrame DEF Unmoved, IInv, SessionFrame, LeftFrame, VerdictsTyped, world, Parse, Queue, LaunchLock,
     Command, Retry, Finish, Finishing, Cancel, Cancelling, Discard, ClearGone, Crash

(* The steps that start, stop or remove a session.                         *)
LEMMA SessionStepFrame ==
  ASSUME IInv, NEW p \in Procs,
         Starting(p) \/ LaunchStart(p) \/ Remove(p) \/ CancelStop(p) \/ Discarding(p)
  PROVE  Unmoved
<1>1. UNCHANGED <<row, ver, verdicts>>
  BY DEF Starting, LaunchStart, Remove, CancelStop, Discarding
<1>2. LeftFrame
  BY SpendFrame DEF LeftFrame, Starting, LaunchStart, Remove, CancelStop, Discarding
<1>3. SessionFrame
  <2>1. CASE Starting(p) \/ LaunchStart(p)
    BY <2>1 DEF Starting, LaunchStart, StartSession, SessionFrame, LiveStates
  <2>2. CASE Remove(p)
    BY <2>2 DEF Remove, SessionFrame, LiveStates
  <2>3. \A t : \A s \in Interrupted(session[t]) : s \in LiveStates
    BY DEF Interrupted, LiveStates
  <2>4. CASE CancelStop(p) \/ Discarding(p)
    BY <2>3, <2>4 DEF CancelStop, Discarding, Interrupt, SessionFrame
  <2>5. QED
    BY <2>1, <2>2, <2>4
<1>4. QED
  BY <1>1, <1>2, <1>3 DEF Unmoved, VerdictsTyped, IInv

(* The run of a check.                                                     *)
LEMMA CheckRunFrame == ASSUME IInv, NEW p \in Procs, CheckRun(p) PROVE Unmoved
<1> DEFINE r == proc[p].seen
           others == {v \in verdicts : v.task # proc[p].task \/ v.round # r.round}
           wrote(v) == verdicts' = others \union {[task |-> proc[p].task, round |-> r.round,
                                      for |-> proc[p].ver, kind |-> v.kind, count |-> v.count]}
<1>1. UNCHANGED <<row, ver, session>> /\ LeftFrame
  BY SpendFrame DEF CheckRun, LeftFrame
<1>2. \E v \in CmdVerdicts \union ReviewVerdicts \union {NoAnswer} : wrote(v)
  BY DEF CheckRun
<1>3. \A v \in CmdVerdicts \union ReviewVerdicts \union {NoAnswer} :
        v.kind \in {"pass", "fail", "error"} /\ v.count \in Counts \union {0, 1}
  BY DEF CmdVerdicts, ReviewVerdicts, NoAnswer, Verdicts
<1>4. VerdictsTyped'
  BY <1>2, <1>3 DEF VerdictsTyped, IInv
<1>5. QED
  BY <1>1, <1>4 DEF Unmoved, SessionFrame

(* The steps of the workers and the people around them.                    *)
LEMMA WorldFrame == ASSUME IInv, World PROVE Unmoved /\ UNCHANGED proc
<1>1. UNCHANGED <<row, ver, verdicts, proc>>
  BY DEF World, TurnEnds, PicksUp, Outside, UserMerges, LoseSpawn, LoseStop
<1>2. LeftFrame
  BY SpendFrame DEF LeftFrame, World, TurnEnds, PicksUp, Outside, UserMerges, LoseSpawn, LoseStop
<1>3. SessionFrame
  BY DEF SessionFrame, LiveStates, World, TurnEnds, PicksUp, Outside, UserMerges, LoseSpawn, LoseStop
<1>4. QED
  BY <1>1, <1>2, <1>3 DEF Unmoved, VerdictsTyped, IInv

---------------------------------------------------------------------------
(* The steps that write the row.                                           *)

Follows == row'[Me] = row[Me] \/ Row!Next

(* A step of the flow keeps what is proved of the flow.                    *)
LEMMA FlowsKept == ASSUME IInv, Follows PROVE Flows!Inv' /\ row'[Me] \in Rows(Tasks)
<1>1. /\ Counts \union {0, 1} \subseteq Nat /\ Rounds \in Nat \ {0} /\ 0 \in Nat
  BY SquadCountsAssumption, SquadRoundsAssumption
<1>2. Flows!Inv /\ [Flows!Next]_Flows!vars
  BY SameFlow DEF Follows, IInv, RowInv, Flows!vars
<1>3. Flows!Inv'
  BY <1>1, <1>2, Flows!StepSound
<1>4. row'[Me] \in Rows(Tasks)
  BY <1>3, SameRows DEF Flows!Inv, Flows!TypeOK
<1>5. QED
  BY <1>3, <1>4

(* A step that writes the table, and follows the flow.                     *)
LEMMA WroteInv ==
  ASSUME IInv, NEW p \in Procs, Follows,
         row' = [t \in Tasks |-> row'[t]], ver' = [t \in Tasks |-> ver'[t]],
         UNCHANGED <<session, verdicts, left>>,
         NEW e, Become(p, e), Good(e, row'[Me], ver'[Me], session[Me]),
         row'[Me].phase = "absent" => row'[Me] = NoRow,
         Waits(row'[Me]),
         row'[Me].session => session[Me] # "none",
         Later(row[Me], ver[Me], session[Me], row'[Me], ver'[Me], session[Me])
  PROVE  IInv'
<1>1. Flows!Inv' /\ row'[Me] \in Rows(Tasks) /\ row[Me] \in Rows(Tasks)
  BY FlowsKept, RowTyped DEF IInv
<1>2. \A q \in Procs : Good(proc[q], row'[Me], ver'[Me], session[Me])
  <2> SUFFICES ASSUME NEW q \in Procs PROVE Good(proc[q], row'[Me], ver'[Me], session[Me])
    OBVIOUS
  <2>1. Good(proc[q], row[Me], ver[Me], session[Me])
    BY DEF IInv
  <2>2. QED
    BY <1>1, <2>1, GoodLater
<1>3. /\ proc' = [q \in Procs |-> proc'[q]]
      /\ \A q \in Procs : Good(proc'[q], row'[Me], ver'[Me], session'[Me])
  BY <1>2 DEF Become, IInv, Shapes
<1>4. Shapes'
  BY <1>3 DEF Shapes, IInv
<1>5. RowInv'
  BY <1>1 DEF RowInv
<1>6. SessionInv'
  BY DEF SessionInv, IInv
<1>7. ver'[Me] \in Nat
  BY DEF Later
<1>8. QED
  BY <1>3, <1>4, <1>5, <1>6, <1>7 DEF IInv, VerdictsTyped

LEMMA RowUpdated ==
  ASSUME IInv, NEW t, NEW r, row' = [row EXCEPT ![t] = r]
  PROVE  /\ row' = [u \in Tasks |-> row'[u]]
         /\ t = Me => row'[Me] = r
         /\ t # Me => row'[Me] = row[Me]
  BY MeFacts DEF IInv, Shapes

LEMMA VerUpdated ==
  ASSUME IInv, NEW t, NEW n, ver' = [ver EXCEPT ![t] = n]
  PROVE  /\ ver' = [u \in Tasks |-> ver'[u]]
         /\ t = Me => ver'[Me] = n
         /\ t # Me => ver'[Me] = ver[Me]
  BY MeFacts DEF IInv, Shapes

(* A step that leaves this task's row as it is.                            *)
LEMMA ElsewhereInv ==
  ASSUME IInv, NEW p \in Procs, row'[Me] = row[Me], ver'[Me] = ver[Me],
         row' = [t \in Tasks |-> row'[t]], ver' = [t \in Tasks |-> ver'[t]],
         UNCHANGED <<session, verdicts, left>>,
         NEW e, Become(p, e), Good(e, row[Me], ver[Me], session[Me])
  PROVE  IInv' /\ Follows
<1>1. row[Me] \in Rows(Tasks) /\ Alike(row[Me], row[Me])
  BY RowTyped DEF IInv, Alike, Rows
<1>2. Later(row[Me], ver[Me], session[Me], row'[Me], ver'[Me], session[Me])
  BY <1>1 DEF Later, IInv
<1>3. Follows
  BY DEF Follows
<1>4. /\ row'[Me].phase = "absent" => row'[Me] = NoRow
      /\ Waits(row'[Me]) /\ (row'[Me].session => session[Me] # "none")
  BY DEF IInv, RowInv, SessionInv
<1>5. Good(e, row'[Me], ver'[Me], session[Me])
  OBVIOUS
<1>6. QED
  BY <1>2, <1>3, <1>4, <1>5, WroteInv

LEMMA NoRowIs == Row!NoRow = NoRow /\ NoRow.phase = "absent" /\ NoRow.session = FALSE /\ NoRow.step = ""
  BY DEF Row!NoRow, NoRow

(* Store.Delete.                                                           *)
LEMMA DeleteInv == ASSUME IInv, NEW p \in Procs, Delete(p) PROVE IInv' /\ Follows
<1> DEFINE t == proc[p].task
<1>1. /\ row' = [row EXCEPT ![t] = NoRow] /\ Become(p, Idle)
      /\ UNCHANGED <<ver, session, verdicts, left>>
  BY DEF Delete, End, world
<1>2. /\ row' = [u \in Tasks |-> row'[u]] /\ ver' = [u \in Tasks |-> ver'[u]] /\ ver'[Me] = ver[Me]
  BY <1>1, RowUpdated DEF IInv, Shapes
<1>3. CASE t # Me
  <2>1. row'[Me] = row[Me]
    BY <1>1, <1>3, RowUpdated
  <2>2. QED
    BY <1>1, <1>2, <2>1, GoodIdle, ElsewhereInv
<1>4. CASE t = Me
  <2>1. row'[Me] = NoRow
    BY <1>1, <1>4, RowUpdated
  <2>2. Follows
    <3>1. CASE row[Me].phase = "absent"
      BY <2>1, <3>1 DEF Follows, IInv, RowInv
    <3>2. CASE row[Me].phase # "absent"
      BY <2>1, <3>2, NoRowIs DEF Follows, Row!Next, Row!Withdraw
    <3>3. QED
      BY <3>1, <3>2
  <2>3. Later(row[Me], ver[Me], session[Me], row'[Me], ver'[Me], session[Me])
    <3>1. row'[Me].phase = "absent" /\ ver[Me] \in Nat
      BY <2>1, NoRowIs DEF IInv
    <3>2. QED
      BY <1>2, <3>1 DEF Later
  <2>4. Waits(row'[Me]) /\ ~row'[Me].session
    BY <2>1, NoRowIs DEF Waits
  <2>5. QED
    BY <1>1, <1>2, <2>1, <2>2, <2>3, <2>4, GoodIdle, WroteInv
<1>5. QED
  BY <1>3, <1>4

(* SetSession and SetHold write a field Transition does not.               *)
LEMMA SetInv ==
  ASSUME IInv, NEW p \in Procs, NEW u,
         LET r == row[Me]
         IN  /\ r.phase # "absent" => \/ u = r
                                      \/ ~r.session /\ session[Me] # "none" /\ u = [r EXCEPT !.session = TRUE]
                                      \/ u = [r EXCEPT !.hold = ~r.hold]
             /\ r.phase = "absent" => u = r,
         row'[Me] = u, row' = [t \in Tasks |-> row'[t]],
         End(p), UNCHANGED <<ver, session, verdicts, left>>
  PROVE  IInv' /\ Follows
<1> DEFINE r == row[Me]
<1>1. r \in Rows(Tasks) /\ ver' = [t \in Tasks |-> ver'[t]] /\ ver'[Me] = ver[Me] /\ ver[Me] \in Nat
  BY RowTyped DEF IInv, Shapes
<1>2. Become(p, Idle)
  BY DEF End
<1>3. CASE u = r
  BY <1>1, <1>2, <1>3, GoodIdle, ElsewhereInv
<1>4. CASE /\ r.phase # "absent"
           /\ \/ ~r.session /\ session[Me] # "none" /\ u = [r EXCEPT !.session = TRUE]
              \/ u = [r EXCEPT !.hold = ~r.hold]
  <2>1. Follows
    BY <1>4 DEF Follows, Row!Next, Row!RecordSession, Row!SetHold
  <2>2. Alike(r, u) /\ u.phase = r.phase /\ u.step = r.step /\ u.after = r.after
        /\ (u.session => r.session \/ session[Me] # "none")
    BY <1>1, <1>4 DEF Alike, Rows
  <2>3. Later(r, ver[Me], session[Me], u, ver'[Me], session[Me])
    BY <1>1, <1>4, <2>2 DEF Later
  <2>4. Waits(u) /\ u.phase # "absent" /\ (u.session => session[Me] # "none")
    BY <1>4, <2>2 DEF Waits, IInv, RowInv, SessionInv
  <2> HIDE DEF r
  <2>5. QED
    BY <1>1, <1>2, <2>1, <2>3, <2>4, GoodIdle, WroteInv DEF r
<1>5. QED
  BY <1>3, <1>4

(* Store.SetSession.                                                       *)
LEMMA RecordInv == ASSUME IInv, NEW p \in Procs, Record(p) PROVE IInv' /\ Follows
<1> DEFINE t == proc[p].task
<1>1. /\ proc[p].pc = "record" /\ End(p) /\ UNCHANGED <<ver, session, verdicts, left>>
      /\ row' = IF row[t].phase = "absent" THEN row ELSE [row EXCEPT ![t].session = TRUE]
  BY DEF Record, At, world
<1>2. row' = [u \in Tasks |-> row'[u]]
      /\ row'[Me] = IF t = Me /\ row[Me].phase # "absent" THEN [row[Me] EXCEPT !.session = TRUE] ELSE row[Me]
  BY <1>1, MeFacts DEF IInv, Shapes
<1>3. t = Me => session[Me] # "none"
  BY <1>1, Mine DEF Sees
<1>4. row[Me].session => [row[Me] EXCEPT !.session = TRUE] = row[Me]
  BY RowTyped DEF IInv, Rows
<1>5. QED
  BY <1>1, <1>2, <1>3, <1>4, SetInv

(* Store.SetHold.                                                          *)
LEMMA SetHoldInv == ASSUME IInv, NEW p \in Procs, SetHold(p) PROVE IInv' /\ Follows
<1> DEFINE t == proc[p].task
           b == proc[p].pc = "hold"
<1>1. /\ End(p) /\ UNCHANGED <<ver, session, verdicts, left>> /\ b \in BOOLEAN
      /\ row' = IF row[t].phase = "absent" THEN row ELSE [row EXCEPT ![t].hold = b]
  BY DEF SetHold, world
<1> HIDE DEF b
<1>2. row' = [u \in Tasks |-> row'[u]]
      /\ row'[Me] = IF t = Me /\ row[Me].phase # "absent" THEN [row[Me] EXCEPT !.hold = b] ELSE row[Me]
  BY <1>1, MeFacts DEF IInv, Shapes
<1>3. [row[Me] EXCEPT !.hold = b] \in {row[Me], [row[Me] EXCEPT !.hold = ~row[Me].hold]}
  BY <1>1, RowTyped DEF IInv, Rows
<1>4. QED
  BY <1>1, <1>2, <1>3, SetInv

(* A reading of the row as it is lacks at most the session.                *)
LEMMA AlikeIs ==
  ASSUME NEW s \in Rows(Tasks), NEW r \in Rows(Tasks), Alike(s, r), r.hold = s.hold
  PROVE  /\ s = [r EXCEPT !.session = s.session] /\ s.session \in {FALSE, r.session}
         /\ r.step = s.step /\ r.after = s.after
<1>1. /\ s = [r EXCEPT !.session = s.session, !.hold = r.hold] /\ (s.session => r.session)
      /\ s.session \in BOOLEAN /\ r.session \in BOOLEAN
  BY DEF Alike, Rows
<1>2. s = [r EXCEPT !.session = s.session] /\ r.step = s.step /\ r.after = s.after
  BY <1>1 DEF Rows
<1>3. QED
  BY <1>1, <1>2

(* Mover.Apply.                                                            *)
LEMMA WriteInv == ASSUME IInv, NEW p \in Procs, Write(p) PROVE IInv' /\ Follows
<1> DEFINE d == proc[p]
           t == d.task
           m == d.move
           s == d.seen
           r == row[Me]
           u == Stored(row[t], m.next)
           n == IF m.next.phase # row[t].phase \/ m.next.step # row[t].step THEN ver[t] + 1 ELSE ver[t]
           e == IF m.effect = "none" THEN Idle
                ELSE [d EXCEPT !.pc = m.effect, !.seen = row'[t], !.ver = ver'[t], !.move = Idle.move]
<1>1. d.pc = "write" /\ UNCHANGED <<session, verdicts, left>>
  BY DEF Write, At, world
<1>2. r \in Rows(Tasks) /\ ver[Me] \in Nat /\ Shaped(d) /\ m.effect \in Effects
  BY RowTyped, MineShaped DEF IInv
<1>3. CASE ~Wins(p)
  <2>1. End(p) /\ row' = row /\ ver' = ver
    BY <1>3 DEF Write
  <2>2. Become(p, Idle)
    BY <2>1 DEF End
  <2>3. QED
    BY <1>1, <2>1, <2>2, GoodIdle, ElsewhereInv DEF IInv, Shapes
<1>4. CASE Wins(p)
  <2>1. row' = [row EXCEPT ![t] = u] /\ ver' = [ver EXCEPT ![t] = n] /\ Become(p, e)
    BY <1>4 DEF Write, Transition, Stored, End
  <2>2. row' = [x \in Tasks |-> row'[x]] /\ ver' = [x \in Tasks |-> ver'[x]]
    <3> HIDE DEF u, n
    <3>1. QED
      BY <2>1, RowUpdated, VerUpdated
  <2>3. m.effect # "none" =>
          /\ Shaped(e) /\ e.pc = m.effect /\ e.task = t /\ e.seen = row'[t] /\ e.ver = ver'[t]
          /\ e.live = d.live /\ e.move = Idle.move /\ e.move.effect \in Effects
    BY <1>2, ReadingIs DEF Shaped, Effects
  <2>4. m.effect = "none" => e = Idle
    OBVIOUS
  <2> HIDE DEF e
  <2>5. e.pc # "insert" \/ e = Idle
    BY <1>2, <2>3, <2>4 DEF Effects
  <2>6. CASE t # Me
    <3>1. row'[Me] = row[Me] /\ ver'[Me] = ver[Me]
      <4> HIDE DEF u, n
      <4>1. QED
        BY <2>1, <2>6, RowUpdated, VerUpdated
    <3>2. m.effect # "none" => Good(e, row[Me], ver[Me], session[Me])
      BY <1>2, <2>3, <2>5, <2>6, GoodIdle DEF Good, OnMe
    <3>3. QED
      BY <1>1, <2>1, <2>2, <2>4, <3>1, <3>2, GoodIdle, ElsewhereInv
  <2>7. CASE t = Me
    <3>1. /\ s \in Rows(Tasks) /\ s.phase # "absent" /\ Legal(s, m) /\ d.ver = ver[Me]
          /\ r.phase = s.phase /\ r.hold = s.hold /\ d.live \in LiveStates \union {"unknown"}
      BY <1>1, <1>4, <2>7, Mine DEF Placed, Sees, Wins, Same
    <3>2. Alike(s, r)
      BY <1>1, <2>7, <3>1, Mine
    <3>3. s = [r EXCEPT !.session = s.session] /\ s.session \in {FALSE, r.session} /\ r.step = s.step
          /\ r.after = s.after
      <4> HIDE DEF s, r
      <4>1. QED
        BY <1>2, <3>1, <3>2, AlikeIs
    <3>4. /\ RowShape(m.next) /\ m.next.hold = s.hold /\ m.next # s /\ Moved(s, m.next)
          /\ m.next.after = s.after /\ m.next.phase # "absent" /\ Waits(m.next)
          /\ Suits(m.effect, m.next)
          /\ m.next.phase # s.phase \/ m.next.step # s.step
      BY <3>1 DEF Legal, Fit
    <3>5. row'[Me] = Stored(r, m.next)
      <4> HIDE DEF u, n
      <4>1. row'[Me] = u
        BY <2>1, <2>7, RowUpdated
      <4>2. QED
        BY <4>1, <2>7 DEF u
    <3>6. ver'[Me] = ver[Me] + 1
      <4> HIDE DEF u, n
      <4>1. ver'[Me] = n
        BY <2>1, <2>7, VerUpdated
      <4>2. QED
        BY <4>1, <2>7, <3>1, <3>3, <3>4 DEF n
    <3>7. /\ row'[Me].phase = m.next.phase /\ row'[Me].step = m.next.step
          /\ row'[Me].after = m.next.after /\ row'[Me].session = r.session
      BY <3>4, <3>5 DEF Stored, RowShape
    <3>8. Follows
      <4>1. r.max # 0
        BY <3>1, RowTyped DEF IInv
      <4>2. Row!Next
        BY <1>2, <3>1, <3>3, <3>4, <3>5, <4>1, WinSteps
      <4>3. QED
        BY <4>2 DEF Follows
    <3>9. Later(r, ver[Me], session[Me], row'[Me], ver'[Me], session[Me])
      BY <1>2, <3>6 DEF Later
    <3>10. Waits(row'[Me]) /\ row'[Me].phase # "absent" /\ (row'[Me].session => session[Me] # "none")
      BY <3>4, <3>7 DEF Waits, IInv, SessionInv
    <3>11. m.effect # "none" => Placed(e) /\ Sees(e, session[Me])
      BY <1>2, <2>3, <2>7, <3>1, <3>4, <3>7 DEF Placed, Sees, Suits, Effects
    <3>12. Good(e, row'[Me], ver'[Me], session[Me])
      <4>1. row'[Me] \in Rows(Tasks) /\ ver'[Me] \in Nat
        BY <1>2, <3>6, <3>8, FlowsKept
      <4>2. QED
        BY <2>3, <2>4, <2>5, <2>7, <3>10, <3>11, <4>1, GoodIdle, GoodRead
    <3> HIDE DEF r
    <3>13. QED
      BY <1>1, <2>1, <2>2, <3>8, <3>9, <3>10, <3>12, WroteInv DEF r
  <2>8. QED
    BY <2>6, <2>7
<1>5. QED
  BY <1>3, <1>4

(* store.Insert.                                                           *)
LEMMA InsertInv == ASSUME IInv, NEW p \in Procs, Insert(p) PROVE IInv' /\ Follows
<1> DEFINE d == proc[p]
           r == row[Me]
           ready == \A x \in d.seen.after : row[x].phase = "done"
           new == [d.seen EXCEPT !.phase = IF ready THEN "running" ELSE "waiting"]
           pc == IF ready THEN "launchLock" ELSE "queue"
<1>1. PICK t \in Tasks :
        /\ IsNextId(t)
        /\ row' = [row EXCEPT ![t] = new]
        /\ ver' = [ver EXCEPT ![t] = @ + 1]
        /\ Become(p, [[d EXCEPT !.task = t, !.seen = new, !.ver = ver[t] + 1] EXCEPT !.pc = pc])
  BY DEF Insert
<1>2. d.pc = "insert" /\ UNCHANGED <<session, verdicts, left>>
  BY DEF Insert, At, world
<1>3. PICK a \in Launches : d.seen = Asked(a)
  BY <1>2 DEF IInv, Good
<1> DEFINE e == [[d EXCEPT !.task = t, !.seen = new, !.ver = ver[t] + 1] EXCEPT !.pc = pc]
<1> HIDE DEF pc, new
<1>4. /\ Shaped(e) /\ e.pc = pc /\ e.task = t /\ e.seen = new /\ e.ver = ver[t] + 1
      /\ e.live = d.live /\ e.move = d.move /\ e.move.effect \in Effects
  BY MineShaped DEF Shaped
<1>5. Become(p, e)
  BY <1>1
<1> HIDE DEF e
<1>6. row' = [u \in Tasks |-> row'[u]] /\ ver' = [u \in Tasks |-> ver'[u]]
  BY <1>1, RowUpdated, VerUpdated
<1>7. pc \in {"launchLock", "queue"}
  BY DEF pc
<1>8. CASE t # Me
  <2>1. row'[Me] = row[Me] /\ ver'[Me] = ver[Me]
    BY <1>1, <1>8, RowUpdated, VerUpdated
  <2>2. Good(e, row[Me], ver[Me], session[Me])
    BY <1>4, <1>7, <1>8 DEF Good, OnMe
  <2>3. QED
    BY <1>2, <1>5, <1>6, <2>1, <2>2, ElsewhereInv
<1>9. CASE t = Me
  <2>1. row'[Me] = new /\ ver'[Me] = ver[Me] + 1 /\ ver[Me] \in Nat
    BY <1>1, <1>9, RowUpdated, VerUpdated DEF IInv
  <2>2. r.phase = "absent"
    <3>1. r.phase # "absent" => Me < Me
      BY <1>1, <1>9, MeFacts DEF IsNextId
    <3>2. Me \in Nat
      BY MeFacts, TasksAssumption
    <3>3. QED
      BY <3>1, <3>2
  <2>3. /\ a.after \in SUBSET Tasks /\ a.check \in CheckSpecs /\ a.merge \in BOOLEAN
        /\ a.hold \in BOOLEAN /\ a.inPlace \in BOOLEAN /\ (a.merge => ~a.hold /\ ~a.inPlace)
    BY DEF Launches
  <2>4. PICK ph \in {"running", "waiting"} :
          new = [Asked(a) EXCEPT !.phase = ph] /\ (ph = "waiting" => a.after # {})
    <3>1. d.seen.after = a.after
      BY <1>3 DEF Asked, NoRow
    <3>2. QED
      BY <1>3, <3>1 DEF new
  <2>5. new = Row!NewRow(ph, a.after, a.check, a.merge, a.hold, a.inPlace)
    BY <2>4 DEF Asked, NoRow, Row!NewRow, Row!NoRow
  <2>6. new.phase = ph /\ new.after = a.after /\ new.session = FALSE /\ new.step = ""
        /\ new.merge = a.merge /\ new.hold = a.hold /\ new.inPlace = a.inPlace
    BY <2>4 DEF Asked, NoRow
  <2>7. Row!Launch
    <3>1. new \in Row!NewRows
      <4>1. a.check \in Row!CheckSpecs
        BY <2>3 DEF CheckSpecs, Row!CheckSpecs
      <4>2. \E p1 \in {"running", "waiting"}, a1 \in SUBSET Tasks, c1 \in Row!CheckSpecs,
                m1 \in BOOLEAN, h1 \in BOOLEAN, i1 \in BOOLEAN : new = Row!NewRow(p1, a1, c1, m1, h1, i1)
        BY <2>3, <2>5, <4>1, Zenon
      <4>3. QED
        BY <4>2 DEF Row!NewRows
    <3>2. Row!Launchable(new)
      BY <2>3, <2>4, <2>6 DEF Row!Launchable
    <3>3. QED
      BY <2>1, <2>2, <3>1, <3>2 DEF Row!Launch
  <2>8. Follows
    BY <2>7 DEF Follows, Row!Next
  <2>9. Later(r, ver[Me], session[Me], row'[Me], ver'[Me], session[Me])
    BY <2>1 DEF Later
  <2>10. Waits(new) /\ new.phase # "absent"
    BY <2>4, <2>6 DEF Waits
  <2>11. d.live \in LiveStates \union {"unknown"}
    BY <1>2 DEF IInv, Good
  <2>12. Placed(e)
    BY <1>4, <1>7 DEF Placed, Suits
  <2>13. Good(e, row'[Me], ver'[Me], session[Me])
    <3>1. row'[Me] \in Rows(Tasks) /\ ver'[Me] \in Nat
      BY <2>1, <2>8, FlowsKept
    <3>2. QED
      BY <1>4, <1>7, <1>9, <2>1, <2>10, <2>11, <2>12, <3>1, GoodRead DEF Sees
  <2>14. QED
    BY <1>2, <1>5, <1>6, <2>1, <2>6, <2>8, <2>9, <2>10, <2>13, WroteInv
<1>10. QED
  BY <1>8, <1>9

---------------------------------------------------------------------------
(* Every step keeps the invariant, and is a step of the flow to the row.   *)
LEMMA QuietFollows == ASSUME Unmoved PROVE Follows
  BY DEF Unmoved, Follows

(* A process that dies, or has nothing to do.                              *)
LEMMA CrashTook == ASSUME IInv, NEW p \in Procs, StoppedLate(p) \/ Crash(p) PROVE Took(p)
  BY TookEnd DEF StoppedLate, Crash

LEMMA StepInv == ASSUME IInv, [Next]_vars PROVE IInv' /\ Follows
<1>1. CASE UNCHANGED vars
  <2>1. Unmoved /\ UNCHANGED proc
    BY <1>1 DEF vars, world, Unmoved, IInv, SessionFrame, LeftFrame, VerdictsTyped
  <2>2. QED
    BY <2>1, QuietInv, QuietFollows
<1>2. CASE World
  BY <1>2, WorldFrame, QuietInv, QuietFollows
<1>3. ASSUME NEW p \in Procs, Unmoved, Took(p) PROVE IInv' /\ Follows
  BY <1>3, QuietInv, QuietFollows
<1>4. ASSUME NEW p \in Procs, Pass(p) PROVE IInv' /\ Follows
  <2>1. ASSUME NEW t \in Tasks, List(p, t) \/ Show(p, t) PROVE IInv' /\ Follows
    BY <1>3, <2>1, ListTook, WorkFrame
  <2>2. CASE StoppedLate(p)
    BY <1>3, <2>2, CrashTook, WorkFrame, MeFacts
  <2>3. CASE Look(p)
    BY <1>3, <2>3, LookTook, WorkFrame, MeFacts
  <2>4. CASE Decide(p)
    BY <1>3, <2>4, DecideTook, WorkFrame, MeFacts
  <2>5. CASE Write(p)
    BY <2>5, WriteInv
  <2>6. QED
    BY <1>4, <2>1, <2>2, <2>3, <2>4, <2>5 DEF Pass
<1>5. ASSUME NEW p \in Procs, Effect(p) PROVE IInv' /\ Follows
  <2>1. CASE SpawnCheck(p) \/ Send(p)
    BY <1>3, <2>1, SpawnTook, WorkFrame, MeFacts
  <2>2. CASE StartQueued(p)
    BY <1>3, <2>2, StartQueuedTook, WorkFrame, MeFacts
  <2>3. CASE Starting(p)
    BY <1>3, <2>3, StartingTook, SessionStepFrame
  <2>4. CASE Record(p)
    BY <2>4, RecordInv
  <2>5. CASE Land(p)
    BY <1>3, <2>5, LandTook, WorkFrame, MeFacts
  <2>6. CASE Landing(p)
    BY <1>3, <2>6, LandingTook, WorkFrame, MeFacts
  <2>7. CASE Clean(p)
    BY <1>3, <2>7, CleanTook, WorkFrame, MeFacts
  <2>8. CASE Remove(p)
    BY <1>3, <2>8, RemoveTook, SessionStepFrame
  <2>9. QED
    BY <1>5, <2>1, <2>2, <2>3, <2>4, <2>5, <2>6, <2>7, <2>8 DEF Effect
<1>6. ASSUME NEW p \in Procs, Checker(p) PROVE IInv' /\ Follows
  <2>1. CASE CheckClaim(p)
    BY <1>3, <2>1, CheckClaimTook, WorkFrame, MeFacts
  <2>2. CASE CheckRun(p)
    BY <1>3, <2>2, CheckRunTook, CheckRunFrame
  <2>3. CASE CheckApply(p)
    BY <1>3, <2>3, CheckApplyTook, WorkFrame, MeFacts
  <2>4. QED
    BY <1>6, <2>1, <2>2, <2>3 DEF Checker
<1>7. ASSUME NEW p \in Procs, User(p) PROVE IInv' /\ Follows
  <2>1. ASSUME NEW a \in left.launches, Parse(p, a) PROVE IInv' /\ Follows
    <3>1. a \in Launches
      BY <2>1 DEF IInv, Shapes
    <3>2. Took(p)
      BY <2>1, <3>1, ParseTook
    <3>3. Unmoved
      BY <2>1, MeFacts, UserFrame
    <3>4. QED
      BY <1>3, <3>2, <3>3
  <2>2. CASE Insert(p)
    BY <2>2, InsertInv
  <2>3. CASE Queue(p) \/ LaunchLock(p)
    BY <1>3, <2>3, LaunchTook, UserFrame, MeFacts
  <2>4. CASE LaunchStart(p)
    BY <1>3, <2>4, LaunchTook, SessionStepFrame
  <2>5. CASE Delete(p)
    BY <2>5, DeleteInv
  <2>6. ASSUME NEW t \in Tasks, NEW kind \in {"finish", "cancel", "discard", "hold", "release", "retry"},
               Command(p, t, kind)
        PROVE  IInv' /\ Follows
    BY <1>3, <2>6, CommandTook, UserFrame
  <2>7. CASE Retry(p)
    BY <1>3, <2>7, RetryTook, UserFrame, MeFacts
  <2>8. CASE SetHold(p)
    BY <2>8, SetHoldInv
  <2>9. CASE Finish(p)
    BY <1>3, <2>9, FinishTook, UserFrame, MeFacts
  <2>10. CASE Finishing(p)
    BY <1>3, <2>10, FinishingTook, UserFrame, MeFacts
  <2>11. CASE Cancel(p)
    BY <1>3, <2>11, CancelTook, UserFrame, MeFacts
  <2>12. CASE CancelStop(p)
    BY <1>3, <2>12, CancelStopTook, SessionStepFrame
  <2>13. CASE Cancelling(p)
    BY <1>3, <2>13, CancellingTook, UserFrame, MeFacts
  <2>14. CASE Discard(p)
    BY <1>3, <2>14, DiscardTook, UserFrame, MeFacts
  <2>15. CASE Discarding(p)
    BY <1>3, <2>15, DiscardTook, SessionStepFrame
  <2>16. CASE ClearGone(p)
    BY <1>3, <2>16, ClearGoneTook, UserFrame, MeFacts
  <2>17. QED
    BY <1>7, <2>1, <2>2, <2>3, <2>4, <2>5, <2>6, <2>7, <2>8, <2>9, <2>10, <2>11, <2>12, <2>13, <2>14,
       <2>15, <2>16 DEF User
<1>8. ASSUME NEW p \in Procs, Crash(p) PROVE IInv' /\ Follows
  BY <1>3, <1>8, CrashTook, UserFrame, MeFacts
<1>9. ASSUME NEW p \in Procs, NEW t \in Tasks, Stopped(p, t) \/ Check(p, t) PROVE IInv' /\ Follows
  BY <1>3, <1>9, StoppedTook, CheckTook, WorkFrame
<1>10. QED
  BY <1>1, <1>2, <1>4, <1>5, <1>6, <1>7, <1>8, <1>9 DEF Next

(* The table is empty at first.                                            *)
LEMMA InitInv == Init => IInv /\ Row!Init
<1> SUFFICES ASSUME Init PROVE IInv /\ Row!Init
  OBVIOUS
<1>1. row[Me] = NoRow /\ session[Me] = "none" /\ ver[Me] = 0
  BY MeFacts DEF Init
<1>2. Row!Init
  BY <1>1, NoRowIs DEF Row!Init
<1>3. Flows!Inv
  <2>1. /\ Counts \union {0, 1} \subseteq Nat /\ Rounds \in Nat \ {0} /\ 0 \in Nat
    BY SquadCountsAssumption, SquadRoundsAssumption
  <2>2. QED
    BY <1>2, <2>1, SameFlow, Flows!InitSound
<1>4. Waits(NoRow)
  BY NoRowIs DEF Waits
<1>5. RowInv /\ SessionInv
  BY <1>1, <1>3, <1>4, NoRowIs DEF RowInv, SessionInv
<1>6. Shapes /\ VerdictsTyped
  BY PlaysAssumption DEF Init, Shapes, VerdictsTyped
<1>7. \A p \in Procs : Good(proc[p], row[Me], ver[Me], session[Me])
  BY GoodIdle DEF Init
<1>8. QED
  BY <1>1, <1>2, <1>5, <1>6, <1>7 DEF IInv

(* The invariant holds whatever the processes do.                          *)
LEMMA SquadInvariant == Spec => []IInv
<1>1. Init => IInv
  BY InitInv
<1>2. IInv /\ [Next]_vars => IInv'
  BY StepInv
<1>3. QED
  BY <1>1, <1>2, PTL DEF Spec

(* Every process that moves a task's row does so by a step of the flow:    *)
(* the rows that several passes, checks and commands write at once change  *)
(* as one process at a time would change them.                             *)
THEOREM RowFollows == Spec => RowFollowsFlow
<1>1. IInv /\ [Next]_vars => [row'[Me] # row[Me] => Row!Next]_vars
  BY StepInv DEF Follows
<1>2. QED
  BY <1>1, SquadInvariant, PTL DEF Spec, RowFollowsFlow

(* The detailed specification implements the abstract one: whatever the    *)
(* processes do at once, each task's row behaves as TaskFlow says one row  *)
(* does.                                                                   *)
THEOREM RowImplementsFlow == Spec => Row!Spec
<1>1. Init => Row!Init
  BY InitInv
<1>2. IInv /\ [Next]_vars => [Row!Next]_(Row!vars)
  BY StepInv DEF Follows, Row!vars
<1>3. QED
  BY <1>1, <1>2, SquadInvariant, PTL DEF Spec, Row!Spec

(* However many processes check, retry and fix a task at once, no check    *)
(* runs outside the rounds granted (Flow.VerdictMove, Store.Transition).   *)
THEOREM SquadRoundsBounded == Spec => []Row!RoundsBounded
<1>1. IInv => Row!RoundsBounded
  BY DEF IInv, RowInv, Flows!Inv, Flows!RoundsBounded, Row!RoundsBounded
<1>2. QED
  BY <1>1, SquadInvariant, PTL

(* Work of a task with a check is merged or ready only when its last       *)
(* verdict passed, also when verdicts are late or applied by several       *)
(* processes.                                                              *)
THEOREM SquadAcceptedPassed == Spec => []Row!AcceptedPassed
<1>1. IInv => Row!AcceptedPassed
  BY DEF IInv, RowInv, Flows!Inv, Flows!AcceptedPassed, Row!AcceptedPassed
<1>2. QED
  BY <1>1, SquadInvariant, PTL

(* The history the convergence guard reads holds one count per round       *)
(* judged, though several processes may judge the same round.              *)
THEOREM SquadHistoryAligned == Spec => []Row!HistoryAligned
<1>1. IInv => Row!HistoryAligned
  BY DEF IInv, RowInv, Flows!Inv, Flows!HistoryAligned, Row!HistoryAligned
<1>2. QED
  BY <1>1, SquadInvariant, PTL

(* What TaskFlowProofs shows of the flow holds of each row.                *)
LEMMA RowIsFlow == Spec => Flows!Spec
<1>1. Row!Init => Flows!Init
  BY SameFlow
<1>2. [Row!Next]_(Row!vars) => [Flows!Next]_(Flows!vars)
  BY SameFlow DEF Row!vars, Flows!vars
<1>3. Row!Spec => Flows!Spec
  BY <1>1, <1>2, PTL DEF Row!Spec, Flows!Spec
<1>4. QED
  BY <1>3, RowImplementsFlow, PTL

(* Nothing with a check is merged unchecked, not by an old pass, a late    *)
(* verdict or a retry: a row enters merging with a passed check, and only  *)
(* from the check, from ready or from a merge that stopped.                *)
THEOREM SquadMergingChecked == Spec => Row!MergingEntered
<1>1. /\ Counts \union {0, 1} \subseteq Nat /\ Rounds \in Nat \ {0} /\ 0 \in Nat
  BY SquadCountsAssumption, SquadRoundsAssumption
<1>2. Flows!Spec => Flows!MergingEntered
  BY <1>1, Flows!MergingIsChecked
<1>3. Flows!MergingEntered => Row!MergingEntered
  BY PTL DEF Flows!MergingEntered, Row!MergingEntered, Flows!vars, Row!vars
<1>4. QED
  BY <1>2, <1>3, RowIsFlow, PTL

(* A finished task stays finished, whatever process read it before: no     *)
(* pass, verdict or command that is still under way brings it back.        *)
THEOREM SquadFinishedStays == Spec => Row!FinishedForGood
<1>1. /\ Counts \union {0, 1} \subseteq Nat /\ Rounds \in Nat \ {0} /\ 0 \in Nat
  BY SquadCountsAssumption, SquadRoundsAssumption
<1>2. Flows!Spec => Flows!FinishedForGood
  BY <1>1, Flows!FinishedStays
<1>3. Flows!FinishedForGood => Row!FinishedForGood
  BY PTL DEF Flows!FinishedForGood, Row!FinishedForGood, Flows!vars, Row!vars, Flows!Finished,
             Row!Finished, Flows!Finals, Row!Finals
<1>4. QED
  BY <1>2, <1>3, RowIsFlow, PTL

(* The convergence guard holds of every task.                              *)
THEOREM SquadFixesConverge == Spec => []Row!ConvergenceGuard
<1>1. /\ Counts \union {0, 1} \subseteq Nat /\ Rounds \in Nat \ {0} /\ 0 \in Nat
  BY SquadCountsAssumption, SquadRoundsAssumption
<1>2. Flows!Spec => []Flows!ConvergenceGuard
  BY <1>1, Flows!FixesConverge
<1>3. Flows!ConvergenceGuard => Row!ConvergenceGuard
  BY DEF Flows!ConvergenceGuard, Row!ConvergenceGuard
<1>4. QED
  BY <1>2, <1>3, RowIsFlow, PTL

---------------------------------------------------------------------------
(* Part 3: the worker of one task, Me, rests while its work is checked.    *)
(*                                                                         *)
(* csquad asks for work by a message, and a message is taken once.  So a   *)
(* task whose worker answered what it was asked last rests, nobody but     *)
(* csquad wakes it, and csquad does so only when the row says fixing or    *)
(* that a merge was asked for.                                             *)

---------------------------------------------------------------------------
(* Steps that leave the row's phase alone and do not wake the worker.      *)

Calms ==
  /\ row'[Me].phase = row[Me].phase /\ row'[Me].step = row[Me].step /\ ver'[Me] = ver[Me]
  /\ session[Me] \notin Turning \union {"none"} => session'[Me] \notin Turning \union {"none"}
  /\ Broken => Broken'
  /\ session[Me] # "none" => session'[Me] # "none"
  /\ session[Me] # "none" /\ session'[Me] \in Turning => session[Me] \in Turning
  /\ inbox'[Me] => inbox[Me]
  /\ reply'[Me] = reply[Me]
  /\ \A h \in stops' : h.task = Me => h \in stops
  /\ changed'[Me] => changed[Me]
  /\ \A v \in verdicts' : v.task = Me /\ v \notin verdicts =>
       v.for <= ver[Me] /\ (v.for = ver[Me] /\ row[Me].phase = "checking" => ~changed'[Me])

(* p comes to d.                                                           *)
Turns(p, d) ==
  /\ proc' = [proc EXCEPT ![p] = d]
  /\ ~Sending(d)
  /\ d.task = Me => \/ d.at = 0
                    \/ proc[p].task = Me /\ d.at = proc[p].at
                    \/ d.at = ver[Me] /\ \E h \in stops : h.task = Me /\ h.ver = ver[Me]
  /\ d.pc \in {"idle", "insert"} => d.at = 0
  /\ d.pc = "look" => d.live = "unknown"
  /\ Fresh(d) => Sure(d, EasedBy(p), Broken, ~changed'[Me])

LEMMA SureGrows ==
  ASSUME NEW d, NEW e, NEW b, NEW s, NEW e2, NEW b2, NEW s2,
         Sure(d, e, b, s), e => e2, b => b2, s => s2
  PROVE  Sure(d, e2, b2, s2)
BY DEF Sure, Suited

LEMMA EaseStays ==
  ASSUME Calms, NEW p \in Procs, \A q \in Procs \ {p} : proc'[q] = proc[q], ~Sending(proc'[p])
  PROVE  /\ Unsent => Unsent'
         /\ EasedBy(p) => AtEase'
         /\ AtEase => EasedBy(p) /\ AtEase'
<1>1. (\A q \in Procs \ {p} : ~Sending(proc[q])) => Unsent'
  BY DEF Unsent, Sending
<1>2. Unsent => \A q \in Procs \ {p} : ~Sending(proc[q])
  BY DEF Unsent
<1>3. EasedBy(p) => AtEase'
  BY <1>1 DEF EasedBy, AtEase, Calms
<1>4. AtEase => EasedBy(p)
  BY <1>2 DEF AtEase, EasedBy
<1> QED
  BY <1>1, <1>2, <1>3, <1>4

(* What the phase goes with stays so.                                      *)
LEMMA MatchesStays ==
  ASSUME AtRestInv, Typed, Calms, NEW p \in Procs, \A q \in Procs \ {p} : proc'[q] = proc[q], ~Sending(proc'[p]),
         proc'[p].task = Me => \/ proc'[p].at = 0
                               \/ proc[p].task = Me /\ proc'[p].at = proc[p].at
                               \/ proc'[p].at = ver[Me] /\ \E h \in stops : h.task = Me /\ h.ver = ver[Me]
  PROVE  Matches(row[Me])'
<1>0. ver[Me] \in Nat /\ Me \in Tasks
  BY MeFacts DEF Typed
<1>1. (Unsent => Unsent') /\ (AtEase => AtEase') /\ (Broken => Broken')
  BY EaseStays DEF Calms
<1>2. /\ Rested(row'[Me]) <=> Rested(row[Me])
      /\ GivenUp(row'[Me]) <=> GivenUp(row[Me])
      /\ Early(row'[Me]) <=> Early(row[Me])
      /\ Asking(row'[Me]) <=> Asking(row[Me])
  BY DEF Rested, GivenUp, Early, Asking, Calms
<1>3. ASSUME Asking(row[Me]) PROVE OneMessage' /\ (Answered' => AtEase')
  <2>1. OneMessage /\ (Answered => AtEase)
    BY <1>3 DEF AtRestInv, Matches
  <2>2. ver[Me] >= 1
    BY <1>3 DEF AtRestInv, Dated, Asking
  <2>3. Answered' => Answered
    <3>1. reply'[Me] >= ver'[Me] => Answered
      BY DEF Calms, Answered
    <3>2. ASSUME NEW h \in stops', h.task = Me, h.ver >= ver'[Me] PROVE Answered
      BY <3>2 DEF Calms, Answered
    <3>3. ASSUME NEW q \in Procs, proc'[q].task = Me, proc'[q].at >= ver'[Me] PROVE Answered
      <4>1. CASE q # p
        BY <3>3, <4>1 DEF Calms, Answered
      <4>2. CASE q = p
        <5>1. proc'[p].at # 0
          BY <1>0, <2>2, <3>3, <4>2 DEF Calms
        <5>2. CASE proc[p].task = Me /\ proc'[p].at = proc[p].at
          BY <3>3, <4>2, <5>2 DEF Calms, Answered
        <5>3. CASE \E h \in stops : h.task = Me /\ h.ver = ver[Me]
          BY <1>0, <5>3 DEF Answered
        <5> QED
          BY <3>3, <4>2, <5>1, <5>2, <5>3
      <4> QED
        BY <4>1, <4>2
    <3> QED
      BY <3>1, <3>2, <3>3 DEF Answered
  <2>4. OneMessage'
    <3>1. session'[Me] # "none" /\ (inbox'[Me] => session'[Me] \notin Turning /\ Unsent')
      BY <1>1, <2>1 DEF OneMessage, Calms
    <3>2. session'[Me] \in Turning => Unsent'
      BY <1>1, <2>1 DEF OneMessage, Calms
    <3>3. ASSUME NEW q \in Procs, NEW u \in Procs, Sending(proc'[q]), Sending(proc'[u]) PROVE q = u
      BY <2>1, <3>3 DEF OneMessage
    <3> QED
      BY <3>1, <3>2, <3>3 DEF OneMessage, Sending
  <2> QED
    BY <1>1, <2>1, <2>3, <2>4
<1>4. Early(row[Me]) => ~inbox'[Me] /\ Unsent'
  BY <1>1 DEF AtRestInv, Matches, Calms
<1>5. Rested(row[Me]) => AtEase'
  BY <1>1 DEF AtRestInv, Matches
<1>6. GivenUp(row[Me]) => Broken' \/ AtEase'
  BY <1>1 DEF AtRestInv, Matches
<1> QED
  BY <1>2, <1>3, <1>4, <1>5, <1>6 DEF Matches

LEMMA TurnsRest ==
  ASSUME AtRestInv, Typed, Calms, NEW p \in Procs, NEW d, Turns(p, d)
  PROVE  AtRestInv'
<1>0. ver[Me] \in Nat /\ Me \in Tasks
  BY MeFacts DEF Typed
<1>1. \A q \in Procs : proc'[q] = IF q = p THEN d ELSE proc[q]
  BY DEF Typed, Turns
<1>2. ~Sending(proc'[p]) /\ \A q \in Procs \ {p} : proc'[q] = proc[q]
  BY <1>1 DEF Turns
<1>3. Matches(row[Me])'
  <2>1. d.task = Me => \/ d.at = 0
                       \/ proc[p].task = Me /\ d.at = proc[p].at
                       \/ d.at = ver[Me] /\ \E h \in stops : h.task = Me /\ h.ver = ver[Me]
    BY DEF Turns
  <2>2. proc'[p] = d
    BY <1>1
  <2> QED
    BY <1>2, <2>1, <2>2, MatchesStays
<1>4. Dated'
  <2>1. ASSUME NEW q \in Procs, proc'[q].task = Me PROVE proc'[q].at <= ver'[Me]
    BY <1>0, <1>1, <2>1 DEF Turns, Calms, AtRestInv, Dated
  <2>2. ASSUME NEW q \in Procs, proc'[q].pc \in {"idle", "insert"} PROVE proc'[q].at = 0
    BY <1>1, <2>2 DEF Turns, AtRestInv, Dated
  <2>3. ASSUME NEW v \in verdicts', v.task = Me PROVE v.for <= ver'[Me]
    BY <2>3 DEF Calms, AtRestInv, Dated
  <2>4. ASSUME NEW h \in stops', h.task = Me PROVE h.ver <= ver'[Me]
    BY <2>4 DEF Calms, AtRestInv, Dated
  <2>5. (row'[Me].phase # "absent" => ver'[Me] >= 1) /\ reply'[Me] <= ver'[Me]
    BY DEF Calms, AtRestInv, Dated
  <2> QED
    BY <2>1, <2>2, <2>3, <2>4, <2>5 DEF Dated
<1>5. row'[Me].phase = "checking" => \A v \in verdicts' : v.task = Me /\ v.for = ver'[Me] => ~changed'[Me]
  BY DEF Calms, AtRestInv
<1>6. ASSUME NEW q \in Procs, Fresh(proc[q])' PROVE Sure(proc'[q], AtEase', Broken', ~changed'[Me])
  <2>1. (EasedBy(p) => AtEase') /\ (AtEase => AtEase') /\ (Broken => Broken') /\ (~changed[Me] => ~changed'[Me])
    BY <1>2, EaseStays DEF Calms
  <2>2. Fresh(proc'[q])
    BY <1>6 DEF Fresh, OnMe, Calms
  <2>3. CASE q = p
    <3>1. Sure(d, EasedBy(p), Broken, ~changed'[Me])
      BY <1>1, <2>2, <2>3 DEF Turns
    <3>2. Sure(d, AtEase', Broken', ~changed'[Me])
      BY <2>1, <3>1, SureGrows
    <3> QED
      BY <1>1, <2>3, <3>2
  <2>4. CASE q # p
    <3>1. Sure(proc[q], AtEase, Broken, ~changed[Me])
      BY <1>1, <2>2, <2>4 DEF AtRestInv
    <3>2. Sure(proc[q], AtEase', Broken', ~changed'[Me])
      BY <2>1, <3>1 DEF Sure, Suited
    <3> QED
      BY <1>1, <2>4, <3>2
  <2> QED
    BY <2>3, <2>4
<1>7. ASSUME NEW q \in Procs, proc'[q].pc = "look" PROVE proc'[q].live = "unknown"
  BY <1>1, <1>7 DEF AtRestInv, Turns
<1> QED
  BY <1>3, <1>4, <1>5, <1>6, <1>7 DEF AtRestInv, Sure, Suited

---------------------------------------------------------------------------
(* How a process comes to the next point.                                  *)

(* Points at which something is known of the worker, or it is told.        *)
Keen == {"decide", "write", "land", "landing", "clean", "checkRun", "checkApply", "send"}

LEMMA PlainSure == ASSUME NEW d, d.pc \notin Keen, NEW e, NEW b, NEW s PROVE Sure(d, e, b, s) /\ ~Sending(d)
BY DEF Keen, Sure, Sending

LEMMA EndTurns == ASSUME NEW p \in Procs, End(p) PROVE \E d : Turns(p, d)
<1>1. proc' = [proc EXCEPT ![p] = Idle]
  BY DEF End, Become
<1>2. Idle.pc = "idle" /\ Idle.task = 0 /\ Idle.at = 0 /\ Me # 0
  BY IdleFacts, MeFacts
<1>3. Turns(p, Idle)
  BY <1>1, <1>2, PlainSure DEF Turns, Keen, Fresh, OnMe
<1> QED
  BY <1>3

(* It works on from the row it has.                                        *)
LEMMA OnTurns ==
  ASSUME NEW p \in Procs, NEW d, proc' = [proc EXCEPT ![p] = d],
         d.task = proc[p].task, d.at = proc[p].at, d.ver = proc[p].ver,
         d.pc \notin {"idle", "insert", "send", "look"}, proc[p].pc # "stopped",
         Fresh(proc[p]) => Sure(d, EasedBy(p), Broken, ~changed'[Me])
  PROVE  Turns(p, d)
BY DEF Turns, Sending, Fresh, OnMe

LEMMA GoesTurns ==
  ASSUME Typed, NEW p \in Procs, NEW x \in Pcs, x \notin Keen \union {"idle", "insert", "look"}, proc[p].pc # "stopped",
         Become(p, [proc[p] EXCEPT !.pc = x])
  PROVE  \E d : Turns(p, d)
<1> DEFINE c == proc[p]
           d == [c EXCEPT !.pc = x]
<1>0. c \in Calls
  BY DEF Typed, Local
<1>1. proc' = [proc EXCEPT ![p] = d]
  BY DEF Become
<1> HIDE DEF c
<1>2. d.pc = x /\ d.task = c.task /\ d.at = c.at /\ d.ver = c.ver
  BY <1>0, CallTo
<1> HIDE DEF d
<1>3. Turns(p, d)
  BY <1>1, <1>2, PlainSure, OnTurns DEF Keen, c
<1> QED
  BY <1>3

(* It reads a row.                                                         *)
LEMMA ReadingFacts ==
  ASSUME Typed, NEW t \in Tasks, NEW x \in Pcs, NEW j \in Jobs, NEW n \in Nat
  PROVE  /\ ReadAt(t, x, j, n).pc = x /\ ReadAt(t, x, j, n).task = t /\ ReadAt(t, x, j, n).at = n
         /\ ReadAt(t, x, j, n).live = "unknown"
         /\ ReadNow(t, x, j).pc = x /\ ReadNow(t, x, j).task = t /\ ReadNow(t, x, j).at = 0
         /\ ReadNow(t, x, j).live = "unknown"
<1> DEFINE i == Idle
           r == [i EXCEPT !.task = t, !.seen = row[t], !.ver = ver[t]]
           d == [r EXCEPT !.pc = x, !.job = j, !.at = n]
           e == [r EXCEPT !.pc = x, !.job = j]
<1>1. i \in Calls /\ i.live = "unknown" /\ i.at = 0
  BY IdleFacts
<1>2. row[t] \in Rows(Tasks) /\ ver[t] \in Nat
  BY DEF Typed
<1> HIDE DEF i
<1>3. r \in Calls /\ r.task = t /\ r.live = "unknown" /\ r.at = 0
  BY <1>1, <1>2 DEF Calls
<1> HIDE DEF r
<1>4. d.pc = x /\ d.task = t /\ d.at = n /\ d.live = "unknown"
  BY <1>3 DEF Calls
<1>5. e.pc = x /\ e.task = t /\ e.at = 0 /\ e.live = "unknown"
  BY <1>3 DEF Calls
<1> QED
  BY <1>4, <1>5 DEF d, e, r, i, Reading, ReadAt, ReadNow

LEMMA ReadsTurns ==
  ASSUME Typed, NEW p \in Procs, NEW t \in Tasks, NEW x \in Pcs, NEW j \in Jobs, NEW n \in Nat,
         proc' = [proc EXCEPT ![p] = ReadAt(t, x, j, n)] \/ proc' = [proc EXCEPT ![p] = ReadNow(t, x, j)],
         x = "decide" \/ x \notin Keen \union {"idle", "insert"},
         n = 0 \/ (proc[p].task = t /\ n = proc[p].at)
  PROVE  \E d : Turns(p, d)
<1>1. PICK d : /\ proc' = [proc EXCEPT ![p] = d] /\ d.pc = x /\ d.task = t /\ d.at \in {0, n} /\ d.live = "unknown"
  BY ReadingFacts
<1>2. Sure(d, EasedBy(p), Broken, ~changed'[Me]) /\ ~Sending(d)
  BY <1>1 DEF Sure, Sending, Keen
<1>3. Turns(p, d)
  BY <1>1, <1>2 DEF Turns, Keen
<1> QED
  BY <1>3

(* It takes the task's lock and reads the row again.                       *)
LEMMA ClaimTurns ==
  ASSUME Typed, NEW p \in Procs, NEW j \in {"starting", "landing", "finishing"}, Claim(p, j), proc[p].task \in Tasks,
         j = "landing" /\ proc[p].task = Me => EasedBy(p)
  PROVE  \E d : Turns(p, d)
<1> DEFINE c == proc[p]
           t == c.task
           L == c.locks \union {TaskLock(t)}
           r == row[t]
           v == ver[t]
           d == [c EXCEPT !.pc = j, !.job = j, !.seen = r, !.ver = v, !.locks = L]
<1>0. c \in Calls
  BY DEF Typed, Local
<1>1. proc' = [proc EXCEPT ![p] = d]
  BY DEF Claim, Become
<1> HIDE DEF c, L, r, v
<1>2. d.pc = j /\ d.task = t /\ d.at = c.at
  BY <1>0 DEF Calls
<1> HIDE DEF d
<1>3. Fresh(d) => Sure(d, EasedBy(p), Broken, ~changed'[Me])
  BY <1>2 DEF Sure, Fresh, OnMe, c
<1>4. Turns(p, d)
  BY <1>1, <1>2, <1>3 DEF Turns, Sending, c
<1> QED
  BY <1>4

(* It decided a move: it writes it, or lands.                              *)
LEMMA DueTurns ==
  ASSUME Typed, NEW p \in Procs, NEW m \in Moves, Due(p, m), proc[p].pc # "stopped",
         m.next = proc[p].seen => m.effect \in {"none", "land"},
         Fresh(proc[p]) => /\ m.next # proc[p].seen => Suited(proc[p].seen, m.next, EasedBy(p), Broken, ~changed'[Me])
                           /\ m.next = proc[p].seen /\ m.effect = "land" => EasedBy(p)
  PROVE  \E d : Turns(p, d)
<1> DEFINE c == proc[p]
           x == IF Changed(c.seen, m) THEN "write" ELSE m.effect
           d == [c EXCEPT !.move = m, !.live = "unknown", !.pc = x]
<1>1. c \in Calls
  BY DEF Typed, Local
<1>2. CASE ~Acts(c.seen, m)
  BY <1>2, EndTurns DEF Due
<1>3. CASE Acts(c.seen, m)
  <2>1. proc' = [proc EXCEPT ![p] = d]
    BY <1>3 DEF Due, Become
  <2>2. (x = "write" /\ m.next # c.seen) \/ (x = "land" /\ m.next = c.seen /\ m.effect = "land")
    BY <1>3 DEF Changed, Acts
  <2>a. c = proc[p]
    OBVIOUS
  <2> HIDE DEF x, c
  <2>3. d.pc = x /\ d.task = c.task /\ d.seen = c.seen /\ d.ver = c.ver /\ d.move = m /\ d.at = c.at
    BY <1>1 DEF Calls
  <2> HIDE DEF d
  <2>4. Fresh(c) => Sure(d, EasedBy(p), Broken, ~changed'[Me])
    BY <2>2, <2>3, <2>a DEF Sure
  <2>5. Turns(p, d)
    BY <2>1, <2>2, <2>3, <2>4, <2>a, OnTurns
  <2> QED
    BY <2>5
<1> QED
  BY <1>2, <1>3

(* It hands the task back.                                                 *)
LEMMA FailTurns ==
  ASSUME Typed, NEW p \in Procs, NEW s \in Steps, Fail(p, s), proc[p].pc # "stopped",
         Fresh(proc[p]) => /\ s \notin {"", "waiting"} => EasedBy(p)
                           /\ s = "" => Broken \/ EasedBy(p)
                           /\ s = "waiting" => Early(proc[p].seen)
  PROVE  \E d : Turns(p, d)
<1> DEFINE c == proc[p]
           n == To(c.seen, "needs_you", s)
           m == Stay(n)
           d == [c EXCEPT !.pc = "write", !.move = m]
<1>1. c \in Calls /\ c.seen \in Rows(Tasks)
  BY CallFacts DEF Typed, Local
<1>2. proc' = [proc EXCEPT ![p] = d]
  BY DEF Fail, Become, NeedsYou
<1>b. "needs_you" \in Phases
  BY Words
<1>3. n.phase = "needs_you" /\ n.step = s
  BY <1>1, <1>b, ToFacts
<1>a. c = proc[p]
  OBVIOUS
<1> HIDE DEF c, n
<1>4. m.next = n
  BY DEF Stay, Move
<1> HIDE DEF m
<1>5. d.pc = "write" /\ d.task = c.task /\ d.seen = c.seen /\ d.ver = c.ver /\ d.move = m /\ d.at = c.at
  BY <1>1 DEF Calls
<1> HIDE DEF d
<1>6. Fresh(c) => Suited(c.seen, n, EasedBy(p), Broken, ~changed'[Me])
  BY <1>3, <1>a DEF Suited, Rested, GivenUp, Asking, Early
<1>7. Fresh(c) => Sure(d, EasedBy(p), Broken, ~changed'[Me])
  BY <1>4, <1>5, <1>6 DEF Sure
<1>8. Turns(p, d)
  BY <1>2, <1>5, <1>7, <1>a, OnTurns
<1> QED
  BY <1>8

(* What is read of the row as it is goes with the row.                     *)
LEMMA FreshFacts ==
  ASSUME IInv, AtRestInv, NEW p \in Procs, Fresh(proc[p])
  PROVE  /\ proc[p].seen.phase = row[Me].phase /\ proc[p].seen.step = row[Me].step
         /\ Matches(proc[p].seen) /\ Sure(proc[p], AtEase, Broken, ~changed[Me])
         /\ AtEase => EasedBy(p)
<1> DEFINE s == proc[p].seen
<1>1. s \in Rows(Tasks) /\ row[Me] \in Rows(Tasks) /\ Alike(s, row[Me])
  BY RowTyped DEF IInv, Good, Fresh, Current
<1>2. s.phase = row[Me].phase /\ s.step = row[Me].step
  BY <1>1 DEF Alike, Rows
<1>3. Matches(row[Me]) /\ Sure(proc[p], AtEase, Broken, ~changed[Me])
  BY DEF AtRestInv
<1>4. Matches(s)
  BY <1>2, <1>3 DEF Matches, Rested, GivenUp, Early, Asking
<1> QED
  BY <1>2, <1>3, <1>4 DEF AtEase, EasedBy, Unsent

---------------------------------------------------------------------------
(* What the flow decides suits what was observed.                          *)

LEMMA DealsStay == ASSUME NEW r, NEW e \in {"none", "start", "send", "check"}, NEW a, NEW b, NEW s PROVE Deals(r, Move(r, e), a, b, s)
BY DEF Deals, Move

LEMMA DealsTo ==
  ASSUME NEW r, NEW n, NEW e, NEW a, NEW b, NEW s, Suited(r, n, a, b, s), e = "land" => a
  PROVE  Deals(r, Move(n, e), a, b, s)
BY DEF Deals, Move

LEMMA WaitingDeals ==
  ASSUME NEW r \in Rows(Tasks), r.phase = "waiting", NEW o, NEW a, NEW b, NEW s
  PROVE  Deals(r, NextWaiting(r, o), a, b, s)
<1> DEFINE n == To(r, "needs_you", "waiting")
           u == To(r, "running", "")
<1>1. n.phase = "needs_you" /\ n.step = "waiting" /\ u.phase = "running" /\ u.step = ""
  BY DEF To, Rows
<1>2. NextWaiting(r, o) \in {Move(n, "none"), Move(r, "none"), Move(u, "start")}
  BY DEF NextWaiting, NeedsYou, Stay
<1> HIDE DEF n, u
<1>3. Suited(r, n, a, b, s) /\ Suited(r, u, a, b, s)
  BY <1>1 DEF Suited, Rested, GivenUp, Asking, Early
<1> QED
  BY <1>2, <1>3, DealsStay, DealsTo

LEMMA WorkingDeals ==
  ASSUME NEW r \in Rows(Tasks), r.phase \in {"running", "fixing"}, NEW o, NEW a, NEW b, NEW s, Seeing(r, o, a, b, s)
  PROVE  Deals(r, NextWorking(r, o), a, b, s)
<1> DEFINE n == To(r, "needs_you", "waiting")
           f == To(r, "failed", "")
           g == To(r, "needs_you", "")
           c == To(r, "checking", "")
           k == AtLeastOne(r.round)
           d == [c EXCEPT !.round = k]
           u == To(r, "merging", "")
<1>1. /\ n.phase = "needs_you" /\ n.step = "waiting" /\ f.phase = "failed" /\ f.step = "" /\ g.phase = "needs_you" /\ g.step = ""
      /\ u.phase = "merging" /\ u.step = ""
  BY DEF To, Rows
<1>2. d.phase = "checking" /\ d.step = ""
  BY DEF To, Rows
<1>3. \/ NextWorking(r, o) = Move(r, "none")
      \/ NextWorking(r, o) = Move(n, "none") /\ r.phase = "running"
      \/ NextWorking(r, o) \in {Move(f, "none"), Move(g, "none")} /\ o.observed /\ o.live \in {"failed", "gone"}
      \/ NextWorking(r, o) \in {Move(d, "check"), Move(u, "land")} /\ TurnEnded(r, o)
  BY DEF NextWorking, LostMove, Lost, AfterWork, NeedsYou, Stay
<1>4. TurnEnded(r, o) => a
  BY DEF TurnEnded, Seeing, Asking
<1>5. o.observed /\ o.live \in {"failed", "gone"} => b
  BY DEF Seeing
<1> HIDE DEF n, f, g, d, u
<1>6. r.phase = "running" => Suited(r, n, a, b, s)
  BY <1>1 DEF Suited, Rested, GivenUp, Asking, Early
<1>7. b => Suited(r, f, a, b, s) /\ Suited(r, g, a, b, s)
  BY <1>1 DEF Suited, Rested, GivenUp, Asking, Early
<1>8. a => Suited(r, d, a, b, s) /\ Suited(r, u, a, b, s)
  BY <1>1, <1>2 DEF Suited, Rested, GivenUp, Asking, Early
<1> QED
  BY <1>3, <1>4, <1>5, <1>6, <1>7, <1>8, DealsStay, DealsTo

(* Of any verdict, so of the one that is read.                             *)
LEMMA CheckingDeals ==
  ASSUME NEW r \in Rows(Tasks), r.phase = "checking", NEW o, o.verdict = NoVerdict \/ Given(o.verdict),
         NEW a, NEW b, NEW s, Seeing(r, o, a, b, s)
  PROVE  Deals(r, NextChecking(r, o), a, b, s)
<1> DEFINE v == o.verdict
           n == Judged(r, v)
           x == To(r, "needs_you", "check")
           y == To(n, "needs_you", "check")
           z == To(n, "needs_you", "round")
           u == To(n, "merging", "")
           w == To(n, "ready", "")
           f == To(n, "fixing", "")
           k == r.round + 1
           g == [f EXCEPT !.round = k]
<1>1. x.phase = "needs_you" /\ x.step = "check"
  BY DEF To, Rows
<1>a. a
  BY DEF Seeing, Rested
<1>2. CASE v = NoVerdict
  <2>1. NextChecking(r, o) \in {Move(x, "none"), Move(r, "none")}
    BY <1>2 DEF NextChecking, NeedsYou, Stay
  <2> HIDE DEF x
  <2>2. Suited(r, x, a, b, s)
    BY <1>1, <1>a DEF Suited, Rested, GivenUp, Asking, Early
  <2> QED
    BY <2>1, <2>2, <1>a, DealsStay, DealsTo
<1>3. CASE v # NoVerdict
  <2>0. s
    BY <1>3 DEF Seeing
  <2>1. n \in Rows(Tasks)
    <3> HIDE DEF n
    <3>1. v.kind \in {"pass", "fail", "error"} /\ v.count \in Nat
      BY <1>3 DEF Given
    <3> HIDE DEF v
    <3> QED
      BY <3>1, HistoryFacts DEF n
  <2>2. NextChecking(r, o) \in {Move(y, "none"), Move(z, "none"), Move(u, "land"), Move(w, "none"), Move(g, "send")}
    BY <1>3 DEF NextChecking, VerdictMove, NeedsYou, Stay, Judged
  <2> HIDE DEF n
  <2>3. /\ y.phase = "needs_you" /\ y.step = "check" /\ z.phase = "needs_you" /\ z.step = "round"
        /\ u.phase = "merging" /\ u.step = "" /\ w.phase = "ready"
    BY <2>1 DEF To, Rows
  <2>4. g.phase = "fixing"
    BY <2>1 DEF To, Rows
  <2> HIDE DEF y, z, u, w, g
  <2>5. /\ Suited(r, y, a, b, s) /\ Suited(r, z, a, b, s) /\ Suited(r, u, a, b, s) /\ Suited(r, w, a, b, s)
        /\ Suited(r, g, a, b, s)
    BY <1>a, <2>0, <2>3, <2>4 DEF Suited, Rested, GivenUp, Asking, Early
  <2> QED
    BY <1>a, <2>2, <2>5, DealsTo
<1> QED
  BY <1>2, <1>3

LEMMA MergingDeals ==
  ASSUME NEW r \in Rows(Tasks), r.phase = "merging", NEW o, NEW a, NEW b, NEW s, Seeing(r, o, a, b, s)
  PROVE  Deals(r, NextMerging(r, o), a, b, s)
<1> DEFINE d == To(r, "done", "")
           k == To(r, "merging", "asked")
           n == To(r, "needs_you", "merge")
           f == To(r, "failed", "")
           g == To(r, "needs_you", "")
<1>1. /\ d.phase = "done" /\ k.phase = "merging" /\ k.step = "asked" /\ n.phase = "needs_you" /\ n.step = "merge"
      /\ f.phase = "failed" /\ f.step = "" /\ g.phase = "needs_you" /\ g.step = ""
  BY DEF To, Rows
<1>2. \/ o.land # "none" /\ NextMerging(r, o) \in {Move(d, "none"), Move(k, "send"), Move(n, "none")}
      \/ NextMerging(r, o) \in {Move(f, "none"), Move(g, "none")} /\ o.observed /\ o.live \in {"failed", "gone"}
      \/ NextMerging(r, o) = Move(r, "none")
      \/ NextMerging(r, o) = Move(r, "land") /\ (r.step = "asked" => TurnEnded(r, o))
  BY DEF NextMerging, Landed, LostMove, Lost, NeedsYou, Stay
<1>3. (o.land # "none" => a) /\ (o.observed /\ o.live \in {"failed", "gone"} => b)
  BY DEF Seeing
<1>4. (r.step = "asked" => TurnEnded(r, o)) => a
  BY DEF TurnEnded, Seeing, Asking, Rested
<1> HIDE DEF d, k, n, f, g
<1>5. a => Suited(r, d, a, b, s) /\ Suited(r, k, a, b, s) /\ Suited(r, n, a, b, s)
  BY <1>1 DEF Suited, Rested, GivenUp, Asking, Early
<1>6. b => Suited(r, f, a, b, s) /\ Suited(r, g, a, b, s)
  BY <1>1 DEF Suited, Rested, GivenUp, Asking, Early
<1>7. a => Deals(r, Move(r, "land"), a, b, s)
  BY DEF Deals, Move
<1> QED
  BY <1>2, <1>3, <1>4, <1>5, <1>6, <1>7, DealsStay, DealsTo

LEMMA StoppedDeals ==
  ASSUME NEW r \in Rows(Tasks), r.phase \in {"needs_you", "failed"}, NEW o, NEW a, NEW b, NEW s, Seeing(r, o, a, b, s)
  PROVE  Deals(r, NextStopped(r, o), a, b, s)
<1> DEFINE n == To(r, "running", "")
<1>1. n.phase = "running"
  BY DEF To, Rows
<1>2. NextStopped(r, o) = Move(r, "none") \/ (NextStopped(r, o) = Move(n, "none") /\ o.observed /\ o.live = "working")
  BY DEF NextStopped, Stay
<1>3. o.observed /\ o.live = "working" => Early(r)
  BY DEF Seeing, Rested, GivenUp, Early
<1> HIDE DEF n
<1>4. Early(r) => Suited(r, n, a, b, s)
  BY <1>1 DEF Suited, Rested, GivenUp, Asking
<1> QED
  BY <1>2, <1>3, <1>4, DealsStay, DealsTo

LEMMA NextDeals ==
  ASSUME NEW r \in Rows(Tasks), NEW o, o.verdict = NoVerdict \/ Given(o.verdict),
         NEW a, NEW b, NEW s, Seeing(r, o, a, b, s)
  PROVE  Deals(r, NextMove(r, o), a, b, s)
<1>1. CASE r.phase = "waiting"
  BY <1>1, WaitingDeals DEF NextMove
<1>2. CASE r.phase \in {"running", "fixing"}
  BY <1>2, WorkingDeals DEF NextMove
<1>3. CASE r.phase = "checking"
  BY <1>3, CheckingDeals DEF NextMove
<1>4. CASE r.phase = "merging"
  BY <1>4, MergingDeals DEF NextMove
<1>5. CASE r.phase = "ready"
  <2> DEFINE u == To(r, "merging", "")
  <2>1. u.phase = "merging" /\ u.step = ""
    BY DEF To, Rows
  <2>2. NextMove(r, o) \in {Move(r, "none"), Move(u, "land")}
    BY <1>5 DEF NextMove, NextReady, Stay
  <2> HIDE DEF u
  <2>3. a /\ Suited(r, u, a, b, s)
    BY <1>5, <2>1 DEF Seeing, Suited, Rested, GivenUp, Asking, Early
  <2> QED
    BY <2>2, <2>3, DealsStay, DealsTo
<1>6. CASE r.phase \in {"needs_you", "failed"}
  BY <1>6, StoppedDeals DEF NextMove
<1>7. CASE r.phase \notin {"waiting", "running", "fixing", "checking", "merging", "ready", "needs_you", "failed"}
  BY <1>7, DealsStay DEF NextMove, Stay
<1> QED
  BY <1>1, <1>2, <1>3, <1>4, <1>5, <1>6, <1>7

(* So does a retry, of a task whose worker is at rest.                     *)
LEMMA RetryDeals ==
  ASSUME NEW r \in Rows(Tasks), Resumable(r), NEW a, NEW b, NEW s, Rested(r) => a
  PROVE  Deals(r, RetryMove(r), a, b, s)
<1> DEFINE w == To(r, "waiting", "")
           c == To(r, "checking", "")
           u == To(r, "merging", "")
           f == To(r, "fixing", "")
           i == r.max + 1
           j == r.round + 1
           g == [f EXCEPT !.max = i, !.round = j]
<1>1. w.phase = "waiting" /\ c.phase = "checking" /\ u.phase = "merging" /\ u.step = ""
  BY DEF To, Rows
<1>2. g.phase = "fixing"
  BY DEF To, Rows
<1>3. \/ r.step = "waiting" /\ RetryMove(r) = Move(w, "none")
      \/ r.step # "waiting" /\ RetryMove(r) \in {Move(c, "check"), Move(u, "land"), Move(g, "send")}
  BY DEF RetryMove, Resumable, Stay
<1>4. r.step # "waiting" => a
  BY DEF Resumable, Rested
<1> HIDE DEF w, c, u, g
<1>5. r.step = "waiting" => Suited(r, w, a, b, s)
  BY <1>1 DEF Suited, Rested, GivenUp, Asking, Early, Resumable
<1>6. a => Suited(r, c, a, b, s) /\ Suited(r, u, a, b, s) /\ Suited(r, g, a, b, s)
  BY <1>1, <1>2 DEF Suited, Rested, GivenUp, Asking, Early, Resumable
<1> QED
  BY <1>3, <1>4, <1>5, <1>6, DealsTo

---------------------------------------------------------------------------
(* The steps, process by process.                                          *)

(* p takes the step, and the worker is not woken.                          *)
Calmly(p) == Calms /\ \E d : Turns(p, d)

LEMMA CalmWorld == ASSUME UNCHANGED <<row, ver, world>> PROVE Calms
BY DEF Calms, world, Broken

LEMMA NextTurns ==
  ASSUME Typed, NEW p \in Procs, NEW o, Due(p, NextMove(proc[p].seen, o)), proc[p].pc # "stopped",
         o.verdict = NoVerdict \/ Given(o.verdict), UNCHANGED changed,
         Fresh(proc[p]) => Seeing(proc[p].seen, o, EasedBy(p), Broken, ~changed[Me])
  PROVE  \E d : Turns(p, d)
<1> DEFINE r == proc[p].seen
           m == NextMove(r, o)
<1>1. r \in Rows(Tasks)
  BY CallFacts DEF Typed, Local
<1>2. m \in Moves /\ (m.next = r => m.effect \in {"none", "land"})
  BY <1>1, NextDecided DEF Decided
<1>3. Fresh(proc[p]) => Deals(r, m, EasedBy(p), Broken, ~changed[Me])
  BY <1>1, NextDeals
<1> HIDE DEF m
<1>4. Due(p, m)
  BY DEF m
<1>5. changed'[Me] = changed[Me]
  OBVIOUS
<1>6. Fresh(proc[p]) => /\ m.next # proc[p].seen => Suited(proc[p].seen, m.next, EasedBy(p), Broken, ~changed'[Me])
                        /\ m.next = proc[p].seen /\ m.effect = "land" => EasedBy(p)
  BY <1>3, <1>5 DEF Deals
<1> QED
  BY <1>2, <1>4, <1>6, DueTurns

LEMMA ListCalm ==
  ASSUME Typed, AtRestInv, NEW p \in Procs, NEW t \in Tasks, List(p, t) \/ Show(p, t)
  PROVE  Calmly(p)
<1> DEFINE c == proc[p]
<1>0. c.at \in Nat /\ (c.pc = "idle" => c.at = 0)
  BY CallFacts DEF Typed, Local, AtRestInv, Dated
<1>1. Calms
  BY CalmWorld DEF List, Show
<1>2. CASE List(p, t)
  <2>1. PICK x \in {"look", "decide"} : proc' = [proc EXCEPT ![p] = ReadAt(t, x, "pass", c.at)]
    BY <1>2 DEF List, Become, ReadAt
  <2>2. x \in Pcs /\ "pass" \in Jobs /\ (x = "decide" \/ x \notin Keen \union {"idle", "insert"})
    BY DEF Pcs, Jobs, Keen
  <2>3. c.at = 0 \/ c.task = t
    BY <1>0, <1>2 DEF List, At
  <2> QED
    BY <1>0, <1>1, <2>1, <2>2, <2>3, ReadsTurns DEF Calmly
<1>3. CASE Show(p, t)
  <2>1. proc' = [proc EXCEPT ![p] = ReadNow(t, "look", "show")]
    BY <1>3 DEF Show, Become, ReadNow
  <2>2. "look" \in Pcs /\ "show" \in Jobs /\ "look" \notin Keen \union {"idle", "insert"} /\ 0 \in Nat
    BY DEF Pcs, Jobs, Keen
  <2> QED
    BY <1>1, <2>1, <2>2, ReadsTurns DEF Calmly
<1> QED
  BY <1>2, <1>3

(* A Stop event is of the version its hook was, as no hook is late.        *)
LEMMA StoppedCalm ==
  ASSUME Typed, Undisturbed, NEW p \in Procs, NEW t \in Tasks, Stopped(p, t)
  PROVE  Calmly(p)
<1> DEFINE i == Idle
           n == ver[t]
           d == [i EXCEPT !.pc = "stopped", !.task = t, !.at = n]
<1>1. PICK h \in stops : h.task = t /\ stops' = stops \ {h} /\ (IF h.ver = ver[t] THEN UNCHANGED left ELSE Spend("late"))
  BY DEF Stopped
<1>2. h.ver = ver[t]
  BY <1>1 DEF Undisturbed, Spend
<1>3. Calms
  BY <1>1 DEF Stopped, Calms, Broken
<1>4. proc' = [proc EXCEPT ![p] = d]
  BY DEF Stopped, Become
<1>5. i \in Calls
  BY IdleFacts
<1> HIDE DEF i, n
<1>6. d.pc = "stopped" /\ d.task = t /\ d.at = n
  BY <1>5 DEF Calls
<1> HIDE DEF d
<1>7. Turns(p, d)
  BY <1>1, <1>2, <1>4, <1>6, PlainSure DEF Turns, Keen, n
<1> QED
  BY <1>3, <1>7 DEF Calmly

LEMMA StoppedLateCalm == ASSUME NEW p \in Procs, StoppedLate(p) \/ Crash(p) PROVE Calmly(p)
BY EndTurns, CalmWorld DEF StoppedLate, Crash, Calmly

(* What is seen of the session is so.                                      *)
LEMMA LookCalm ==
  ASSUME Typed, IInv, AtRestInv, NEW p \in Procs, Guarded(proc[p]), Look(p)
  PROVE  Calmly(p)
<1> DEFINE c == proc[p]
           x == IF c.job = "show" THEN "clear" ELSE "decide"
           live == session[c.task]
<1>0. c \in Calls /\ c.pc = "look" /\ c = proc[p] /\ UNCHANGED changed
  BY DEF Typed, Local, Look, At, world
<1>1. Calms
  BY CalmWorld DEF Look
<1>2. \/ proc' = [proc EXCEPT ![p] = [c EXCEPT !.pc = x, !.live = live]]
      \/ proc' = [proc EXCEPT ![p] = [c EXCEPT !.pc = x]]
  BY DEF Look, Become
<1>3. x \in {"clear", "decide"}
  OBVIOUS
<1>a. live = session[c.task]
  OBVIOUS
<1> HIDE DEF c, x, live
<1>4. PICK d : /\ proc' = [proc EXCEPT ![p] = d] /\ d.pc = x /\ d.task = c.task /\ d.seen = c.seen /\ d.ver = c.ver
               /\ d.at = c.at /\ d.live \in {live, c.live}
               /\ d.live = live \/ proc' = [proc EXCEPT ![p] = [c EXCEPT !.pc = x]]
  <2>1. CASE proc' = [proc EXCEPT ![p] = [c EXCEPT !.pc = x, !.live = live]]
    <3> DEFINE d == [c EXCEPT !.pc = x, !.live = live]
    <3>1. d.pc = x /\ d.task = c.task /\ d.seen = c.seen /\ d.ver = c.ver /\ d.at = c.at /\ d.live = live
      BY <1>0 DEF Calls
    <3> QED
      BY <2>1, <3>1
  <2>2. CASE proc' = [proc EXCEPT ![p] = [c EXCEPT !.pc = x]]
    <3> DEFINE d == [c EXCEPT !.pc = x]
    <3>1. d.pc = x /\ d.task = c.task /\ d.seen = c.seen /\ d.ver = c.ver /\ d.at = c.at /\ d.live = c.live
      BY <1>0 DEF Calls
    <3> QED
      BY <2>2, <3>1
  <2> QED
    BY <1>2, <2>1, <2>2
<1>5. x = "decide" /\ Fresh(d) => Sure(d, EasedBy(p), Broken, ~changed'[Me])
  <2> SUFFICES ASSUME x = "decide", Fresh(d) PROVE Sure(d, EasedBy(p), Broken, ~changed'[Me])
    OBVIOUS
  <2>1. Fresh(proc[p])
    BY <1>0, <1>4 DEF Fresh, OnMe
  <2>2. /\ c.seen.phase = row[Me].phase /\ c.seen.step = row[Me].step /\ Matches(c.seen) /\ (AtEase => EasedBy(p))
    BY <1>0, <2>1, FreshFacts
  <2>3. d.live = session[Me] \/ d.live = "unknown"
    BY <1>0, <1>4, <1>a, <2>1 DEF AtRestInv, Fresh, OnMe
  <2>4. d.live \in {"failed", "gone"} => Broken
    BY <2>3 DEF Broken
  <2>5. d.live \in {"idle", "done"} /\ d.seen.phase = "running" => EasedBy(p)
    BY <1>4, <2>2, <2>3 DEF Matches, Early, AtEase, Turning
  <2>6. d.live = "working" => ~Rested(d.seen) /\ ~GivenUp(d.seen)
    BY <1>4, <2>2, <2>3 DEF Matches, AtEase, Turning, Broken
  <2> QED
    BY <1>4, <2>4, <2>5, <2>6 DEF Sure
<1>6. x = "clear" => Sure(d, EasedBy(p), Broken, ~changed'[Me])
  BY <1>4, PlainSure DEF Keen
<1>7. ~Sending(d)
  BY <1>3, <1>4 DEF Sending
<1>8. Turns(p, d)
  BY <1>0, <1>3, <1>4, <1>5, <1>6, <1>7 DEF Turns
<1> QED
  BY <1>1, <1>8 DEF Calmly
LEMMA VerdictFound ==
  ASSUME NEW t, NEW seen, NEW version, VerdictOf(t, seen, version) # NoVerdict
  PROVE  \E v \in verdicts : v.task = t /\ v.for = version
<1> DEFINE fit == {v \in verdicts : v.task = t /\ v.round = seen.round /\ v.for = version}
<1>1. fit # {}
  BY DEF VerdictOf
<1> QED
  BY <1>1

(* A verdict on the version that is checked is one on the work as it is.   *)
LEMMA VerdictHolds ==
  ASSUME AtRestInv, row[Me].phase = "checking", NEW seen, VerdictOf(Me, seen, ver[Me]) # NoVerdict
  PROVE  ~changed[Me]
BY VerdictFound DEF AtRestInv

LEMMA DecideCalm ==
  ASSUME Typed, IInv, AtRestInv, NEW p \in Procs, Decide(p)
  PROVE  Calmly(p)
<1> DEFINE c == proc[p]
<1>0. c \in Calls /\ c = proc[p] /\ c.pc = "decide" /\ UNCHANGED changed
  BY DEF Typed, Local, Decide, At, world
<1>1. Calms
  BY CalmWorld DEF Decide
<1>2. PICK patient \in BOOLEAN : Due(p, NextMove(c.seen, Observation(p, patient)))
  BY DEF Decide
<1> DEFINE o == Observation(p, patient)
<1>3. /\ o.observed => o.live = c.live
      /\ o.stopped => c.at >= c.ver
      /\ o.replied => reply[c.task] >= c.ver
      /\ o.verdict = IF c.seen.phase = "checking" THEN VerdictOf(c.task, c.seen, c.ver) ELSE NoVerdict
      /\ o.land = "none"
  BY DEF Observation
<1>4. Due(p, NextMove(c.seen, o))
  BY <1>2
<1> HIDE DEF o, c
<1>5. o.verdict = NoVerdict \/ Given(o.verdict)
  BY <1>3, VerdictFacts
<1>6. Fresh(c) => Seeing(c.seen, o, EasedBy(p), Broken, ~changed[Me])
  <2> SUFFICES ASSUME Fresh(c) PROVE Seeing(c.seen, o, EasedBy(p), Broken, ~changed[Me])
    OBVIOUS
  <2>1. /\ c.seen.phase = row[Me].phase /\ c.seen.step = row[Me].step
        /\ Matches(c.seen) /\ Sure(c, AtEase, Broken, ~changed[Me]) /\ (AtEase => EasedBy(p))
    BY <1>0, FreshFacts
  <2>2. c.task = Me /\ c.ver = ver[Me]
    BY DEF Fresh, OnMe
  <2>3. Rested(c.seen) => EasedBy(p)
    BY <2>1 DEF Matches
  <2>4. o.observed /\ o.live \in {"failed", "gone"} => Broken
    BY <1>0, <1>3, <2>1 DEF Sure
  <2>5. AtRest(o) /\ c.seen.phase = "running" => EasedBy(p)
    BY <1>0, <1>3, <2>1 DEF Sure, AtRest
  <2>6. (o.stopped \/ o.replied) /\ Asking(c.seen) => EasedBy(p)
    <3>1. o.stopped => Answered
      BY <1>0, <1>3, <2>2 DEF Answered
    <3>2. o.replied => Answered
      BY <1>3, <2>2 DEF Answered
    <3> QED
      BY <2>1, <3>1, <3>2 DEF Matches
  <2>7. o.observed /\ o.live = "working" => ~Rested(c.seen) /\ ~GivenUp(c.seen)
    BY <1>0, <1>3, <2>1 DEF Sure
  <2>8. c.seen.phase = "checking" /\ o.verdict # NoVerdict => ~changed[Me]
    BY <1>3, <2>1, <2>2, VerdictHolds
  <2> QED
    BY <1>3, <2>3, <2>4, <2>5, <2>6, <2>7, <2>8 DEF Seeing
<1>7. \E d : Turns(p, d)
  BY <1>0, <1>4, <1>5, <1>6, NextTurns
<1> QED
  BY <1>1, <1>7 DEF Calmly

(* A check that could not be begun hands the task back.                    *)
LEMMA SpawnCheckCalm ==
  ASSUME Typed, IInv, AtRestInv, NEW p \in Procs, SpawnCheck(p)
  PROVE  Calmly(p)
<1>1. Calms
  BY DEF SpawnCheck, Calms, Broken
<1>2. proc[p].pc = "check" /\ (End(p) \/ Fail(p, "check"))
  BY DEF SpawnCheck, At
<1>3. Fresh(proc[p]) => EasedBy(p)
  <2> HAVE Fresh(proc[p])
  <2>1. proc[p].seen.phase = "checking"
    BY <1>2 DEF Typed, Local
  <2> QED
    BY <2>1, FreshFacts DEF Matches, Rested
<1>4. "check" \in Steps
  BY Words
<1> QED
  BY <1>1, <1>2, <1>3, <1>4, EndTurns, FailTurns DEF Calmly

(* A message that could not be sent was the only one.                      *)
LEMMA SendCalm ==
  ASSUME Typed, IInv, AtRestInv, NEW p \in Procs, Send(p), inbox' = inbox
  PROVE  Calmly(p)
<1>1. Calms
  BY DEF Send, Calms, Broken
<1>2. proc[p].pc = "send"
  BY DEF Send, At
<1>3. CASE End(p)
  BY <1>1, <1>3, EndTurns DEF Calmly
<1>4. CASE Fail(p, "")
  <2>1. Fresh(proc[p]) => Broken \/ EasedBy(p)
    <3> HAVE Fresh(proc[p])
    <3>1. Asking(proc[p].seen)
      BY <1>2 DEF Fresh, IInv, Good, Placed, Suits, Asking
    <3>2. OneMessage
      BY <3>1, FreshFacts DEF Matches
    <3>3. Sending(proc[p])
      BY <1>2 DEF Fresh, OnMe, Sending
    <3> QED
      BY <3>2, <3>3 DEF OneMessage, Unsent, EasedBy
  <2>2. "" \in Steps
    BY Words
  <2> QED
    BY <1>1, <1>2, <1>4, <2>1, <2>2, FailTurns DEF Calmly
<1> QED
  BY <1>3, <1>4 DEF Send

LEMMA RowPuts ==
  ASSUME Typed, NEW t \in Tasks, NEW r, r.phase = row[t].phase, r.step = row[t].step,
         row' = row \/ row' = [row EXCEPT ![t] = r]
  PROVE  row'[Me].phase = row[Me].phase /\ row'[Me].step = row[Me].step
BY MeFacts DEF Typed

LEMMA StartCalm ==
  ASSUME Typed, IInv, AtRestInv, Single, NEW p \in Procs, StartQueued(p) \/ Starting(p) \/ Record(p) \/ LaunchStart(p)
  PROVE  Calmly(p)
<1>0. Local(proc[p]) /\ Me \in Tasks
  BY MeFacts DEF Typed
<1>1. CASE StartQueued(p)
  <2>1. Calms
    BY <1>1, CalmWorld DEF StartQueued
  <2>2. proc[p].task \in Tasks /\ (Claim(p, "starting") \/ End(p))
    BY <1>0, <1>1 DEF StartQueued, At, Local, Missed
  <2> QED
    BY <2>1, <2>2, EndTurns, ClaimTurns DEF Calmly
<1>2. ASSUME proc[p].pc \in {"starting", "launchStart"}, UNCHANGED <<row, ver, inbox, verdicts, stops, reply, changed>>,
             StartSession(proc[p].task) \/ UNCHANGED session
      PROVE  Calms
  <2>1. CASE UNCHANGED session
    BY <1>2, <2>1 DEF Calms, Broken
  <2>2. CASE StartSession(proc[p].task)
    <3>1. session[proc[p].task] = "none" /\ proc[p].task \in Tasks
      BY <1>0, <1>2 DEF Single, Starters, Local
    <3>2. session' = [session EXCEPT ![proc[p].task] = "working"] /\ session \in [Tasks -> LiveStates \union {"none"}]
      BY <2>2 DEF StartSession, Typed, WorldOK
    <3>3. proc[p].task # Me => session'[Me] = session[Me]
      BY <1>0, <3>2
    <3> QED
      BY <1>2, <3>1, <3>3 DEF Calms, Broken
  <2> QED
    BY <1>2, <2>1, <2>2
<1>3. "record" \in Pcs /\ "record" \notin Keen \union {"idle", "insert", "look"} /\ "waiting" \in Steps
  BY Words DEF Pcs, Keen
<1>4. CASE Starting(p)
  <2>1. Calms
    BY <1>2, <1>4 DEF Starting, At
  <2>2. proc[p].pc = "starting" /\ (Become(p, [proc[p] EXCEPT !.pc = "record"]) \/ Fail(p, "waiting"))
    BY <1>4 DEF Starting, At
  <2>3. Fresh(proc[p]) => Early(proc[p].seen)
    BY <2>2 DEF Fresh, IInv, Good, Placed, Early
  <2> QED
    BY <1>3, <2>1, <2>2, <2>3, GoesTurns, FailTurns DEF Calmly
<1>5. CASE Record(p)
  <2>1. UNCHANGED <<ver, session, inbox, verdicts, stops, reply, changed>> /\ End(p)
    BY <1>5 DEF Record, world
  <2>2. row'[Me].phase = row[Me].phase /\ row'[Me].step = row[Me].step
    <3> DEFINE t == proc[p].task
               r == [row[t] EXCEPT !.session = TRUE]
    <3>1. t \in Tasks /\ (row' = row \/ row' = [row EXCEPT ![t] = r])
      BY <1>0, <1>5 DEF Record, At, Local
    <3>2. r.phase = row[t].phase /\ r.step = row[t].step
      BY <3>1 DEF Typed, Rows
    <3> HIDE DEF r
    <3> QED
      BY <3>1, <3>2, RowPuts
  <2>3. Calms
    BY <2>1, <2>2 DEF Calms, Broken
  <2> QED
    BY <2>1, <2>3, EndTurns DEF Calmly
<1>6. CASE LaunchStart(p)
  <2>1. Calms
    BY <1>2, <1>6 DEF LaunchStart, At
  <2>2. CASE Become(p, [proc[p] EXCEPT !.pc = "record"])
    <3>1. proc[p].pc # "stopped"
      BY <1>6 DEF LaunchStart, At
    <3> QED
      BY <1>3, <2>1, <2>2, <3>1, GoesTurns DEF Calmly
  <2>3. CASE Become(p, [proc[p] EXCEPT !.pc = "delete", !.locks = {}])
    <3> DEFINE c == proc[p]
               d == [c EXCEPT !.pc = "delete", !.locks = {}]
    <3>1. c \in Calls /\ c = proc[p] /\ c.pc = "launchStart"
      BY <1>0, <1>6 DEF Local, LaunchStart, At
    <3>2. proc' = [proc EXCEPT ![p] = d]
      BY <2>3 DEF Become
    <3> HIDE DEF c
    <3>3. d.pc = "delete" /\ d.task = c.task /\ d.at = c.at /\ d.ver = c.ver
      BY <3>1 DEF Calls
    <3> HIDE DEF d
    <3>4. Turns(p, d)
      BY <3>1, <3>2, <3>3, PlainSure, OnTurns DEF Keen
    <3> QED
      BY <2>1, <3>4 DEF Calmly
  <2> QED
    BY <1>6, <2>2, <2>3 DEF LaunchStart
<1> QED
  BY <1>1, <1>4, <1>5, <1>6
(* What lands has found the worker at rest.                                *)
LEMMA LandCalm ==
  ASSUME Typed, IInv, AtRestInv, NEW p \in Procs, Land(p)
  PROVE  Calmly(p)
<1>1. Calms
  BY CalmWorld DEF Land
<1>2. proc[p].pc = "land" /\ proc[p].task \in Tasks
  BY DEF Land, At, Typed, Local
<1>3. CASE End(p)
  BY <1>1, <1>3, EndTurns DEF Calmly
<1>4. CASE Claim(p, "landing") /\ Same(proc[p].seen, proc[p].ver, proc[p].task) /\ row[proc[p].task].phase = "merging"
  <2>1. proc[p].task = Me => EasedBy(p)
    <3> HAVE proc[p].task = Me
    <3>1. Fresh(proc[p])
      BY <1>2, <1>4 DEF Fresh, OnMe, Same
    <3> QED
      BY <1>2, <3>1, FreshFacts DEF Sure
  <2> QED
    BY <1>1, <1>2, <1>4, <2>1, ClaimTurns DEF Calmly
<1> QED
  BY <1>3, <1>4 DEF Land, Missed

(* It goes on, with a move of its own.                                     *)
LEMMA MovesTurns ==
  ASSUME Typed, NEW p \in Procs, proc[p].pc # "stopped", NEW x \in {"clean", "remove"}, NEW m,
         Become(p, [proc[p] EXCEPT !.pc = x, !.move = m]),
         x = "clean" /\ proc[p].job = "landing" /\ Fresh(proc[p]) => EasedBy(p)
  PROVE  \E d : Turns(p, d)
<1> DEFINE c == proc[p]
           d == [c EXCEPT !.pc = x, !.move = m]
<1>1. c \in Calls /\ c = proc[p]
  BY DEF Typed, Local
<1>2. proc' = [proc EXCEPT ![p] = d]
  BY DEF Become
<1> HIDE DEF c
<1>3. d.pc = x /\ d.task = c.task /\ d.at = c.at /\ d.ver = c.ver /\ d.job = c.job
  BY <1>1 DEF Calls
<1> HIDE DEF d
<1>4. Fresh(c) => Sure(d, EasedBy(p), Broken, ~changed'[Me])
  BY <1>1, <1>3 DEF Sure
<1>5. Turns(p, d)
  BY <1>1, <1>2, <1>3, <1>4, OnTurns
<1> QED
  BY <1>5

LEMMA LandMoveTurns ==
  ASSUME Typed, NEW p \in Procs, NEW x \in {"problem", "conflict"}, Due(p, LandMove(p, x)), proc[p].pc # "stopped",
         proc[p].seen.phase = "merging", UNCHANGED changed, Fresh(proc[p]) => EasedBy(p)
  PROVE  \E d : Turns(p, d)
<1> DEFINE o == [NoObs EXCEPT !.land = x]
<1>1. Due(p, NextMove(proc[p].seen, o))
  BY DEF LandMove
<1>2. ~o.observed /\ o.verdict = NoVerdict
  BY DEF NoObs
<1> HIDE DEF o
<1>3. Fresh(proc[p]) => Seeing(proc[p].seen, o, EasedBy(p), Broken, ~changed[Me])
  BY <1>2 DEF Seeing, AtRest
<1> QED
  BY <1>1, <1>2, <1>3, NextTurns

LEMMA LandingCalm ==
  ASSUME Typed, IInv, AtRestInv, NEW p \in Procs, Landing(p) \/ Clean(p)
  PROVE  Calmly(p)
<1>1. UNCHANGED <<row, ver, session, inbox, verdicts, stops, reply, changed>>
  BY DEF Landing, Clean
<1>2. Calms
  BY <1>1 DEF Calms, Broken
<1>3. Local(proc[p]) /\ proc[p].pc \in {"landing", "clean"}
  BY DEF Typed, Landing, Clean, At
<1>4. Fresh(proc[p]) /\ (proc[p].pc = "landing" \/ proc[p].job = "landing") => EasedBy(p)
  BY <1>3, FreshFacts DEF Sure
<1>5. CASE Landing(p)
  <2>1. proc[p].pc = "landing" /\ proc[p].seen.phase = "merging"
    BY <1>3, <1>5 DEF Landing, At, Local
  <2>2. \/ \E l \in {"problem", "conflict"} : Due(p, LandMove(p, l))
        \/ \E x \in {"clean", "remove"} : Become(p, [proc[p] EXCEPT !.pc = x, !.move = LandMove(p, "done")])
    BY <1>5 DEF Landing
  <2> QED
    BY <1>1, <1>2, <1>4, <2>1, <2>2, LandMoveTurns, MovesTurns DEF Calmly
<1>6. CASE Clean(p)
  <2>1. proc[p].pc = "clean" /\ (proc[p].job = "landing" => proc[p].seen.phase = "merging")
    BY <1>3, <1>6 DEF Clean, At, Local
  <2>2. \/ Become(p, [proc[p] EXCEPT !.pc = "remove"])
        \/ IF proc[p].job = "landing" THEN Due(p, LandMove(p, "problem")) ELSE End(p)
    BY <1>6 DEF Clean
  <2>3. "remove" \in Pcs /\ "remove" \notin Keen \union {"idle", "insert", "look"}
    BY DEF Pcs, Keen
  <2> QED
    BY <1>1, <1>2, <1>4, <2>1, <2>2, <2>3, LandMoveTurns, GoesTurns, EndTurns DEF Calmly
<1> QED
  BY <1>5, <1>6

LEMMA RemoveCalm ==
  ASSUME Typed, IInv, AtRestInv, NEW p \in Procs, Remove(p)
  PROVE  Calmly(p)
<1> DEFINE c == proc[p]
           d == [c EXCEPT !.pc = "write"]
<1>0. c \in Calls /\ Local(c) /\ c.pc = "remove" /\ c = proc[p] /\ Me \in Tasks
  BY MeFacts DEF Typed, Local, Remove, At
<1>1. Calms
  <2>1. PICK t : UNCHANGED session \/ session' = [session EXCEPT ![t] = IF @ = "none" \/ ~proc[p].seen.session THEN @ ELSE "gone"]
    BY DEF Remove
  <2>2. session'[Me] = session[Me] \/ (session[Me] # "none" /\ session'[Me] = "gone")
    BY <1>0, <2>1 DEF Typed, WorldOK
  <2> QED
    BY <2>2 DEF Remove, Calms, Broken, Turning
<1>2. End(p) \/ (c.move # Idle.move /\ proc' = [proc EXCEPT ![p] = d])
  BY DEF Remove, Become
<1>3. CASE c.move # Idle.move /\ proc' = [proc EXCEPT ![p] = d]
  <2>1. c.move.next.phase \in {"done", "cancelled"}
    BY <1>0, <1>3 DEF Local
  <2> HIDE DEF c
  <2>2. d.pc = "write" /\ d.task = c.task /\ d.at = c.at /\ d.ver = c.ver /\ d.move = c.move
    BY <1>0 DEF Calls
  <2> HIDE DEF d
  <2>3. Sure(d, EasedBy(p), Broken, ~changed'[Me])
    BY <2>1, <2>2 DEF Sure, Suited, Rested, GivenUp, Asking, Early
  <2>4. Turns(p, d)
    BY <1>0, <1>3, <2>2, <2>3, OnTurns
  <2> QED
    BY <1>1, <2>4 DEF Calmly
<1> QED
  BY <1>1, <1>2, <1>3, EndTurns DEF Calmly

LEMMA CheckCalm ==
  ASSUME Typed, IInv, AtRestInv, NEW p \in Procs, CheckClaim(p) \/ CheckRun(p) \/ CheckApply(p)
  PROVE  Calmly(p)
<1> DEFINE c == proc[p]
           t == c.task
<1>0. c \in Calls /\ Local(c) /\ c.seen \in Rows(Tasks) /\ c.pc \in {"checkLock", "checkRun", "checkApply"} /\ t \in Tasks /\ Me \in Tasks
  BY CallFacts, MeFacts DEF Typed, Local, CheckClaim, CheckRun, CheckApply, At
<1>1. CASE CheckClaim(p)
  <2> DEFINE l == CheckLock(t, c.seen.round)
             L == {l}
             r == row[t]
             v == ver[t]
             e == [c EXCEPT !.seen = r, !.ver = v, !.locks = L]
  <2>1. changed' = changed \/ changed' = [changed EXCEPT ![t] = FALSE]
    BY <1>1 DEF CheckClaim
  <2>2. changed'[Me] => changed[Me]
    BY <1>0, <2>1 DEF Typed, WorldOK
  <2>3. Calms
    BY <1>1, <2>2 DEF CheckClaim, Calms, Broken
  <2>4. \/ End(p)
        \/ /\ proc' = [proc EXCEPT ![p] = [e EXCEPT !.pc = "checkRun"]] /\ changed' = [changed EXCEPT ![t] = FALSE]
        \/ /\ proc' = [proc EXCEPT ![p] = [e EXCEPT !.pc = "checkApply"]] /\ changed' = changed
           /\ row[t].phase = "checking" /\ VerdictOf(t, r, v) # NoVerdict
    BY <1>1 DEF CheckClaim, Become
  <2>a. c = proc[p] /\ r = row[t] /\ v = ver[t] /\ t = c.task
    OBVIOUS
  <2>5. ASSUME NEW x \in {"checkRun", "checkApply"}, proc' = [proc EXCEPT ![p] = [e EXCEPT !.pc = x]],
               t = Me => ~changed'[Me]
        PROVE  \E d : Turns(p, d)
    <3> DEFINE d == [e EXCEPT !.pc = x]
    <3>1. proc' = [proc EXCEPT ![p] = d]
      BY <2>5
    <3> HIDE DEF c, t, L, r, v
    <3>2. d.pc = x /\ d.task = c.task /\ d.at = c.at
      BY <1>0 DEF Calls
    <3> HIDE DEF d
    <3>3. Fresh(d) => Sure(d, EasedBy(p), Broken, ~changed'[Me])
      BY <2>5, <2>a, <3>2 DEF Sure, Fresh, OnMe
    <3>4. Turns(p, d)
      BY <2>a, <3>1, <3>2, <3>3 DEF Turns, Sending
    <3> QED
      BY <3>4
  <2>6. changed' = [changed EXCEPT ![t] = FALSE] => (t = Me => ~changed'[Me])
    BY <1>0 DEF Typed, WorldOK
  <2>7. changed' = changed /\ row[t].phase = "checking" /\ VerdictOf(t, r, v) # NoVerdict => (t = Me => ~changed'[Me])
    BY <2>a, VerdictHolds
  <2> HIDE DEF e, t, r, v
  <2> QED
    BY <2>3, <2>4, <2>5, <2>6, <2>7, EndTurns DEF Calmly
<1>2. CASE CheckRun(p)
  <2>1. Become(p, [proc[p] EXCEPT !.pc = "checkApply"]) /\ c.pc = "checkRun"
    BY <1>2 DEF CheckRun, At
  <2>2. \A v \in verdicts' : v \notin verdicts => v.task = t /\ v.for = c.ver
    BY <1>2 DEF CheckRun
  <2>3. UNCHANGED <<row, ver, session, inbox, stops, reply, changed>>
    BY <1>2 DEF CheckRun
  <2>4. Fresh(c) => ~changed[Me]
    BY <2>1, FreshFacts DEF Sure
  <2>5. t = Me => c.ver <= ver[Me]
    BY <2>1, Mine
  <2>6. ASSUME NEW v \in verdicts', v.task = Me, v \notin verdicts
        PROVE  v.for <= ver[Me] /\ (v.for = ver[Me] /\ row[Me].phase = "checking" => ~changed'[Me])
    <3>1. t = Me /\ v.for = c.ver
      BY <2>2, <2>6
    <3>2. v.for = ver[Me] /\ row[Me].phase = "checking" => Fresh(c)
      BY <2>1, <3>1 DEF Fresh, OnMe
    <3> QED
      BY <2>3, <2>4, <2>5, <3>1, <3>2
  <2>7. Calms
    BY <2>3, <2>6 DEF Calms, Broken
  <2> DEFINE d == [c EXCEPT !.pc = "checkApply"]
  <2>8. proc' = [proc EXCEPT ![p] = d] /\ c = proc[p] /\ "checkApply" \in Pcs
    BY <2>1 DEF Become, Pcs
  <2> HIDE DEF c
  <2>9. d.pc = "checkApply" /\ d.task = c.task /\ d.at = c.at /\ d.ver = c.ver
    BY <1>0, <2>8, CallTo
  <2> HIDE DEF d
  <2>10. Fresh(c) => Sure(d, EasedBy(p), Broken, ~changed'[Me])
    BY <2>3, <2>4, <2>9 DEF Sure
  <2>11. Turns(p, d)
    BY <2>1, <2>8, <2>9, <2>10, OnTurns
  <2> QED
    BY <2>7, <2>11 DEF Calmly
<1>3. CASE CheckApply(p)
  <2> DEFINE v == VerdictOf(t, c.seen, c.ver)
             k == Dependents(t)
             o == [NoObs EXCEPT !.verdict = v, !.dependents = k]
  <2>1. Due(p, NextMove(c.seen, o)) /\ c.seen.phase = "checking" /\ UNCHANGED changed /\ c.pc = "checkApply"
    BY <1>0, <1>3 DEF CheckApply, At, Local, world
  <2>2. Calms
    BY <1>3, CalmWorld DEF CheckApply
  <2>3. v = NoVerdict \/ Given(v)
    BY VerdictFacts
  <2>4. o.verdict = v /\ ~o.observed
    <3> HIDE DEF v, k
    <3> QED
      BY DEF NoObs
  <2> HIDE DEF o
  <2>5. Fresh(c) => Seeing(c.seen, o, EasedBy(p), Broken, ~changed[Me])
    <3> HAVE Fresh(c)
    <3>1. /\ c.seen.phase = row[Me].phase /\ Matches(c.seen) /\ Sure(c, AtEase, Broken, ~changed[Me]) /\ (AtEase => EasedBy(p))
      BY FreshFacts
    <3> HIDE DEF v, c
    <3>2. EasedBy(p) /\ ~changed[Me]
      BY <2>1, <3>1 DEF Sure, Matches, Rested
    <3> QED
      BY <2>1, <2>4, <3>2 DEF Seeing
  <2> HIDE DEF v
  <2> QED
    BY <2>1, <2>2, <2>3, <2>4, <2>5, NextTurns DEF Calmly
<1> QED
  BY <1>1, <1>2, <1>3
(* It goes on with other locks, to a point where nothing is known of the   *)
(* worker.                                                                 *)
LEMMA LocksTurns ==
  ASSUME Typed, NEW p \in Procs, proc[p].pc # "stopped", NEW x, x \notin Keen \union {"idle", "insert", "look"}, NEW L,
         proc' = [proc EXCEPT ![p] = [proc[p] EXCEPT !.pc = x, !.locks = L]]
  PROVE  \E d : Turns(p, d)
<1> DEFINE c == proc[p]
           d == [c EXCEPT !.pc = x, !.locks = L]
<1>1. c \in Calls /\ c = proc[p] /\ proc' = [proc EXCEPT ![p] = d]
  BY DEF Typed, Local
<1> HIDE DEF c
<1>2. d.pc = x /\ d.task = c.task /\ d.at = c.at /\ d.ver = c.ver
  BY <1>1 DEF Calls
<1> HIDE DEF d
<1>3. Turns(p, d)
  BY <1>1, <1>2, PlainSure, OnTurns DEF Keen
<1> QED
  BY <1>3

LEMMA LaunchCalm ==
  ASSUME Typed, NEW p \in Procs, (\E a \in left.launches : Parse(p, a)) \/ Queue(p) \/ LaunchLock(p)
  PROVE  Calmly(p)
<1>1. Calms
  BY CalmWorld DEF Parse, Queue, LaunchLock
<1>2. ASSUME NEW a \in left.launches, Parse(p, a) PROVE \E d : Turns(p, d)
  <2> DEFINE i == Idle
             r == [NoRow EXCEPT !.max = Rounds, !.after = a.after, !.check = a.check,
                                !.merge = a.merge, !.hold = a.hold, !.inPlace = a.inPlace]
             d == [i EXCEPT !.pc = "insert", !.job = "launch", !.seen = r]
  <2>1. proc' = [proc EXCEPT ![p] = d]
    BY <1>2 DEF Parse, Become
  <2>2. i \in Calls /\ i.at = 0 /\ i.task = 0 /\ Me # 0
    BY IdleFacts, MeFacts
  <2> HIDE DEF i, r
  <2>3. d.pc = "insert" /\ d.at = 0 /\ d.task = 0
    BY <2>2 DEF Calls
  <2> HIDE DEF d
  <2>4. Turns(p, d)
    BY <2>1, <2>2, <2>3 DEF Turns, Sending, Fresh, OnMe
  <2> QED
    BY <2>4
<1>3. ASSUME Queue(p) PROVE \E d : Turns(p, d)
  <2>1. "delete" \in Pcs /\ "delete" \notin Keen \union {"idle", "insert", "look"} /\ proc[p].pc # "stopped"
    BY <1>3 DEF Pcs, Keen, Queue, At
  <2>2. End(p) \/ Become(p, [proc[p] EXCEPT !.pc = "delete"])
    BY <1>3 DEF Queue
  <2>3. CASE End(p)
    BY <2>3, EndTurns
  <2>4. CASE Become(p, [proc[p] EXCEPT !.pc = "delete"])
    <3> DEFINE x == "delete"
    <3>1. x \in Pcs /\ x \notin Keen \union {"idle", "insert", "look"} /\ Become(p, [proc[p] EXCEPT !.pc = x])
      BY <2>1, <2>4
    <3> HIDE DEF x
    <3> QED
      BY <2>1, <3>1, GoesTurns
  <2> QED
    BY <2>2, <2>3, <2>4
<1>4. ASSUME LaunchLock(p) PROVE \E d : Turns(p, d)
  <2>1. "launchStart" \in Pcs /\ "launchStart" \notin Keen \union {"idle", "insert", "look"} /\ proc[p].pc # "stopped"
    BY <1>4 DEF Pcs, Keen, LaunchLock, At
  <2>2. \/ \E L : proc' = [proc EXCEPT ![p] = [proc[p] EXCEPT !.pc = "launchStart", !.locks = L]]
        \/ Become(p, [proc[p] EXCEPT !.pc = "launchStart"])
    BY <1>4 DEF LaunchLock, Become
  <2> DEFINE x == "launchStart"
  <2>3. /\ x \in Pcs /\ x \notin Keen \union {"idle", "insert", "look"}
        /\ \/ \E L : proc' = [proc EXCEPT ![p] = [proc[p] EXCEPT !.pc = x, !.locks = L]]
           \/ Become(p, [proc[p] EXCEPT !.pc = x])
    BY <2>1, <2>2
  <2> HIDE DEF x
  <2>4. ASSUME NEW L, proc' = [proc EXCEPT ![p] = [proc[p] EXCEPT !.pc = x, !.locks = L]] PROVE \E d : Turns(p, d)
    BY <2>1, <2>3, <2>4, LocksTurns
  <2>5. CASE Become(p, [proc[p] EXCEPT !.pc = x])
    BY <2>1, <2>3, <2>5, GoesTurns
  <2> QED
    BY <2>3, <2>4, <2>5
<1> QED
  BY <1>1, <1>2, <1>3, <1>4 DEF Calmly

LEMMA CommandCalm ==
  ASSUME Typed, IInv, AtRestInv, NEW p \in Procs,
         \/ \E t \in Tasks, kind \in Commands : Command(p, t, kind)
         \/ Retry(p) \/ SetHold(p) \/ Finish(p) \/ Finishing(p)
  PROVE  Calmly(p)
<1> DEFINE c == proc[p]
<1>0. c \in Calls /\ c = proc[p] /\ Local(c) /\ c.seen \in Rows(Tasks)
  BY CallFacts DEF Typed, Local
<1>1. ASSUME NEW t \in Tasks, NEW kind \in Commands, Command(p, t, kind) PROVE Calmly(p)
  <2> DEFINE x == IF kind = "discard" /\ Listed(t) THEN "cancel" ELSE kind
  <2>1. proc' = [proc EXCEPT ![p] = ReadNow(t, x, kind)]
    BY <1>1 DEF Command, Become, ReadNow
  <2>2. x \in Pcs /\ x \notin Keen \union {"idle", "insert"} /\ kind \in Jobs /\ 0 \in Nat
    BY DEF Commands, Keen, Pcs, Jobs
  <2>3. Calms
    BY <1>1, CalmWorld DEF Command
  <2> HIDE DEF x
  <2> QED
    BY <2>1, <2>2, <2>3, ReadsTurns DEF Calmly
<1>2. CASE Retry(p)
  <2> DEFINE r == c.seen
             m == RetryMove(r)
  <2>1. c.pc = "retry" /\ Resumable(r) /\ r \in Rows(Tasks) /\ Due(p, m) /\ UNCHANGED changed
    BY <1>0, <1>2 DEF Retry, At, Local, world
  <2>2. Calms
    BY <1>2, CalmWorld DEF Retry
  <2>3. m.next # r /\ m \in Moves
    BY <2>1, RetrySound DEF Sound
  <2>4. Fresh(c) => Deals(r, m, EasedBy(p), Broken, ~changed[Me])
    <3> HAVE Fresh(c)
    <3>1. Rested(r) => EasedBy(p)
      BY <1>0, FreshFacts DEF Matches
    <3> QED
      BY <2>1, <3>1, RetryDeals
  <2>5. Fresh(c) => Suited(r, m.next, EasedBy(p), Broken, ~changed'[Me])
    BY <2>1, <2>3, <2>4 DEF Deals
  <2> HIDE DEF m
  <2> QED
    BY <2>1, <2>2, <2>3, <2>5, DueTurns DEF Calmly
<1>3. CASE SetHold(p)
  <2>1. UNCHANGED <<ver, session, inbox, verdicts, stops, reply, changed>> /\ End(p)
    BY <1>3 DEF SetHold, world
  <2>2. row'[Me].phase = row[Me].phase /\ row'[Me].step = row[Me].step
    <3> DEFINE t == proc[p].task
               b == proc[p].pc = "hold"
               r == [row[t] EXCEPT !.hold = b]
    <3>1. t \in Tasks /\ (row' = row \/ row' = [row EXCEPT ![t] = r])
      BY <1>0, <1>3 DEF SetHold, Local
    <3> HIDE DEF b
    <3>2. r.phase = row[t].phase /\ r.step = row[t].step
      BY <3>1 DEF Typed, Rows
    <3> HIDE DEF r
    <3> QED
      BY <3>1, <3>2, RowPuts
  <2>3. Calms
    BY <2>1, <2>2 DEF Calms, Broken
  <2> QED
    BY <2>1, <2>3, EndTurns DEF Calmly
<1>4. CASE Finish(p)
  <2>1. c.task \in Tasks /\ (Claim(p, "finishing") \/ End(p))
    BY <1>0, <1>4 DEF Finish, At, Local, Missed
  <2>2. Calms
    BY <1>4, CalmWorld DEF Finish
  <2> QED
    BY <2>1, <2>2, EndTurns, ClaimTurns DEF Calmly
<1>5. CASE Finishing(p)
  <2>1. c.pc = "finishing" /\ c.job # "landing"
    BY <1>0, <1>5 DEF Finishing, At, Local
  <2>2. \/ End(p)
        \/ \E x \in {"clean", "remove"} : \E m : Become(p, [proc[p] EXCEPT !.pc = x, !.move = m])
    BY <1>5 DEF Finishing
  <2>3. Calms
    BY <1>5, CalmWorld DEF Finishing
  <2> QED
    BY <2>1, <2>2, <2>3, EndTurns, MovesTurns DEF Calmly
<1> QED
  BY <1>1, <1>2, <1>3, <1>4, <1>5

(* A row that is to be cancelled is written, or its work goes first.       *)
LEMMA CancelledTurns ==
  ASSUME NEW p \in Procs, NEW d, proc' = [proc EXCEPT ![p] = d], d.pc \in {"write", "clean"},
         d.task = proc[p].task, d.at = proc[p].at, d.job # "landing" \/ d.pc = "write",
         d.pc = "write" => d.move.next.phase = "cancelled"
  PROVE  Turns(p, d)
<1>1. Sure(d, EasedBy(p), Broken, ~changed'[Me])
  BY DEF Sure, Suited, Rested, GivenUp, Asking, Early
<1> QED
  BY <1>1 DEF Turns, Sending

(* An interrupt wakes nobody.                                              *)
LEMMA InterruptCalms ==
  ASSUME Typed, NEW t \in Tasks, UNCHANGED <<row, ver, work, verdicts, spawned, stops, reply, changed>>,
         Interrupt(t) \/ UNCHANGED <<session, inbox>>
  PROVE  Calms
<1>0. Me \in Tasks
  BY MeFacts
<1>1. CASE UNCHANGED <<session, inbox>>
  BY <1>1 DEF Calms, Broken
<1>2. ASSUME inbox' = [inbox EXCEPT ![t] = FALSE], NEW s \in {"idle", "stopped"},
             session' = [session EXCEPT ![t] = s], session[t] \in {"working", "needs_input", "idle"},
             s = "idle" => session[t] = "idle"
      PROVE  Calms
  <2>1. session'[Me] = IF t = Me THEN s ELSE session[Me]
    BY <1>0, <1>2 DEF Typed, WorldOK
  <2>2. inbox'[Me] => inbox[Me]
    BY <1>0, <1>2 DEF Typed, WorldOK
  <2> QED
    BY <1>2, <2>1, <2>2 DEF Calms, Broken, Turning
<1> QED
  BY <1>1, <1>2, InterruptFacts

LEMMA CancelCalm ==
  ASSUME Typed, NEW p \in Procs,
         Cancel(p) \/ CancelStop(p) \/ Cancelling(p) \/ Discard(p) \/ Discarding(p) \/ ClearGone(p)
  PROVE  Calmly(p)
<1> DEFINE c == proc[p]
           t == c.task
           L == {TaskLock(t)}
           u == To(c.seen, "cancelled", "")
           m == Stay(u)
           e == [c EXCEPT !.move = m, !.pc = "write"]
<1>0. /\ c \in Calls /\ c = proc[p] /\ Local(c) /\ c.seen \in Rows(Tasks) /\ t \in Tasks /\ t = c.task
      /\ c.pc \in {"cancel", "cancelStop", "cancelling", "discard", "discarding", "clear"}
  BY CallFacts DEF Typed, Local, Cancel, CancelStop, Cancelling, Discard, Discarding, ClearGone, At
<1>1. e = Cancelled(p)
  BY DEF Cancelled
<1>2. m.next.phase = "cancelled"
  <2>1. u.phase = "cancelled"
    BY <1>0 DEF To, Rows
  <2> HIDE DEF u
  <2> QED
    BY <2>1 DEF Stay, Move
<1>3. CASE Cancel(p)
  <2>1. \/ End(p)
        \/ proc' = [proc EXCEPT ![p] = [e EXCEPT !.locks = L]]
        \/ proc' = [proc EXCEPT ![p] = [[c EXCEPT !.pc = "cancelStop"] EXCEPT !.locks = L]]
    BY <1>1, <1>3 DEF Cancel, Missed
  <2>2. Calms
    BY <1>3, CalmWorld DEF Cancel
  <2>3. ASSUME proc' = [proc EXCEPT ![p] = [e EXCEPT !.locks = L]] PROVE \E d : Turns(p, d)
    <3> DEFINE d == [e EXCEPT !.locks = L]
    <3> HIDE DEF L, c, m, t
    <3>1. d.pc = "write" /\ d.task = t /\ d.move = m /\ d.at = c.at
      BY <1>0 DEF Calls
    <3>2. Turns(p, d)
      <4> HIDE DEF d
      <4> QED
        BY <1>0, <1>2, <2>3, <3>1, CancelledTurns DEF d
    <3> QED
      BY <3>2
  <2>4. ASSUME proc' = [proc EXCEPT ![p] = [[c EXCEPT !.pc = "cancelStop"] EXCEPT !.locks = L]] PROVE \E d : Turns(p, d)
    <3>1. proc' = [proc EXCEPT ![p] = [c EXCEPT !.pc = "cancelStop", !.locks = L]]
      BY <2>4
    <3>2. "cancelStop" \notin Keen \union {"idle", "insert", "look"} /\ proc[p].pc # "stopped"
      BY <1>0 DEF Keen
    <3> HIDE DEF L
    <3> QED
      BY <3>1, <3>2, LocksTurns
  <2> QED
    BY <2>1, <2>2, <2>3, <2>4, EndTurns DEF Calmly
<1>4. CASE CancelStop(p)
  <2>1. Calms
    BY <1>0, <1>4, InterruptCalms DEF CancelStop
  <2>2. End(p) \/ Become(p, [proc[p] EXCEPT !.pc = "cancelling"])
    BY <1>4 DEF CancelStop
  <2>3. "cancelling" \in Pcs /\ "cancelling" \notin Keen \union {"idle", "insert", "look"} /\ proc[p].pc # "stopped"
    BY <1>0 DEF Pcs, Keen
  <2> QED
    BY <2>1, <2>2, <2>3, EndTurns, GoesTurns DEF Calmly
<1>5. CASE Cancelling(p)
  <2> DEFINE r == row[t]
             v == ver[t]
             w == To(r, "cancelled", "")
             n == Stay(w)
             f == [c EXCEPT !.seen = r, !.ver = v, !.move = n]
  <2>1. Calms
    BY <1>5, CalmWorld DEF Cancelling
  <2>2. End(p) \/ \E x \in {"write", "clean"} : proc' = [proc EXCEPT ![p] = [f EXCEPT !.pc = x]]
    BY <1>5 DEF Cancelling, Become
  <2>3. ASSUME NEW x \in {"write", "clean"}, proc' = [proc EXCEPT ![p] = [f EXCEPT !.pc = x]] PROVE \E d : Turns(p, d)
    <3> DEFINE d == [f EXCEPT !.pc = x]
    <3>1. n.next.phase = "cancelled"
      <4>1. r \in Rows(Tasks)
        BY <1>0 DEF Typed
      <4>2. w.phase = "cancelled"
        BY <4>1 DEF To, Rows
      <4> HIDE DEF w
      <4> QED
        BY <4>2 DEF Stay, Move
    <3>2. c.job # "landing"
      BY <1>0, <1>5 DEF Cancelling, At, Local
    <3> HIDE DEF c, r, v, n, t
    <3>3. d.pc = x /\ d.task = t /\ d.move = n /\ d.at = c.at /\ d.job = c.job
      BY <1>0 DEF Calls
    <3>4. Turns(p, d)
      <4> HIDE DEF d
      <4> QED
        BY <1>0, <2>3, <3>1, <3>2, <3>3, CancelledTurns DEF d
    <3> QED
      BY <3>4
  <2> QED
    BY <2>1, <2>2, <2>3, EndTurns DEF Calmly
<1>6. CASE Discard(p)
  <2>1. Calms
    BY <1>6, CalmWorld DEF Discard
  <2>2. End(p) \/ proc' = [proc EXCEPT ![p] = [c EXCEPT !.pc = "discarding", !.locks = L]]
    BY <1>6 DEF Discard, Become, Missed
  <2>3. "discarding" \notin Keen \union {"idle", "insert", "look"} /\ proc[p].pc # "stopped"
    BY <1>0 DEF Keen
  <2> HIDE DEF L
  <2> QED
    BY <2>1, <2>2, <2>3, EndTurns, LocksTurns DEF Calmly
<1>7. CASE Discarding(p)
  <2> DEFINE d == [c EXCEPT !.pc = "clean"]
  <2>1. Calms
    BY <1>0, <1>7, InterruptCalms DEF Discarding
  <2>2. (End(p) \/ proc' = [proc EXCEPT ![p] = d]) /\ c.job # "landing" /\ "clean" \in Pcs
    BY <1>0, <1>7 DEF Discarding, Become, At, Local, Pcs
  <2>3. ASSUME proc' = [proc EXCEPT ![p] = d] PROVE \E x : Turns(p, x)
    <3> HIDE DEF c, t
    <3>1. d.pc = "clean" /\ d.task = t /\ d.at = c.at /\ d.job = c.job
      BY <1>0, <2>2, <2>3, CallTo
    <3> HIDE DEF d
    <3>2. Turns(p, d)
      BY <1>0, <2>2, <2>3, <3>1, CancelledTurns
    <3> QED
      BY <3>2
  <2> QED
    BY <2>1, <2>2, <2>3, EndTurns DEF Calmly
<1>8. CASE ClearGone(p)
  <2> DEFINE d == [e EXCEPT !.locks = L, !.live = "unknown"]
  <2>1. Calms
    BY <1>8, CalmWorld DEF ClearGone
  <2>2. End(p) \/ proc' = [proc EXCEPT ![p] = d]
    BY <1>1, <1>8 DEF ClearGone, Become, Missed
  <2>3. ASSUME proc' = [proc EXCEPT ![p] = d] PROVE \E x : Turns(p, x)
    <3> HIDE DEF L, c, m, t
    <3>1. d.pc = "write" /\ d.task = t /\ d.move = m /\ d.at = c.at
      BY <1>0 DEF Calls
    <3>2. Turns(p, d)
      <4> HIDE DEF d
      <4> QED
        BY <1>0, <1>2, <2>3, <3>1, CancelledTurns DEF d
    <3> HIDE DEF d
    <3> QED
      BY <3>2
  <2> QED
    BY <2>1, <2>2, <2>3, EndTurns DEF Calmly
<1> QED
  BY <1>3, <1>4, <1>5, <1>6, <1>7, <1>8

---------------------------------------------------------------------------
(* Steps of nobody's: the worker is left alone, as far as csquad's hooks   *)
(* and messages go.                                                        *)

LEMMA WorldCalms ==
  ASSUME Typed, Undisturbed,
         \/ \E t \in Tasks : Outside(t) \/ UserMerges(t) \/ LoseSpawn(t)
         \/ \E t \in Tasks \ {Me} : TurnEnds(t) \/ PicksUp(t)
         \/ \E h \in stops : LoseStop(h)
  PROVE  Calms /\ proc' = proc
<1>0. Me \in Tasks /\ left.may["talk"] = 0
  BY MeFacts DEF Undisturbed
<1>1. ASSUME NEW t \in Tasks, Outside(t) PROVE Calms /\ proc' = proc
  <2>1. PICK s : /\ session' = [session EXCEPT ![t] = s]
                 /\ \/ session[t] \in Turning /\ s \in Turning
                    \/ session[t] = "working" /\ s \in {"failed", "stopped"}
                    \/ session[t] # "none" /\ s = "gone"
    BY <1>0, <1>1 DEF Outside, Spend, Turning
  <2>2. session'[Me] = IF t = Me THEN s ELSE session[Me]
    BY <1>0, <2>1 DEF Typed, WorldOK
  <2>3. UNCHANGED <<row, ver, proc, inbox, verdicts, stops, reply, changed>>
    BY <1>1 DEF Outside
  <2> QED
    BY <2>1, <2>2, <2>3 DEF Calms, Broken, Turning
<1>2. ASSUME NEW t \in Tasks, UserMerges(t) \/ LoseSpawn(t) PROVE Calms /\ proc' = proc
  BY <1>2 DEF UserMerges, LoseSpawn, Calms, Broken
<1>3. ASSUME NEW t \in Tasks \ {Me}, TurnEnds(t) \/ PicksUp(t) PROVE Calms /\ proc' = proc
  <2>1. session'[Me] = session[Me]
    BY <1>0, <1>3 DEF TurnEnds, PicksUp, Typed, WorldOK
  <2>2. inbox'[Me] = inbox[Me] /\ reply'[Me] = reply[Me] /\ changed'[Me] = changed[Me]
    BY <1>0, <1>3 DEF TurnEnds, PicksUp, Typed, WorldOK
  <2>3. \A h \in stops' : h.task = Me => h \in stops
    BY <1>3 DEF TurnEnds, PicksUp
  <2>4. UNCHANGED <<row, ver, proc, verdicts>>
    BY <1>3 DEF TurnEnds, PicksUp
  <2> QED
    BY <2>1, <2>2, <2>3, <2>4 DEF Calms, Broken
<1>4. ASSUME NEW h \in stops, LoseStop(h) PROVE Calms /\ proc' = proc
  BY <1>4 DEF LoseStop, Calms, Broken
<1> QED
  BY <1>1, <1>2, <1>3, <1>4

LEMMA StaysRest ==
  ASSUME AtRestInv, Typed, Calms, proc' = proc
  PROVE  AtRestInv'
<1>0. ver[Me] \in Nat /\ Me \in Tasks
  BY MeFacts DEF Typed
<1>1. (Unsent' <=> Unsent) /\ (AtEase => AtEase') /\ (Broken => Broken')
  BY DEF Unsent, AtEase, Calms
<1>2. /\ Rested(row'[Me]) <=> Rested(row[Me])
      /\ GivenUp(row'[Me]) <=> GivenUp(row[Me])
      /\ Early(row'[Me]) <=> Early(row[Me])
      /\ Asking(row'[Me]) <=> Asking(row[Me])
  BY DEF Rested, GivenUp, Early, Asking, Calms
<1>3. ASSUME Asking(row[Me]) PROVE OneMessage' /\ (Answered' => AtEase')
  <2>1. OneMessage /\ (Answered => AtEase)
    BY <1>3 DEF AtRestInv, Matches
  <2>2. Answered' => Answered
    BY DEF Calms, Answered
  <2>3. OneMessage'
    <3>1. session'[Me] # "none" /\ (inbox'[Me] => session'[Me] \notin Turning /\ Unsent')
      BY <1>1, <2>1 DEF OneMessage, Calms
    <3>2. session'[Me] \in Turning => Unsent'
      BY <1>1, <2>1 DEF OneMessage, Calms
    <3> QED
      BY <2>1, <3>1, <3>2 DEF OneMessage, Sending
  <2> QED
    BY <1>1, <2>1, <2>2, <2>3
<1>4. Matches(row[Me])'
  <2>1. Early(row[Me]) => ~inbox'[Me] /\ Unsent'
    BY <1>1 DEF AtRestInv, Matches, Calms
  <2>2. (Rested(row[Me]) => AtEase') /\ (GivenUp(row[Me]) => Broken' \/ AtEase')
    BY <1>1 DEF AtRestInv, Matches
  <2> QED
    BY <1>2, <1>3, <2>1, <2>2 DEF Matches
<1>5. Dated'
  <2>1. ASSUME NEW v \in verdicts', v.task = Me PROVE v.for <= ver'[Me]
    BY <2>1 DEF Calms, AtRestInv, Dated
  <2>2. ASSUME NEW h \in stops', h.task = Me PROVE h.ver <= ver'[Me]
    BY <2>2 DEF Calms, AtRestInv, Dated
  <2>3. (row'[Me].phase # "absent" => ver'[Me] >= 1) /\ reply'[Me] <= ver'[Me]
    BY DEF Calms, AtRestInv, Dated
  <2> QED
    BY <2>1, <2>2, <2>3 DEF Calms, AtRestInv, Dated
<1>6. row'[Me].phase = "checking" => \A v \in verdicts' : v.task = Me /\ v.for = ver'[Me] => ~changed'[Me]
  BY DEF Calms, AtRestInv
<1>7. ASSUME NEW q \in Procs, Fresh(proc[q])' PROVE Sure(proc'[q], AtEase', Broken', ~changed'[Me])
  <2>1. Fresh(proc[q])
    BY <1>7 DEF Fresh, OnMe, Calms
  <2>2. Sure(proc[q], AtEase, Broken, ~changed[Me])
    BY <2>1 DEF AtRestInv
  <2>3. ~changed[Me] => ~changed'[Me]
    BY DEF Calms
  <2> QED
    BY <1>1, <2>2, <2>3 DEF Sure, Suited
<1> QED
  BY <1>4, <1>5, <1>6, <1>7 DEF AtRestInv, Sure, Suited

LEMMA CheckBegins ==
  ASSUME Typed, NEW p \in Procs, NEW t \in Tasks, Check(p, t)
  PROVE  Calms /\ (proc' = proc \/ \E d : Turns(p, d))
<1>1. Calms
  BY DEF Check, Calms, Broken
<1>2. proc' = proc \/ proc' = [proc EXCEPT ![p] = ReadNow(t, "checkLock", "check")]
  BY DEF Check, Become, ReadNow
<1>3. ASSUME proc' = [proc EXCEPT ![p] = ReadNow(t, "checkLock", "check")] PROVE \E d : Turns(p, d)
  <2> DEFINE x == "checkLock"
             j == "check"
  <2>1. x \in Pcs /\ x \notin Keen \union {"idle", "insert"} /\ j \in Jobs /\ proc' = [proc EXCEPT ![p] = ReadNow(t, x, j)]
    BY <1>3 DEF Pcs, Jobs, Keen
  <2> HIDE DEF x, j
  <2> QED
    BY <2>1, ReadsTurns
<1> QED
  BY <1>1, <1>2, <1>3

---------------------------------------------------------------------------
(* A message goes, is taken, and is answered.                              *)

(* While the worker does not rest, nothing is known of it but that it is   *)
(* broken.                                                                 *)
LEMMA RestlessSure ==
  ASSUME IInv, AtRestInv, ~AtEase, NEW q \in Procs, Fresh(proc[q]), NEW e, NEW b, Broken => b, NEW s
  PROVE  Sure(proc[q], e, b, s)
<1> DEFINE d == proc[q]
<1>1. d.seen.phase = row[Me].phase /\ Sure(d, AtEase, Broken, ~changed[Me])
  BY FreshFacts
<1>2. row[Me].phase # "checking"
  BY DEF AtRestInv, Matches, Rested
<1>3. d.pc \notin {"checkRun", "checkApply"}
  BY <1>1, <1>2 DEF Fresh, IInv, Good, Placed
<1> HIDE DEF d
<1>4. /\ d.pc = "decide" /\ d.live \in {"failed", "gone"} => Broken
      /\ ~(d.pc = "decide" /\ d.live \in {"idle", "done"} /\ d.seen.phase = "running")
      /\ d.pc = "decide" /\ d.live = "working" => ~Rested(d.seen) /\ ~GivenUp(d.seen)
      /\ d.pc \notin {"land", "landing"} /\ ~(d.pc = "clean" /\ d.job = "landing")
  BY <1>1 DEF Sure
<1>5. ASSUME d.pc = "write" PROVE Suited(d.seen, d.move.next, e, b, s)
  <2> DEFINE r == d.seen
             n == d.move.next
  <2>1. Suited(r, n, AtEase, Broken, ~changed[Me])
    BY <1>1, <1>5 DEF Sure
  <2>2. r.phase # "checking"
    BY <1>1, <1>2
  <2> HIDE DEF r, n
  <2>3. ~Rested(n) /\ ~Asking(n) /\ (GivenUp(n) => Broken) /\ (Early(n) => Early(r))
    BY <2>1 DEF Suited
  <2>4. Suited(r, n, e, b, s)
    BY <2>2, <2>3 DEF Suited
  <2> QED
    BY <2>4 DEF r, n
<1> QED
  BY <1>3, <1>4, <1>5 DEF Sure, d

LEMMA SendsRest ==
  ASSUME Typed, IInv, AtRestInv, NEW p \in Procs, Send(p)
  PROVE  AtRestInv'
<1> DEFINE c == proc[p]
           t == c.task
<1>0. c.pc = "send" /\ t \in Tasks /\ Me \in Tasks /\ ver[Me] \in Nat
  BY MeFacts DEF Send, At, Typed, Local
<1>1. CASE inbox' = inbox
  BY <1>1, SendCalm, TurnsRest DEF Calmly
<1>2. CASE inbox' # inbox
  <2>1. /\ session[t] \notin {"none", "gone"} /\ inbox' = [inbox EXCEPT ![t] = TRUE] /\ End(p)
        /\ UNCHANGED <<row, ver, session, work, verdicts, spawned, stops, reply, changed>>
    BY <1>2 DEF Send
  <2>2. CASE t # Me
    <3>1. inbox'[Me] = inbox[Me]
      BY <1>0, <2>1, <2>2 DEF Typed, WorldOK
    <3>2. Calms
      BY <2>1, <3>1 DEF Calms, Broken
    <3> QED
      BY <2>1, <3>2, EndTurns, TurnsRest
  <2>3. CASE t = Me
    <3>1. Sending(c)
      BY <1>0, <2>3 DEF Sending
    <3>2. ~Unsent /\ ~AtEase
      BY <3>1 DEF Unsent, AtEase
    <3>3. \A q \in Procs : proc'[q] = IF q = p THEN Idle ELSE proc[q]
      BY <2>1 DEF End, Become, Typed
    <3>4. Idle.pc = "idle" /\ Idle.task = 0 /\ Idle.at = 0 /\ Me # 0
      BY IdleFacts, MeFacts
    <3>5. Matches(row[Me])'
      <4>1. ~Rested(row[Me]) /\ ~Early(row[Me]) /\ (GivenUp(row[Me]) => Broken)
        BY <3>2 DEF AtRestInv, Matches
      <4>2. ASSUME Asking(row[Me]) PROVE OneMessage' /\ ~Answered'
        <5>1. OneMessage /\ ~Answered
          BY <3>2, <4>2 DEF AtRestInv, Matches
        <5>2. \A q \in Procs \ {p} : ~Sending(proc[q])
          BY <3>1, <5>1 DEF OneMessage
        <5>3. Unsent'
          BY <3>3, <3>4, <5>2 DEF Unsent, Sending
        <5>4. session[Me] \notin Turning /\ session[Me] # "none"
          BY <3>2, <5>1 DEF OneMessage
        <5>5. OneMessage'
          BY <2>1, <5>3, <5>4 DEF OneMessage, Unsent
        <5>6. ~Answered'
          BY <2>1, <3>3, <3>4, <5>1 DEF Answered
        <5> QED
          BY <5>5, <5>6
      <4>3. row' = row /\ (Broken' <=> Broken)
        BY <2>1 DEF Broken
      <4> QED
        BY <4>1, <4>2, <4>3 DEF Matches
    <3>6. Dated'
      BY <2>1, <3>3, <3>4 DEF AtRestInv, Dated
    <3>7. row'[Me].phase = "checking" => \A v \in verdicts' : v.task = Me /\ v.for = ver'[Me] => ~changed'[Me]
      BY <2>1 DEF AtRestInv
    <3>8. \A q \in Procs : proc'[q].pc = "look" => proc'[q].live = "unknown"
      BY <3>3, <3>4 DEF AtRestInv
    <3>9. ASSUME NEW q \in Procs, Fresh(proc[q])' PROVE Sure(proc'[q], AtEase', Broken', ~changed'[Me])
      <4>1. q # p /\ proc'[q] = proc[q] /\ Fresh(proc[q])
        BY <2>1, <3>3, <3>4, <3>9 DEF Fresh, OnMe
      <4>2. Broken => Broken'
        BY <2>1 DEF Broken
      <4> QED
        BY <3>2, <4>1, <4>2, RestlessSure
    <3> QED
      BY <3>5, <3>6, <3>7, <3>8, <3>9 DEF AtRestInv, Sure, Suited
  <2> QED
    BY <2>2, <2>3
<1> QED
  BY <1>1, <1>2

LEMMA PicksUpRest ==
  ASSUME Typed, IInv, AtRestInv, PicksUp(Me)
  PROVE  AtRestInv'
<1>0. Me \in Tasks /\ ver[Me] \in Nat
  BY MeFacts DEF Typed
<1>1. /\ inbox[Me] /\ session[Me] \in {"idle", "working", "needs_input", "stopped"}
      /\ session'[Me] = "working" /\ ~inbox'[Me]
      /\ UNCHANGED <<row, ver, proc, work, verdicts, spawned, stops, reply, changed, left>>
  BY <1>0 DEF PicksUp, Typed, WorldOK
<1>2. ~AtEase /\ ~Broken
  BY <1>1 DEF AtEase, Broken
<1>3. ~Rested(row[Me]) /\ ~Early(row[Me]) /\ ~GivenUp(row[Me])
  BY <1>1, <1>2 DEF AtRestInv, Matches
<1>4. ASSUME Asking(row[Me]) PROVE OneMessage' /\ ~Answered'
  <2>1. OneMessage /\ ~Answered /\ Unsent
    BY <1>1, <1>2, <1>4 DEF AtRestInv, Matches, OneMessage
  <2> QED
    BY <1>1, <2>1 DEF OneMessage, Answered, Unsent, Turning
<1>5. Matches(row[Me])'
  BY <1>1, <1>3, <1>4 DEF Matches
<1>6. ASSUME NEW q \in Procs, Fresh(proc[q])' PROVE Sure(proc'[q], AtEase', Broken', ~changed'[Me])
  <2>1. proc'[q] = proc[q] /\ Fresh(proc[q])
    BY <1>1, <1>6 DEF Fresh, OnMe
  <2> QED
    BY <1>2, <2>1, RestlessSure
<1>7. Dated'
  BY <1>1 DEF AtRestInv, Dated
<1> QED
  BY <1>1, <1>5, <1>6, <1>7 DEF AtRestInv, Sure, Suited

LEMMA TurnEndsRest ==
  ASSUME Typed, IInv, AtRestInv, TurnEnds(Me)
  PROVE  AtRestInv'
<1>0. Me \in Tasks /\ ver[Me] \in Nat
  BY MeFacts DEF Typed
<1>1. /\ session[Me] = "working" /\ session'[Me] = "idle" /\ reply'[Me] = ver[Me]
      /\ stops' = stops \union {[task |-> Me, ver |-> ver[Me]]}
      /\ UNCHANGED <<row, ver, proc, inbox, verdicts, spawned, left>>
  BY <1>0 DEF TurnEnds, Typed, WorldOK
<1>2. ~AtEase /\ ~Broken
  BY <1>1 DEF AtEase, Broken, Turning
<1>3. ~Rested(row[Me]) /\ ~GivenUp(row[Me])
  BY <1>1, <1>2 DEF AtRestInv, Matches
<1>4. ASSUME Asking(row[Me]) PROVE OneMessage' /\ AtEase'
  <2>1. OneMessage /\ Unsent /\ ~inbox[Me]
    BY <1>1, <1>4 DEF AtRestInv, Matches, OneMessage, Turning
  <2> QED
    BY <1>1, <2>1 DEF OneMessage, AtEase, Unsent, Turning
<1>5. Matches(row[Me])'
  <2>1. Early(row[Me]) => ~inbox[Me] /\ Unsent
    BY DEF AtRestInv, Matches
  <2>2. Unsent' <=> Unsent
    BY <1>1 DEF Unsent
  <2> QED
    BY <1>1, <1>3, <1>4, <2>1, <2>2 DEF Matches
<1>6. ASSUME NEW q \in Procs, Fresh(proc[q])' PROVE Sure(proc'[q], AtEase', Broken', ~changed'[Me])
  <2>1. proc'[q] = proc[q] /\ Fresh(proc[q])
    BY <1>1, <1>6 DEF Fresh, OnMe
  <2> QED
    BY <1>2, <2>1, RestlessSure
<1>7. Dated'
  BY <1>0, <1>1 DEF AtRestInv, Dated
<1>8. row'[Me].phase # "checking"
  BY <1>1, <1>3 DEF Rested
<1> QED
  BY <1>1, <1>5, <1>6, <1>7, <1>8 DEF AtRestInv, Sure, Suited

---------------------------------------------------------------------------
(* The row moves on.                                                       *)

(* What is written over the row as it is.                                  *)
LEMMA WinFacts ==
  ASSUME Typed, IInv, NEW p \in Procs, Write(p), Wins(p), proc[p].task = Me
  PROVE  /\ Fresh(proc[p]) /\ proc[p].pc = "write"
         /\ row'[Me].phase = proc[p].move.next.phase /\ row'[Me].step = proc[p].move.next.step
         /\ row'[Me].phase # "absent" /\ ver'[Me] = ver[Me] + 1
         /\ Suits(proc[p].move.effect, row'[Me])
         /\ proc[p].move.effect = "land" => row'[Me].phase = "merging"
<1> DEFINE d == proc[p]
           m == d.move
           s == d.seen
           r == row[Me]
           u == Stored(r, m.next)
           n == IF m.next.phase # r.phase \/ m.next.step # r.step THEN ver[Me] + 1 ELSE ver[Me]
<1>0. Me \in Tasks /\ Local(d) /\ r \in Rows(Tasks)
  BY MeFacts DEF Typed
<1>1. d.pc = "write" /\ d.pc # "stopped"
  BY DEF Write, At
<1>2. /\ s \in Rows(Tasks) /\ s.phase # "absent" /\ Legal(s, m) /\ d.ver = ver[Me]
      /\ r.phase = s.phase /\ r.hold = s.hold
  BY <1>1, Mine DEF Placed, Sees, Wins, Same
<1>3. Alike(s, r)
  BY <1>1, <1>2, Mine
<1>4. r.step = s.step
  BY <1>0, <1>2, <1>3, AlikeIs
<1>5. row'[Me] = u /\ ver'[Me] = n
  <2>1. row' = [row EXCEPT ![Me] = u] /\ ver' = [ver EXCEPT ![Me] = n]
    BY DEF Write, Transition, Stored
  <2> HIDE DEF u, n
  <2> QED
    BY <1>0, <2>1 DEF Typed
<1>6. /\ RowShape(m.next) /\ m.next # s /\ m.next.phase # "absent"
      /\ Suits(m.effect, m.next)
      /\ m.next.phase # s.phase \/ m.next.step # s.step
      /\ m.next.after = s.after
  BY <1>2 DEF Legal, Fit
<1>7. u.phase = m.next.phase /\ u.step = m.next.step /\ u.after = m.next.after
  BY <1>6 DEF Stored, RowShape
<1>8. n = ver[Me] + 1
  BY <1>2, <1>4, <1>6
<1>9. Fresh(d)
  BY <1>1, <1>2 DEF Fresh, OnMe
<1>10. m.effect = "land" => m.next.phase = "merging"
  BY <1>0, <1>1 DEF Local, Sound
<1> HIDE DEF u, n
<1> QED
  BY <1>1, <1>5, <1>6, <1>7, <1>8, <1>9, <1>10 DEF Suits

(* What the writer comes to.                                               *)
LEMMA WriterFacts ==
  ASSUME Typed, NEW p \in Procs, Write(p), Wins(p)
  PROVE  \E e : /\ proc' = [proc EXCEPT ![p] = e]
                /\ \/ e = Idle
                   \/ /\ e.pc = proc[p].move.effect /\ e.pc \in {"start", "check", "send", "land"}
                      /\ e.task = proc[p].task /\ e.at = proc[p].at
<1> DEFINE c == proc[p]
           t == c.task
           m == c.move
           x == m.effect
           r == row'[t]
           v == ver'[t]
           k == Idle.move
           d == [c EXCEPT !.pc = x, !.seen = r, !.ver = v, !.move = k]
<1>0. c \in Calls /\ x \in Effects
  BY DEF Typed, Local, Write, At, Sound, Moves
<1>1. x = "none" => proc' = [proc EXCEPT ![p] = Idle]
  BY DEF Write, End, Become
<1>2. x # "none" => proc' = [proc EXCEPT ![p] = d]
  BY DEF Write, Become
<1> HIDE DEF r, v, k, t, c, x
<1>3. d.pc = x /\ d.task = t /\ d.at = c.at
  BY <1>0 DEF Calls, t
<1> HIDE DEF d
<1>4. x = "none" \/ x \in {"start", "check", "send", "land"}
  BY <1>0 DEF Effects
<1> QED
  BY <1>1, <1>2, <1>3, <1>4 DEF x, c, t

LEMMA WriteRest ==
  ASSUME Typed, IInv, AtRestInv, NEW p \in Procs, Write(p)
  PROVE  AtRestInv'
<1> DEFINE c == proc[p]
           t == c.task
           n == c.move.next
<1>0. Me \in Tasks /\ ver[Me] \in Nat /\ c.pc = "write" /\ UNCHANGED <<left, world>>
  BY MeFacts DEF Typed, Write, At
<1>i. Idle.pc = "idle" /\ Idle.task = 0 /\ Idle.at = 0 /\ Me # 0
  BY IdleFacts, MeFacts
<1>1. CASE ~Wins(p)
  <2>1. End(p) /\ UNCHANGED <<row, ver>>
    BY <1>1 DEF Write
  <2> QED
    BY <1>0, <2>1, CalmWorld, EndTurns, TurnsRest
<1>2. CASE Wins(p)
  <2>1. PICK e : /\ proc' = [proc EXCEPT ![p] = e]
                 /\ \/ e = Idle
                    \/ /\ e.pc = c.move.effect /\ e.pc \in {"start", "check", "send", "land"}
                       /\ e.task = t /\ e.at = c.at
    BY <1>2, WriterFacts
  <2>2. \A q \in Procs : proc'[q] = IF q = p THEN e ELSE proc[q]
    BY <2>1 DEF Typed
  <2>3. CASE t # Me
    <3>1. row'[Me] = row[Me] /\ ver'[Me] = ver[Me]
      BY <1>0, <1>2, <2>3 DEF Write, Transition, Typed
    <3>2. Calms
      BY <1>0, <3>1 DEF Calms, world, Broken
    <3>3. Turns(p, e)
      BY <1>i, <2>1, <2>3 DEF Turns, Sending, Fresh, OnMe
    <3> QED
      BY <3>2, <3>3, TurnsRest
  <2>4. CASE t = Me
    <3>1. /\ Fresh(c) /\ row'[Me].phase = n.phase /\ row'[Me].step = n.step
          /\ row'[Me].phase # "absent" /\ ver'[Me] = ver[Me] + 1
          /\ Suits(c.move.effect, row'[Me])
          /\ c.move.effect = "land" => row'[Me].phase = "merging"
      BY <1>2, <2>4, WinFacts
    <3>2. Suited(c.seen, n, AtEase, Broken, ~changed[Me])
      BY <1>0, <3>1 DEF AtRestInv, Sure
    <3>3. c.seen.phase = row[Me].phase /\ c.seen.step = row[Me].step
      BY <3>1, FreshFacts
    <3>4. /\ Rested(row'[Me]) \/ Asking(row'[Me]) => AtEase
          /\ GivenUp(row'[Me]) => Broken \/ AtEase
          /\ Early(row'[Me]) => Early(row[Me])
      BY <3>1, <3>2, <3>3 DEF Suited, Rested, GivenUp, Asking, Early
    <3>5. UNCHANGED <<session, inbox, verdicts, stops, reply, changed>>
      BY <1>0 DEF world
    <3>6. \A q \in Procs : ~Sending(c) /\ (q # p => (Sending(proc'[q]) <=> Sending(proc[q])))
      BY <1>0, <2>2 DEF Sending
    <3>7. Sending(e) => Asking(row'[Me])
      BY <1>i, <2>1, <3>1 DEF Sending, Suits, Asking
    <3>8. ~Sending(e) => (Unsent' <=> Unsent) /\ (AtEase' <=> AtEase)
      BY <2>2, <3>5, <3>6 DEF Unsent, AtEase
    <3>9. Broken' <=> Broken
      BY <3>5 DEF Broken
    <3>10. ~Answered'
      <4>1. \A q \in Procs : proc'[q].task = Me => proc'[q].at <= ver[Me]
        BY <1>i, <2>1, <2>2, <2>4 DEF AtRestInv, Dated
      <4>2. \A q \in Procs : proc'[q].task = Me => ~(proc'[q].at >= ver'[Me])
        <5> TAKE q \in Procs
        <5> HAVE proc'[q].task = Me
        <5>1. proc'[q].at \in Nat
          <6>1. e = Idle => e.at = 0
            BY <1>i
          <6>2. c.at \in Nat /\ proc[q].at \in Nat
            BY DEF Typed, Local, Calls
          <6> QED
            BY <2>1, <2>2, <6>1, <6>2
        <5>2. proc'[q].at <= ver[Me]
          BY <4>1
        <5> QED
          BY <1>0, <3>1, <5>1, <5>2
      <4>3. ~(reply'[Me] >= ver'[Me])
        BY <1>0, <3>1, <3>5 DEF AtRestInv, Dated, Typed, WorldOK
      <4>4. \A h \in stops' : h.task = Me => ~(h.ver >= ver'[Me])
        BY <1>0, <3>1, <3>5 DEF AtRestInv, Dated, Typed, WorldOK
      <4> QED
        BY <4>2, <4>3, <4>4 DEF Answered
    <3>11. Asking(row'[Me]) => OneMessage'
      <4> HAVE Asking(row'[Me])
      <4>1. AtEase
        BY <3>4
      <4>2. session'[Me] \notin Turning \union {"none"} /\ ~inbox'[Me]
        BY <3>5, <4>1 DEF AtEase
      <4>3. \A q \in Procs : Sending(proc'[q]) => q = p
        BY <3>6, <4>1 DEF AtEase, Unsent
      <4> QED
        BY <4>2, <4>3 DEF OneMessage, Sending
    <3>12. Matches(row[Me])'
      <4>1. Rested(row'[Me]) \/ GivenUp(row'[Me]) \/ Early(row'[Me]) => ~Asking(row'[Me])
        BY DEF Rested, GivenUp, Early, Asking
      <4>2. Early(row[Me]) => ~inbox[Me] /\ Unsent
        BY DEF AtRestInv, Matches
      <4> QED
        BY <3>4, <3>5, <3>7, <3>8, <3>9, <3>10, <3>11, <4>1, <4>2 DEF Matches
    <3>13. Dated'
      <4>1. ver'[Me] >= 1 /\ ver[Me] <= ver'[Me]
        BY <1>0, <3>1
      <4>2. \A q \in Procs : proc'[q].task = Me => proc'[q].at <= ver'[Me]
        <5> TAKE q \in Procs
        <5> HAVE proc'[q].task = Me
        <5>1. q # p \/ e # Idle
          BY <1>i, <2>2
        <5>2. proc[q].task = Me /\ proc'[q].at = proc[q].at
          BY <2>1, <2>2, <2>4, <5>1
        <5>3. proc[q].at <= ver[Me] /\ proc[q].at \in Nat
          BY <5>2 DEF AtRestInv, Dated, Typed, Local, Calls
        <5> QED
          BY <1>0, <3>1, <5>2, <5>3
      <4>3. \A q \in Procs : proc'[q].pc \in {"idle", "insert"} => proc'[q].at = 0
        BY <1>i, <2>1, <2>2 DEF AtRestInv, Dated
      <4>4. reply'[Me] <= ver'[Me]
        BY <1>0, <3>1, <3>5 DEF AtRestInv, Dated, Typed, WorldOK
      <4>5. \A h \in stops' : h.task = Me => h.ver <= ver'[Me]
        BY <1>0, <3>1, <3>5 DEF AtRestInv, Dated, Typed, WorldOK
      <4>6. \A v \in verdicts' : v.task = Me => v.for <= ver'[Me]
        BY <1>0, <3>1, <3>5 DEF AtRestInv, Dated, Typed, WorldOK, VerdictFiles
      <4> QED
        BY <4>1, <4>2, <4>3, <4>4, <4>5, <4>6 DEF Dated
    <3>14. \A v \in verdicts' : v.task = Me => v.for # ver'[Me]
      BY <1>0, <3>1, <3>5 DEF AtRestInv, Dated, Typed, WorldOK, VerdictFiles
    <3>15. \A q \in Procs : proc'[q].pc = "look" => proc'[q].live = "unknown"
      BY <1>i, <2>1, <2>2 DEF AtRestInv
    <3>16. ASSUME NEW q \in Procs, Fresh(proc[q])' PROVE Sure(proc'[q], AtEase', Broken', ~changed'[Me])
      <4>1. proc'[q].ver = ver'[Me] /\ proc'[q].task = Me /\ proc'[q].pc # "stopped"
        BY <3>16 DEF Fresh, OnMe
      <4>2. q = p
        <5> SUFFICES ASSUME q # p PROVE FALSE
          OBVIOUS
        <5>1. proc[q].ver \in Nat /\ proc[q].ver <= ver[Me]
          BY <2>2, <4>1, Mine
        <5> QED
          BY <1>0, <2>2, <3>1, <4>1, <5>1
      <4>3. e # Idle /\ proc'[q] = e
        BY <1>i, <2>2, <4>1, <4>2
      <4>4. e.pc = "land" => AtEase'
        <5> HAVE e.pc = "land"
        <5>1. row'[Me].phase = "merging" /\ ~Sending(e)
          BY <2>1, <3>1, <4>3 DEF Sending
        <5>2. Rested(row'[Me]) \/ Asking(row'[Me])
          BY <5>1 DEF Rested, Asking
        <5> QED
          BY <3>4, <3>8, <5>1, <5>2
      <4> QED
        BY <2>1, <4>3, <4>4 DEF Sure
    <3> QED
      BY <3>12, <3>13, <3>14, <3>15, <3>16 DEF AtRestInv, Sure, Suited
  <2> QED
    BY <2>3, <2>4
<1> QED
  BY <1>1, <1>2
LEMMA InsertRest ==
  ASSUME Typed, IInv, AtRestInv, NEW p \in Procs, Insert(p)
  PROVE  AtRestInv'
<1> DEFINE c == proc[p]
           ready == \A x \in c.seen.after : row[x].phase = "done"
           new == [c.seen EXCEPT !.phase = IF ready THEN "running" ELSE "waiting"]
           pc == IF ready THEN "launchLock" ELSE "queue"
<1>1. PICK t \in Tasks :
        /\ IsNextId(t)
        /\ row' = [row EXCEPT ![t] = new]
        /\ ver' = [ver EXCEPT ![t] = @ + 1]
        /\ Become(p, [[c EXCEPT !.task = t, !.seen = new, !.ver = ver[t] + 1] EXCEPT !.pc = pc])
  BY DEF Insert
<1> DEFINE v == ver[t] + 1
           e == [[c EXCEPT !.task = t, !.seen = new, !.ver = v] EXCEPT !.pc = pc]
<1>0. /\ Me \in Tasks /\ ver[Me] \in Nat /\ c.pc = "insert" /\ c \in Calls /\ c.at = 0
      /\ UNCHANGED <<left, world>> /\ c.seen \in Rows(Tasks) /\ c.seen.step = ""
  BY MeFacts, CallFacts DEF Typed, Local, Insert, At, AtRestInv, Dated
<1>n. ver[Me] \in Nat /\ Me \in Tasks
  BY MeFacts DEF Typed
<1>2. pc \in {"launchLock", "queue"}
  OBVIOUS
<1>3. (new.phase = "running" \/ new.phase = "waiting")
  <2> DEFINE x == IF ready THEN "running" ELSE "waiting"
  <2>1. x \in {"running", "waiting"}
    OBVIOUS
  <2> HIDE DEF x
  <2>2. [c.seen EXCEPT !.phase = x].phase = x
    BY <1>0 DEF Rows
  <2> QED
    BY <2>1, <2>2 DEF x
<1>4. proc' = [proc EXCEPT ![p] = e]
  BY <1>1 DEF Become
<1> HIDE DEF pc, new, v
<1>5. e.pc = pc /\ e.task = t /\ e.at = 0 /\ e.ver = v
  <2> HIDE DEF c
  <2> QED
    BY <1>0 DEF Calls
<1> HIDE DEF e
<1>6. \A q \in Procs : proc'[q] = IF q = p THEN e ELSE proc[q]
  BY <1>4 DEF Typed
<1>7. e.pc \notin Keen /\ e.pc \notin {"idle", "insert", "look"}
  BY <1>2, <1>5 DEF Keen
<1>8. CASE t # Me
  <2>1. row'[Me] = row[Me] /\ ver'[Me] = ver[Me]
    BY <1>0, <1>1, <1>8 DEF Typed
  <2>2. Calms
    BY <1>0, <2>1 DEF Calms, world, Broken
  <2>3. Turns(p, e)
    BY <1>4, <1>5, <1>7, <1>8 DEF Turns, Sending, Fresh, OnMe
  <2> QED
    BY <2>2, <2>3, TurnsRest
<1>9. CASE t = Me
  <2>1. row'[Me] = new /\ ver'[Me] = ver[Me] + 1
    BY <1>0, <1>1, <1>9 DEF Typed
  <2>2. row[Me].phase = "absent"
    <3>1. row[Me].phase # "absent" => Me < Me
      BY <1>0, <1>1, <1>9 DEF IsNextId
    <3>2. Me \in Nat
      BY MeFacts, TasksAssumption
    <3> QED
      BY <3>1, <3>2
  <2>3. UNCHANGED <<session, inbox, verdicts, stops, reply, changed>>
    BY <1>0 DEF world
  <2>4. ~inbox[Me] /\ Unsent
    BY <2>2 DEF AtRestInv, Matches, Early
  <2>5. Unsent'
    BY <1>6, <1>7, <2>4 DEF Unsent, Sending, Keen
  <2>6. Matches(row[Me])'
    BY <1>3, <2>1, <2>3, <2>4, <2>5 DEF Matches, Rested, GivenUp, Asking, Early
  <2>7. Dated'
    <3>1. ver'[Me] >= 1 /\ ver[Me] <= ver'[Me]
      BY <1>n, <2>1
    <3>2. \A q \in Procs : proc'[q].task = Me => proc'[q].at <= ver'[Me]
      <4> TAKE q \in Procs
      <4> HAVE proc'[q].task = Me
      <4>1. CASE q = p
        BY <1>n, <1>5, <1>6, <2>1, <4>1
      <4>2. CASE q # p
        <5>1. proc[q].task = Me /\ proc'[q].at = proc[q].at
          BY <1>6, <4>2
        <5>2. proc[q].at <= ver[Me] /\ proc[q].at \in Nat
          BY <5>1 DEF AtRestInv, Dated, Typed, Local, Calls
        <5> QED
          BY <1>n, <2>1, <5>1, <5>2
      <4> QED
        BY <4>1, <4>2
    <3>3. \A q \in Procs : proc'[q].pc \in {"idle", "insert"} => proc'[q].at = 0
      BY <1>6, <1>7 DEF AtRestInv, Dated
    <3>4. reply'[Me] <= ver'[Me]
      BY <1>n, <2>1, <2>3 DEF AtRestInv, Dated, Typed, WorldOK
    <3>5. \A h \in stops' : h.task = Me => h.ver <= ver'[Me]
      BY <1>n, <2>1, <2>3 DEF AtRestInv, Dated, Typed, WorldOK
    <3>6. \A h \in verdicts' : h.task = Me => h.for <= ver'[Me]
      BY <1>n, <2>1, <2>3 DEF AtRestInv, Dated, Typed, WorldOK, VerdictFiles
    <3> QED
      BY <3>1, <3>2, <3>3, <3>4, <3>5, <3>6 DEF Dated
  <2>8. row'[Me].phase # "checking"
    BY <1>3, <2>1
  <2>9. \A q \in Procs : proc'[q].pc = "look" => proc'[q].live = "unknown"
    BY <1>6, <1>7 DEF AtRestInv
  <2>10. ASSUME NEW q \in Procs, Fresh(proc[q])' PROVE Sure(proc'[q], AtEase', Broken', ~changed'[Me])
    <3>1. proc'[q].ver = ver'[Me] /\ proc'[q].task = Me /\ proc'[q].pc # "stopped"
      BY <2>10 DEF Fresh, OnMe
    <3>2. q = p
      <4> SUFFICES ASSUME q # p PROVE FALSE
        OBVIOUS
      <4>1. proc[q].ver \in Nat /\ proc[q].ver <= ver[Me]
        BY <1>6, <3>1, Mine
      <4> QED
        BY <1>n, <1>6, <2>1, <3>1, <4>1
    <3>3. proc'[q] = e
      BY <1>6, <3>2
    <3>4. Sure(e, AtEase', Broken', ~changed'[Me])
      BY <1>7 DEF Sure, Keen
    <3> QED
      BY <3>3, <3>4
  <2> QED
    BY <2>6, <2>7, <2>8, <2>9, <2>10 DEF AtRestInv, Sure, Suited
<1> QED
  BY <1>8, <1>9

LEMMA InitRest == Init => AtRestInv
<1> HAVE Init
<1>1. /\ row[Me].phase = "absent" /\ ver[Me] = 0 /\ session[Me] = "none" /\ ~inbox[Me]
      /\ stops = {} /\ verdicts = {} /\ reply[Me] = 0
  BY MeFacts DEF Init, NoRow
<1>2. \A q \in Procs : proc[q] = Idle
  BY DEF Init
<1>3. Idle.pc = "idle" /\ Idle.task = 0 /\ Idle.at = 0 /\ Me # 0
  BY IdleFacts, MeFacts
<1>4. Matches(row[Me])
  BY <1>1, <1>2, <1>3 DEF Matches, Rested, GivenUp, Asking, Early, Unsent, Sending
<1>5. Dated
  BY <1>1, <1>2, <1>3 DEF Dated
<1>6. \A q \in Procs : ~Fresh(proc[q])
  BY <1>2, <1>3 DEF Fresh, OnMe
<1> QED
  BY <1>1, <1>2, <1>3, <1>4, <1>5, <1>6 DEF AtRestInv

---------------------------------------------------------------------------
(* Every step.                                                             *)

(* What the argument stands on.                                            *)
Standing == Ordered /\ Single /\ (\A p \in Procs : Guarded(proc[p])) /\ IInv /\ AtRestInv

LEMMA NextRest ==
  ASSUME Standing, NoneWithdrawn, NoneRequeued, Undisturbed, [Next]_vars
  PROVE  AtRestInv'
<1>0. Typed /\ IInv /\ AtRestInv /\ Single /\ \A p \in Procs : Guarded(proc[p])
  BY DEF Standing, Ordered
<1>1. ASSUME NEW p \in Procs, Calmly(p) PROVE AtRestInv'
  BY <1>0, <1>1, TurnsRest DEF Calmly
<1>2. ASSUME NEW p \in Procs, Pass(p) PROVE AtRestInv'
  BY <1>0, <1>1, <1>2, ListCalm, StoppedLateCalm, LookCalm, DecideCalm, WriteRest DEF Pass
<1>3. ASSUME NEW p \in Procs, Effect(p) PROVE AtRestInv'
  BY <1>0, <1>1, <1>3, SpawnCheckCalm, SendsRest, StartCalm, LandCalm, LandingCalm, RemoveCalm DEF Effect
<1>4. ASSUME NEW p \in Procs, Checker(p) PROVE AtRestInv'
  BY <1>0, <1>1, <1>4, CheckCalm DEF Checker
<1>5. ASSUME NEW p \in Procs, User(p) PROVE AtRestInv'
  <2>1. CASE (\E a \in left.launches : Parse(p, a)) \/ Queue(p) \/ LaunchLock(p)
    BY <1>0, <1>1, <2>1, LaunchCalm
  <2>2. CASE Insert(p)
    BY <1>0, <2>2, InsertRest
  <2>3. CASE LaunchStart(p)
    BY <1>0, <1>1, <2>3, StartCalm
  <2>4. CASE Delete(p)
    BY <2>4 DEF Delete, At, NoneWithdrawn
  <2>5. CASE \/ \E t \in Tasks, kind \in Commands : Command(p, t, kind)
             \/ Retry(p) \/ SetHold(p) \/ Finish(p) \/ Finishing(p)
    BY <1>0, <1>1, <2>5, CommandCalm
  <2>6. CASE Cancel(p) \/ CancelStop(p) \/ Cancelling(p) \/ Discard(p) \/ Discarding(p) \/ ClearGone(p)
    BY <1>0, <1>1, <2>6, CancelCalm
  <2> QED
    BY <1>5, <2>1, <2>2, <2>3, <2>4, <2>5, <2>6 DEF User, Commands
<1>6. ASSUME NEW p \in Procs, Crash(p) PROVE AtRestInv'
  BY <1>1, <1>6, StoppedLateCalm
<1>7. ASSUME NEW p \in Procs, NEW t \in Tasks, Stopped(p, t) PROVE AtRestInv'
  BY <1>0, <1>1, <1>7, StoppedCalm
<1>8. ASSUME NEW p \in Procs, NEW t \in Tasks, Check(p, t) PROVE AtRestInv'
  <2>1. Calms /\ (proc' = proc \/ \E d : Turns(p, d))
    BY <1>0, <1>8, CheckBegins
  <2> QED
    BY <1>0, <2>1, StaysRest, TurnsRest
<1>9. CASE World
  <2>1. CASE TurnEnds(Me)
    BY <1>0, <2>1, TurnEndsRest
  <2>2. CASE PicksUp(Me)
    BY <1>0, <2>2, PicksUpRest
  <2>3. CASE \/ \E t \in Tasks : Outside(t) \/ UserMerges(t) \/ LoseSpawn(t)
             \/ \E t \in Tasks \ {Me} : TurnEnds(t) \/ PicksUp(t)
             \/ \E h \in stops : LoseStop(h)
    <3>1. Calms /\ proc' = proc
      BY <1>0, <2>3, WorldCalms
    <3> QED
      BY <1>0, <3>1, StaysRest
  <2> QED
    BY <1>9, <2>1, <2>2, <2>3 DEF World
<1>10. CASE UNCHANGED vars
  <2>1. UNCHANGED <<row, ver, world>> /\ proc' = proc
    BY <1>10 DEF vars, world
  <2> QED
    BY <1>0, <2>1, CalmWorld, StaysRest
<1> QED
  BY <1>2, <1>3, <1>4, <1>5, <1>6, <1>7, <1>8, <1>9, <1>10 DEF Next

LEMMA NextStanding ==
  Standing /\ NoneWithdrawn /\ NoneRequeued /\ Undisturbed /\ [Next]_vars => Standing'
<1> SUFFICES ASSUME Standing, NoneWithdrawn, NoneRequeued, Undisturbed, [Next]_vars PROVE Standing'
  OBVIOUS
<1>1. AtRestInv'
  BY NextRest
<1>2. Ordered' /\ Single'
  BY NextOrdered, NextSingle DEF Standing
<1>3. \A p \in Procs : Guarded(proc[p])'
  BY NextGuarded DEF Standing
<1>4. IInv'
  BY StepInv DEF Standing
<1> QED
  BY <1>1, <1>2, <1>3, <1>4 DEF Standing, Guarded

LEMMA InitStanding == Init => Standing
BY InitOrdered, InitSingle, InitAlone, InitInv, InitRest DEF Standing, Alone

---------------------------------------------------------------------------
(* The phase of a row that is in the table is changed by a write that won. *)
LEMMA PhaseMoves ==
  ASSUME Standing, NoneWithdrawn, [Next]_vars, row[Me].phase # "absent", row'[Me].phase # row[Me].phase
  PROVE  \E p \in Procs : Wrote(p) /\ proc[p].task = Me
<1>0. Typed /\ Me \in Tasks /\ \A p \in Procs : Guarded(proc[p])
  BY MeFacts DEF Standing, Ordered
<1>1. PICK p \in Procs : Progress(p)
  BY <1>0, NextComes DEF Quiet
<1>2. ~Step(p) /\ ~Starts(p)
  BY DEF Step, Starts
<1>3. ASSUME NEW t \in Tasks, NEW r, row' = [row EXCEPT ![t] = r], r.phase = row[t].phase PROVE FALSE
  BY <1>0, <1>3 DEF Typed
<1>4. CASE Inserts(p)
  <2>1. PICK t \in Tasks : \E d : row[t].phase = "absent" /\ row' = [row EXCEPT ![t] = d.seen]
    BY <1>4 DEF Inserts
  <2>2. t # Me
    BY <2>1
  <2> QED
    BY <1>0, <2>1, <2>2 DEF Typed
<1>5. CASE Records(p) \/ Holds(p)
  <2> DEFINE t == proc[p].task
             b == proc[p].pc = "hold"
             r == row[t]
             u == [r EXCEPT !.session = TRUE]
             v == [r EXCEPT !.hold = b]
  <2>1. t \in Tasks /\ r \in Rows(Tasks)
    BY <1>0, <1>5 DEF Records, Holds, Typed, Local
  <2>2. row' = [row EXCEPT ![t] = u] \/ row' = [row EXCEPT ![t] = v]
    BY <1>5 DEF Records, Holds, Updates
  <2>3. u.phase = row[t].phase /\ v.phase = row[t].phase
    <3> HIDE DEF b
    <3> QED
      BY <2>1 DEF Rows
  <2> HIDE DEF u, v, t
  <2> QED
    BY <1>3, <2>1, <2>2, <2>3
<1>6. CASE Wrote(p)
  <2>1. proc[p].task = Me
    <3> DEFINE t == proc[p].task
               r == Kept(row[t], proc[p].move.next)
    <3>1. row' = [row EXCEPT ![t] = r]
      BY <1>6 DEF Wrote
    <3> HIDE DEF r, t
    <3>2. t = Me
      BY <1>0, <3>1 DEF Typed
    <3> QED
      BY <3>2 DEF t
  <2> QED
    BY <1>6, <2>1
<1> QED
  BY <1>1, <1>2, <1>4, <1>5, <1>6 DEF Progress, Deletes, NoneWithdrawn

(* What is written over such a row goes with what the worker does.         *)
LEMMA PhaseSuits ==
  ASSUME Standing, NoneWithdrawn, [Next]_vars, row[Me].phase # "absent", row'[Me].phase # row[Me].phase
  PROVE  \E n : row'[Me].phase = n.phase /\ row'[Me].step = n.step /\ Suited(row[Me], n, AtEase, Broken, ~changed[Me])
<1>1. PICK p \in Procs : Wrote(p) /\ proc[p].task = Me
  BY PhaseMoves
<1> DEFINE c == proc[p]
           n == c.move.next
<1>2. row'[Me].phase = n.phase /\ row'[Me].step = n.step
  BY <1>1, WroteFacts DEF Standing, Ordered
<1>3. Fresh(c) /\ c.pc = "write"
  BY <1>1 DEF Wrote, Wins, Same, Fresh, OnMe
<1>4. c.seen.phase = row[Me].phase /\ c.seen.step = row[Me].step /\ Sure(c, AtEase, Broken, ~changed[Me])
  BY <1>3, FreshFacts DEF Standing
<1>5. Suited(c.seen, n, AtEase, Broken, ~changed[Me])
  BY <1>3, <1>4 DEF Sure
<1>6. Suited(row[Me], n, AtEase, Broken, ~changed[Me])
  BY <1>4, <1>5 DEF Suited, Early
<1> QED
  BY <1>2, <1>6

LEMMA StandingStays == Spec /\ [](NoneWithdrawn /\ NoneRequeued /\ Undisturbed) => []Standing
<1>1. Init => Standing
  BY InitStanding
<1>2. Standing /\ NoneWithdrawn /\ NoneRequeued /\ Undisturbed /\ [Next]_vars => Standing'
  BY NextStanding
<1> QED
  BY <1>1, <1>2, PTL DEF Spec

(* While nobody but csquad talks to the worker and no Stop hook is late    *)
(* (and no launch is withdrawn, nor a start tried again), a verdict that   *)
(* is accepted is about the work as it is: the worker did not work since   *)
(* the check began, however many passes, checks and hooks run at once.     *)
THEOREM AcceptedIsUnchanged ==
  Spec /\ [](NoneWithdrawn /\ NoneRequeued /\ Undisturbed) => AcceptedUnchanged
<1>1. ASSUME Standing, NoneWithdrawn, [Next]_vars, row[Me].phase = "checking", row'[Me].phase \in {"merging", "ready"}
      PROVE  ~changed[Me]
  <2>1. PICK n : row'[Me].phase = n.phase /\ Suited(row[Me], n, AtEase, Broken, ~changed[Me])
    BY <1>1, PhaseSuits
  <2> QED
    BY <1>1, <2>1 DEF Suited
<1>2. Standing /\ NoneWithdrawn /\ [Next]_vars =>
        [row[Me].phase = "checking" /\ row'[Me].phase \in {"merging", "ready"} => ~changed[Me]]_vars
  BY <1>1
<1> QED
  BY <1>2, StandingStays, PTL DEF Spec, AcceptedUnchanged

(* Under the same conditions a fix round ends only after the worker took   *)
(* its findings: no Stop event and no answer of an earlier turn ends it.   *)
THEOREM RechecksAfterFix ==
  Spec /\ [](NoneWithdrawn /\ NoneRequeued /\ Undisturbed) => RecheckAfterFix
<1>1. ASSUME Standing, NoneWithdrawn, [Next]_vars, row[Me].phase = "fixing", row'[Me].phase = "checking"
      PROVE  ~inbox[Me]
  <2>1. PICK n : row'[Me].phase = n.phase /\ Suited(row[Me], n, AtEase, Broken, ~changed[Me])
    BY <1>1, PhaseSuits
  <2> QED
    BY <1>1, <2>1 DEF Suited, Rested, AtEase
<1>2. Standing /\ NoneWithdrawn /\ [Next]_vars =>
        [row[Me].phase = "fixing" /\ row'[Me].phase = "checking" => ~inbox[Me]]_vars
  BY <1>1
<1> QED
  BY <1>2, StandingStays, PTL DEF Spec, RecheckAfterFix
=============================================================================
