--------------------------- MODULE TaskFlowProofs ---------------------------
(***************************************************************************)
(* The row's invariants hold for every set of tasks, every number of       *)
(* rounds and every observation: Inv is inductive.                         *)
(***************************************************************************)
EXTENDS TaskFlow, TLAPS

USE DEF Finals, Unfinished

(* What the history of blocking counts becomes with a verdict of round r.  *)
LEMMA HistoryFacts ==
  ASSUME NEW t \in Rows(Others), NEW v \in Verdicts(Nat),
         t.round >= 1, t.round - 1 <= Len(t.blocking), Len(t.blocking) <= t.round
  PROVE  /\ History(t, v) \in Seq(Nat)
         /\ v.kind = "error" => History(t, v) = t.blocking
         /\ v.kind # "error" => Len(History(t, v)) = t.round
<1>1. t.blocking \in Seq(Nat) /\ t.round \in Nat /\ v.count \in Nat
  BY DEF Rows, Verdicts
<1>2. CASE v.kind = "error"
  BY <1>1, <1>2 DEF History
<1>3. CASE v.kind # "error"
  <2> DEFINE k == t.round - 1
  <2>1. k \in 0..Len(t.blocking)
    BY <1>1
  <2>2. Prefix(t.blocking, k) = SubSeq(t.blocking, 1, k)
    BY <2>1, <1>1 DEF Prefix
  <2>3. SubSeq(t.blocking, 1, k) \in Seq(Nat) /\ Len(SubSeq(t.blocking, 1, k)) = k
    BY <2>1, <1>1
  <2>4. History(t, v) = Append(SubSeq(t.blocking, 1, k), v.count)
    BY <2>2, <1>3 DEF History
  <2>5. QED
    BY <2>3, <2>4, <1>1, <1>3
<1>4. QED
  BY <1>2, <1>3

(* The fields of a row.                                                    *)
LEMMA RowFields ==
  ASSUME NEW t \in Rows(Others)
  PROVE  /\ t.phase \in Phases /\ t.step \in Steps
         /\ t.round \in Nat /\ t.max \in Nat
         /\ t.last \in VerdictKinds /\ t.blocking \in Seq(Nat)
         /\ t.session \in BOOLEAN /\ t.hold \in BOOLEAN
         /\ t.after \in SUBSET Others /\ t.check \in CheckSpecs
         /\ t.merge \in BOOLEAN /\ t.inPlace \in BOOLEAN
BY DEF Rows

(* The conjuncts of Inv, said of any row.                                  *)
Sound(r) ==
  /\ r \in Rows(Others)
  /\ r.round <= r.max
  /\ r.phase = "checking" => r.round >= 1
  /\ r.phase = "fixing" => r.round >= 2
  /\ r.round - 1 <= Len(r.blocking)
  /\ Len(r.blocking) <= r.round
  /\ r.phase = "fixing" => Len(r.blocking) = r.round - 1
  /\ r.phase = "needs_you" /\ r.step = "round" => Len(r.blocking) = r.round
  /\ (\/ r.phase = "ready"
      \/ r.phase = "merging" /\ r.check # ""
      \/ r.phase = "needs_you" /\ r.step = "merge" /\ r.check # "") => r.last = "pass"
  /\ (\/ r.phase \in {"checking", "fixing", "merging", "ready", "failed"}
      \/ r.phase = "needs_you" /\ r.step \in {"round", "check", "merge"}) => r.session
  /\ r.phase = "needs_you" /\ r.step \in {"round", "check"} => r.round >= 1
  /\ r.phase # "absent" => r.max >= 1

(* The inductive invariant is Sound of the row.                            *)
LEMMA SoundIsInv == Sound(task) <=> Inv
BY DEF Sound, Inv, TypeOK, RoundsBounded, HistoryAligned, AcceptedPassed,
       ProgressHasSession, RoundsGranted

(* A step to a sound row keeps the inductive invariant.                    *)
LEMMA SoundNext == ASSUME NEW r, Sound(r), task' = r PROVE Inv'
BY DEF Sound, Inv, TypeOK, RoundsBounded, HistoryAligned, AcceptedPassed,
       ProgressHasSession, RoundsGranted

(* Moving a sound row to a phase and a step that ask no more of it.        *)
LEMMA SoundTo ==
  ASSUME NEW r, Sound(r), NEW p \in Phases, NEW s \in Steps,
         r.phase # "absent",
         p = "checking" => r.round >= 1 /\ r.session,
         p = "fixing" => r.round >= 2 /\ Len(r.blocking) = r.round - 1,
         p \in {"fixing", "merging", "ready", "failed"} => r.session,
         p = "ready" \/ (p = "merging" /\ r.check # "") => r.last = "pass",
         p = "needs_you" /\ s = "merge" => r.session /\ (r.check # "" => r.last = "pass"),
         p = "needs_you" /\ s = "round" => r.session /\ r.round >= 1 /\ Len(r.blocking) = r.round,
         p = "needs_you" /\ s = "check" => r.session /\ r.round >= 1
  PROVE  Sound(To(r, p, s))
<1>1. r \in Rows(Others)
  BY DEF Sound
<1> DEFINE u == To(r, p, s)
<1>2. u \in Rows(Others)
  BY <1>1 DEF To, Rows
<1>3. /\ u.phase = p /\ u.step = s /\ u.round = r.round /\ u.max = r.max
      /\ u.last = r.last /\ u.blocking = r.blocking
      /\ u.session = r.session /\ u.check = r.check
  BY <1>1 DEF To, Rows
<1> HIDE DEF u
<1>4. Sound(u)
  BY <1>2, <1>3 DEF Sound
<1>5. QED
  BY <1>4 DEF u

(* The row of an id the table does not hold is sound.                      *)
LEMMA NoRowSound == Sound(NoRow)
<1>1. NoRow \in Rows(Others)
  BY DEF NoRow, Rows, Phases, Steps, VerdictKinds, CheckSpecs
<1>2. /\ NoRow.round = 0 /\ NoRow.max = 0 /\ NoRow.phase = "absent"
      /\ NoRow.blocking = << >>
  BY DEF NoRow
<1>3. QED
  BY <1>1, <1>2 DEF Sound

(* Recording the session (SetSession) keeps a row sound.                   *)
LEMMA SoundSession ==
  ASSUME NEW r, Sound(r)
  PROVE  Sound([r EXCEPT !.session = TRUE])
<1> DEFINE u == [r EXCEPT !.session = TRUE]
<1>1. r \in Rows(Others)
  BY DEF Sound
<1>2. u \in Rows(Others)
  BY <1>1 DEF Rows
<1>3. /\ u.phase = r.phase /\ u.step = r.step /\ u.round = r.round /\ u.max = r.max
      /\ u.last = r.last /\ u.blocking = r.blocking /\ u.session = TRUE /\ u.check = r.check
  BY <1>1 DEF Rows
<1> HIDE DEF u
<1>4. Sound(u)
  BY <1>2, <1>3 DEF Sound
<1>5. QED
  BY <1>4 DEF u

(* Holding and releasing (SetHold) keep a row sound.                       *)
LEMMA SoundHold ==
  ASSUME NEW r, Sound(r)
  PROVE  Sound([r EXCEPT !.hold = ~r.hold])
<1> DEFINE u == [r EXCEPT !.hold = ~r.hold]
<1>1. r \in Rows(Others)
  BY DEF Sound
<1>2. u \in Rows(Others)
  BY <1>1 DEF Rows
<1>3. /\ u.phase = r.phase /\ u.step = r.step /\ u.round = r.round /\ u.max = r.max
      /\ u.last = r.last /\ u.blocking = r.blocking /\ u.session = r.session
      /\ u.check = r.check
  BY <1>1 DEF Rows
<1> HIDE DEF u
<1>4. Sound(u)
  BY <1>2, <1>3 DEF Sound
<1>5. QED
  BY <1>4 DEF u

(* A row entering a round: the check of a worker that stopped, and the fix *)
(* retry grants.                                                           *)
LEMMA SoundChecking ==
  ASSUME NEW r, Sound(r), r.phase # "absent", r.session
  PROVE  Sound([To(r, "checking", "") EXCEPT !.round = AtLeastOne(r.round)])
<1> DEFINE k == AtLeastOne(r.round)
           u == [To(r, "checking", "") EXCEPT !.round = k]
<1>0. r \in Rows(Others)
  BY DEF Sound
<1>1. r \in Rows(Others) /\ r.round \in Nat /\ r.max \in Nat /\ Len(r.blocking) \in Nat
  BY <1>0, RowFields
<1>2. k \in Nat /\ k >= 1 /\ (r.round >= 1 => k = r.round) /\ (r.round = 0 => k = 1)
  BY <1>1 DEF AtLeastOne
<1> HIDE DEF k
<1>3. u \in Rows(Others)
  BY <1>1, <1>2 DEF To, Rows, Phases, Steps
<1>4. /\ u.phase = "checking" /\ u.step = "" /\ u.round = k /\ u.max = r.max
      /\ u.last = r.last /\ u.blocking = r.blocking /\ u.session = r.session
      /\ u.check = r.check
  BY <1>1 DEF To, Rows
<1> HIDE DEF u
<1>5. /\ r.round <= r.max /\ r.max >= 1
      /\ r.round - 1 <= Len(r.blocking) /\ Len(r.blocking) <= r.round
  BY DEF Sound
<1>6. k <= r.max /\ k - 1 <= Len(r.blocking) /\ Len(r.blocking) <= k
  BY <1>1, <1>2, <1>5
<1>7. Sound(u)
  BY <1>1, <1>2, <1>3, <1>4, <1>6 DEF Sound
<1>8. QED
  BY <1>7 DEF u, k

(* The round retry grants keeps a row sound.                                 *)
LEMMA SoundExtraRound ==
  ASSUME NEW r, Sound(r), r.phase = "needs_you", r.step = "round"
  PROVE  Sound([To(r, "fixing", "") EXCEPT !.max = r.max + 1, !.round = r.round + 1])
<1> DEFINE k == r.round + 1
           x == r.max + 1
           u == [To(r, "fixing", "") EXCEPT !.max = x, !.round = k]
<1>0. r \in Rows(Others)
  BY DEF Sound
<1>1. r \in Rows(Others) /\ r.round \in Nat /\ r.max \in Nat
  BY <1>0, RowFields
<1>2. r.round <= r.max /\ r.round >= 1 /\ Len(r.blocking) = r.round /\ r.session = TRUE
  BY <1>0 DEF Sound, Rows
<1>3. k \in Nat /\ x \in Nat /\ k <= x /\ k >= 2 /\ Len(r.blocking) = k - 1 /\ x >= 1
      /\ k - 1 <= k /\ ~(k <= 0)
  BY <1>1, <1>2
<1> HIDE DEF k, x
<1>4. u \in Rows(Others)
  BY <1>1, <1>3 DEF To, Rows, Phases, Steps
<1>5. /\ u.phase = "fixing" /\ u.step = "" /\ u.round = k /\ u.max = x
      /\ u.last = r.last /\ u.blocking = r.blocking /\ u.session = r.session
      /\ u.check = r.check
  BY <1>1, <1>3 DEF To, Rows
<1> HIDE DEF u
<1>6. Sound(u)
  BY <1>2, <1>3, <1>4, <1>5 DEF Sound
<1>7. QED
  BY <1>6 DEF u, k, x

(* A verdict of the current round adds exactly that round's count, and     *)
(* sends the worker to a fix only while a round is left.                   *)
LEMMA SoundVerdict ==
  ASSUME NEW r, Sound(r), r.phase = "checking", NEW v \in Verdicts(Nat),
         NEW p \in {"needs_you", "ready", "merging", "fixing"}, NEW s \in Steps,
         NEW k \in Nat,
         v.kind = "error" => p = "needs_you" /\ s = "check",
         v.kind = "pass" => p \in {"ready", "merging"},
         v.kind = "fail" => p = "fixing" \/ (p = "needs_you" /\ s = "round"),
         p = "fixing" => r.round < r.max /\ k = r.round + 1,
         p # "fixing" => k = r.round
  PROVE  Sound([[r EXCEPT !.last = v.kind, !.blocking = History(r, v)]
                  EXCEPT !.phase = p, !.step = s, !.round = k])
<1> DEFINE h == History(r, v)
           u == [[r EXCEPT !.last = v.kind, !.blocking = h]
                   EXCEPT !.phase = p, !.step = s, !.round = k]
<1>0. r \in Rows(Others)
  BY DEF Sound
<1>1. r.round \in Nat /\ r.max \in Nat /\ Len(r.blocking) \in Nat
  BY <1>0, RowFields
<1>2. /\ r.round >= 1 /\ r.round <= r.max /\ r.session = TRUE
      /\ r.round - 1 <= Len(r.blocking) /\ Len(r.blocking) <= r.round
  BY <1>0 DEF Sound, Rows
<1>3. /\ h \in Seq(Nat)
      /\ v.kind = "error" => h = r.blocking
      /\ v.kind # "error" => Len(h) = r.round
  BY <1>0, <1>2, HistoryFacts
<1>4. v.kind \in {"pass", "fail", "error"}
  BY DEF Verdicts
<1> HIDE DEF h
<1>5. u \in Rows(Others)
  BY <1>0, <1>3, <1>4 DEF Rows, Phases, VerdictKinds
<1>6. /\ u.phase = p /\ u.step = s /\ u.round = k /\ u.max = r.max
      /\ u.last = v.kind /\ u.blocking = h /\ u.session = r.session
  BY <1>0 DEF Rows
<1>7. Len(u.blocking) \in Nat /\ Len(u.blocking) <= r.round /\ Len(u.blocking) >= r.round - 1
  BY <1>1, <1>2, <1>3, <1>4, <1>6
<1>8. /\ k <= r.max /\ k >= 1
      /\ p = "fixing" => k >= 2 /\ Len(u.blocking) = k - 1
      /\ p # "fixing" => k = r.round
      /\ p = "needs_you" /\ s = "round" => Len(u.blocking) = k
      /\ Len(u.blocking) <= k /\ k - 1 <= Len(u.blocking)
      /\ p \in {"ready", "merging"} => v.kind = "pass"
      /\ p # "checking" /\ p # "absent"
      /\ p = "needs_you" => s # "merge"
  <2>1. CASE v.kind = "error"
    BY <1>1, <1>2, <1>3, <1>6, <1>7, <2>1
  <2>2. CASE v.kind = "pass"
    BY <1>1, <1>2, <1>3, <1>6, <1>7, <2>2
  <2>3. CASE v.kind = "fail" /\ p = "fixing"
    BY <1>1, <1>2, <1>3, <1>6, <1>7, <2>3
  <2>4. CASE v.kind = "fail" /\ p = "needs_you"
    BY <1>1, <1>2, <1>3, <1>6, <1>7, <2>4
  <2>5. QED
    BY <1>4, <2>1, <2>2, <2>3, <2>4
<1> HIDE DEF u
<1>9. Sound(u)
  BY <1>1, <1>2, <1>5, <1>6, <1>8 DEF Sound
<1>10. QED
  BY <1>9 DEF u, h

(* The row as it was read differs from the row in its session only.        *)
LEMMA SeenFacts ==
  ASSUME NEW r \in Rows(Others), NEW x
  PROVE  /\ Seen(r, x).phase = r.phase /\ Seen(r, x).step = r.step
         /\ Seen(r, x).round = r.round /\ Seen(r, x).max = r.max
         /\ Seen(r, x).blocking = r.blocking /\ Seen(r, x).after = r.after
         /\ Seen(r, x).check = r.check /\ Seen(r, x).merge = r.merge
         /\ Seen(r, x).hold = r.hold /\ Seen(r, x).session = x
BY DEF Seen, Rows

(* Writing back what was read changes nothing.                             *)
LEMMA BackSeen ==
  ASSUME NEW r \in Rows(Others), NEW x
  PROVE  Back(r, Seen(r, x)) = r
BY DEF Seen, Rows, Back

(* A move decided on a reading moves the row itself the same way.          *)
LEMMA BackTo ==
  ASSUME NEW r \in Rows(Others), NEW x, NEW p, NEW s
  PROVE  Back(r, To(Seen(r, x), p, s)) = To(r, p, s)
BY DEF Seen, Rows, Back, To

(* What Next makes of a waiting task is sound.                             *)
LEMMA WaitingSound ==
  ASSUME NEW r, Sound(r), r.phase = "waiting", NEW x, NEW o
  PROVE  Sound(Back(r, NextWaiting(Seen(r, x), o).next))
<1> DEFINE t == Seen(r, x)
<1>1. r \in Rows(Others)
  BY DEF Sound
<1>2. \/ NextWaiting(t, o).next = t
      \/ NextWaiting(t, o).next = To(t, "needs_you", "waiting")
      \/ NextWaiting(t, o).next = To(t, "running", "")
  BY DEF NextWaiting, NeedsYou, Stay, Move
<1>3. Back(r, t) = r
  BY <1>1, BackSeen
<1>4. \A p, s : Back(r, To(t, p, s)) = To(r, p, s)
  BY <1>1, BackTo
<1>5. Sound(r) /\ Sound(To(r, "needs_you", "waiting")) /\ Sound(To(r, "running", ""))
  BY SoundTo DEF Phases, Steps
<1> HIDE DEF t
<1>6. Sound(Back(r, NextWaiting(t, o).next))
  BY <1>2, <1>3, <1>4, <1>5
<1>7. QED
  BY <1>6 DEF t

(* What Next makes of a running or fixing task is sound.                   *)
LEMMA WorkingSound ==
  ASSUME NEW r, Sound(r), r.phase \in {"running", "fixing"},
         NEW x \in {FALSE, r.session}, NEW o
  PROVE  Sound(Back(r, NextWorking(Seen(r, x), o).next))
<1> DEFINE t == Seen(r, x)
           c == [To(t, "checking", "") EXCEPT !.round = AtLeastOne(t.round)]
           d == [To(r, "checking", "") EXCEPT !.round = AtLeastOne(r.round)]
<1>1. r \in Rows(Others)
  BY DEF Sound
<1>2. t.session = x /\ t.check = r.check
  BY <1>1, SeenFacts
<1>3. Back(r, t) = r
  BY <1>1, BackSeen
<1>4. \A p, s : Back(r, To(t, p, s)) = To(r, p, s)
  BY <1>1, BackTo
<1>5. Back(r, c) = d
  BY <1>1 DEF Back, Seen, To, Rows
<1>6. \/ NextWorking(t, o).next = t
      \/ NextWorking(t, o).next = To(t, "needs_you", "waiting")
      \/ NextWorking(t, o).next = To(t, "needs_you", "")
      \/ t.session /\ NextWorking(t, o).next = To(t, "failed", "")
      \/ t.session /\ NextWorking(t, o).next = c
      \/ t.session /\ t.check = "" /\ NextWorking(t, o).next = To(t, "merging", "")
  BY DEF NextWorking, LostMove, AfterWork, NeedsYou, Stay, Move
<1>7. t.session => Sound(d)
  BY <1>2, SoundChecking
<1>8. Sound(To(r, "needs_you", "waiting")) /\ Sound(To(r, "needs_you", ""))
  BY SoundTo DEF Phases, Steps
<1>9. /\ t.session => Sound(To(r, "failed", ""))
      /\ t.session /\ t.check = "" => Sound(To(r, "merging", ""))
  BY <1>2, SoundTo DEF Phases, Steps
<1> HIDE DEF t, c, d
<1>10. Sound(Back(r, NextWorking(t, o).next))
  BY <1>3, <1>4, <1>5, <1>6, <1>7, <1>8, <1>9
<1>11. QED
  BY <1>10 DEF t

(* What Next makes of a checking task, a verdict included, is sound.       *)
LEMMA CheckingSound ==
  ASSUME NEW r, Sound(r), r.phase = "checking",
         NEW x, NEW o, o.verdict \in {NoVerdict} \union Verdicts(Nat)
  PROVE  Sound(Back(r, NextChecking(Seen(r, x), o).next))
<1> DEFINE t == Seen(r, x)
           v == o.verdict
           b == [r EXCEPT !.last = v.kind, !.blocking = History(r, v)]
           n == [t EXCEPT !.last = v.kind, !.blocking = History(t, v)]
           w == [To(n, "fixing", "") EXCEPT !.round = t.round + 1]
           With(p, s, k) == [b EXCEPT !.phase = p, !.step = s, !.round = k]
<1>1. r \in Rows(Others)
  BY DEF Sound
<1>2. /\ r.round \in Nat /\ r.max \in Nat /\ r.session = TRUE /\ r.round >= 1
      /\ t.round = r.round /\ t.max = r.max /\ t.blocking = r.blocking
  <2>1. r.session /\ r.round >= 1
    BY DEF Sound
  <2>2. QED
    BY <2>1, <1>1, SeenFacts, RowFields
<1>3. CASE v = NoVerdict
  <2>1. \/ NextChecking(t, o).next = t
        \/ NextChecking(t, o).next = To(t, "needs_you", "check")
    BY <1>3 DEF NextChecking, NeedsYou, Stay, Move
  <2>2. Back(r, t) = r
    BY <1>1, BackSeen
  <2>3. \A p, s : Back(r, To(t, p, s)) = To(r, p, s)
    BY <1>1, BackTo
  <2>4. Sound(To(r, "needs_you", "check"))
    BY <1>2, SoundTo DEF Phases, Steps
  <2> HIDE DEF t
  <2>5. Sound(Back(r, NextChecking(t, o).next))
    BY <2>1, <2>2, <2>3, <2>4
  <2>6. QED
    BY <2>5 DEF t
<1>4. CASE v # NoVerdict
  <2>1. v \in Verdicts(Nat)
    BY <1>4
  <2>2. v.kind \in {"pass", "fail", "error"}
    BY <2>1 DEF Verdicts
  <2>3. NextChecking(t, o) = VerdictMove(t, v, o)
    BY <1>4 DEF NextChecking
  <2>4. History(t, v) = History(r, v)
    BY <1>2 DEF History
  <2>5. /\ v.kind = "error" => VerdictMove(t, v, o).next = To(n, "needs_you", "check")
        /\ v.kind = "pass" => \/ VerdictMove(t, v, o).next = To(n, "merging", "")
                              \/ VerdictMove(t, v, o).next = To(n, "ready", "")
        /\ v.kind = "fail" => \/ VerdictMove(t, v, o).next = To(n, "needs_you", "round")
                              \/ ~(r.round >= r.max) /\ VerdictMove(t, v, o).next = w
    BY <1>2 DEF VerdictMove, NeedsYou, Stay, Move
  <2>6. \A p, s : Back(r, To(n, p, s)) = With(p, s, r.round)
    BY <1>1, <2>4 DEF Back, Seen, To, Rows
  <2>7. Back(r, w) = With("fixing", "", r.round + 1)
    BY <1>1, <1>2, <2>4 DEF Back, Seen, To, Rows
  <2>8. /\ v.kind = "error" => Sound(With("needs_you", "check", r.round))
        /\ v.kind = "pass" => Sound(With("merging", "", r.round))
        /\ v.kind = "pass" => Sound(With("ready", "", r.round))
        /\ v.kind = "fail" => Sound(With("needs_you", "round", r.round))
    <3>1. r.round \in Nat
      BY <1>2
    <3>2. v.kind = "error" => Sound(With("needs_you", "check", r.round))
      BY <3>1, <2>1, SoundVerdict DEF Steps
    <3>3. v.kind = "pass" => Sound(With("merging", "", r.round))
      BY <3>1, <2>1, SoundVerdict DEF Steps
    <3>4. v.kind = "pass" => Sound(With("ready", "", r.round))
      BY <3>1, <2>1, SoundVerdict DEF Steps
    <3>5. v.kind = "fail" => Sound(With("needs_you", "round", r.round))
      BY <3>1, <2>1, SoundVerdict DEF Steps
    <3>6. QED
      BY <3>2, <3>3, <3>4, <3>5
  <2>9. v.kind = "fail" /\ ~(r.round >= r.max) => Sound(With("fixing", "", r.round + 1))
    <3>1. r.round + 1 \in Nat /\ (~(r.round >= r.max) => r.round < r.max)
      BY <1>2
    <3>2. QED
      BY <3>1, <2>1, SoundVerdict DEF Steps
  <2> HIDE DEF t, v, b, n, w, With
  <2>10. Sound(Back(r, VerdictMove(t, v, o).next))
    BY <2>2, <2>5, <2>6, <2>7, <2>8, <2>9
  <2>11. QED
    BY <2>3, <2>10 DEF t
<1>5. QED
  BY <1>3, <1>4

(* What Next makes of a merging task, a landing included, is sound.        *)
LEMMA MergingSound ==
  ASSUME NEW r, Sound(r), r.phase = "merging", NEW x, NEW o
  PROVE  Sound(Back(r, NextMerging(Seen(r, x), o).next))
<1> DEFINE t == Seen(r, x)
<1>1. r \in Rows(Others)
  BY DEF Sound
<1>2. r.session /\ (r.check # "" => r.last = "pass")
  BY DEF Sound
<1>3. Back(r, t) = r
  BY <1>1, BackSeen
<1>4. \A p, s : Back(r, To(t, p, s)) = To(r, p, s)
  BY <1>1, BackTo
<1>5. \/ NextMerging(t, o).next = t
      \/ NextMerging(t, o).next = To(t, "done", "")
      \/ NextMerging(t, o).next = To(t, "merging", "asked")
      \/ NextMerging(t, o).next = To(t, "needs_you", "merge")
      \/ NextMerging(t, o).next = To(t, "needs_you", "")
      \/ NextMerging(t, o).next = To(t, "failed", "")
  BY DEF NextMerging, Landed, LostMove, NeedsYou, Stay, Move
<1>6. /\ Sound(To(r, "done", "")) /\ Sound(To(r, "merging", "asked"))
      /\ Sound(To(r, "needs_you", "merge")) /\ Sound(To(r, "needs_you", ""))
      /\ Sound(To(r, "failed", ""))
  BY <1>2, SoundTo DEF Phases, Steps
<1> HIDE DEF t
<1>7. Sound(Back(r, NextMerging(t, o).next))
  BY <1>3, <1>4, <1>5, <1>6
<1>8. QED
  BY <1>7 DEF t

(* What Next makes of a task that is ready or stopped is sound.            *)
LEMMA RestingSound ==
  ASSUME NEW r, Sound(r), r.phase \in {"ready", "needs_you", "failed"}, NEW x, NEW o
  PROVE  /\ r.phase = "ready" => Sound(Back(r, NextReady(Seen(r, x), o).next))
         /\ r.phase # "ready" => Sound(Back(r, NextStopped(Seen(r, x), o).next))
<1> DEFINE t == Seen(r, x)
<1>1. r \in Rows(Others)
  BY DEF Sound
<1>2. r.phase = "ready" => r.session /\ r.last = "pass"
  BY DEF Sound
<1>3. Back(r, t) = r
  BY <1>1, BackSeen
<1>4. \A p, s : Back(r, To(t, p, s)) = To(r, p, s)
  BY <1>1, BackTo
<1>5. \/ NextReady(t, o).next = t
      \/ NextReady(t, o).next = To(t, "merging", "")
  BY DEF NextReady, Stay, Move
<1>6. \/ NextStopped(t, o).next = t
      \/ NextStopped(t, o).next = To(t, "running", "")
  BY DEF NextStopped, Stay, Move
<1>7. Sound(To(r, "running", "")) /\ (r.phase = "ready" => Sound(To(r, "merging", "")))
  BY <1>2, SoundTo DEF Phases, Steps
<1> HIDE DEF t
<1>8. /\ r.phase = "ready" => Sound(Back(r, NextReady(t, o).next))
      /\ Sound(Back(r, NextStopped(t, o).next))
  BY <1>3, <1>4, <1>5, <1>6, <1>7
<1>9. QED
  BY <1>8 DEF t

---------------------------------------------------------------------------
(* Every action keeps the invariant.                                       *)

(* Launch inserts a sound row.                                             *)
LEMMA LaunchSound == Launch => Inv'
<1> SUFFICES ASSUME Launch PROVE Inv'
  OBVIOUS
<1>1. PICK p \in {"running", "waiting"}, a \in SUBSET Others, c \in CheckSpecs,
           m \in BOOLEAN, h \in BOOLEAN, i \in BOOLEAN :
        task' = NewRow(p, a, c, m, h, i)
  BY DEF Launch, NewRows
<1> DEFINE r == NewRow(p, a, c, m, h, i)
<1>2. NoRow \in Rows(Others)
  BY NoRowSound DEF Sound
<1>3. Rounds \in Nat /\ Rounds >= 1
  BY RoundsAssumption
<1>4. r \in Rows(Others)
  BY <1>2, <1>3 DEF Rows, Phases, NewRow
<1>5. r.phase = p /\ r.round = 0 /\ r.max = Rounds /\ Len(r.blocking) = 0
  BY DEF NoRow, NewRow
<1>6. task' = r
  BY <1>1
<1> HIDE DEF r
<1>7. r.phase = "running" \/ r.phase = "waiting"
  BY <1>5
<1>8. /\ r.round <= r.max /\ r.max >= 1
      /\ r.round - 1 <= Len(r.blocking) /\ Len(r.blocking) <= r.round
  BY <1>3, <1>5
<1>9. Sound(r)
  BY <1>4, <1>7, <1>8 DEF Sound
<1>10. QED
  BY <1>6, <1>9, SoundNext

(* Whatever is observed, the move Next decides keeps the invariant.        *)
LEMMA ObserveSound == Inv /\ Observe => Inv'
<1> SUFFICES ASSUME Inv, Observe PROVE Inv'
  OBVIOUS
<1>1. PICK seen \in {FALSE, task.session}, o \in Observations(task) :
        task' = Back(task, NextMove(Seen(task, seen), o).next)
  BY DEF Observe
<1> DEFINE t == Seen(task, seen)
<1>2. task' = Back(task, NextMove(t, o).next)
  BY <1>1
<1>3. Sound(task) /\ task \in Rows(Others)
  BY SoundIsInv DEF Sound
<1>4. t.phase = task.phase
  BY <1>3, SeenFacts
<1>5. Sound(Back(task, NextMove(t, o).next))
  <2>1. CASE task.phase = "waiting"
    BY <1>3, <1>4, <2>1, WaitingSound DEF NextMove
  <2>2. CASE task.phase \in {"running", "fixing"}
    BY <1>3, <1>4, <2>2, WorkingSound DEF NextMove
  <2>3. CASE task.phase = "checking"
    <3>1. o.verdict \in {NoVerdict} \union Verdicts(Nat)
      BY <2>3, CountsAssumption DEF Observations, When, Verdicts
    <3>2. NextMove(t, o) = NextChecking(t, o)
      BY <1>4, <2>3 DEF NextMove
    <3>3. QED
      BY <1>3, <2>3, <3>1, <3>2, CheckingSound
  <2>4. CASE task.phase = "merging"
    BY <1>3, <1>4, <2>4, MergingSound DEF NextMove
  <2>5. CASE task.phase = "ready"
    BY <1>3, <1>4, <2>5, RestingSound DEF NextMove
  <2>6. CASE task.phase \in {"needs_you", "failed"}
    BY <1>3, <1>4, <2>6, RestingSound DEF NextMove
  <2>7. CASE task.phase \in {"done", "cancelled", "absent"}
    <3>1. NextMove(t, o).next = t
      BY <1>4, <2>7 DEF NextMove, Stay, Move
    <3>2. QED
      BY <1>3, <3>1, BackSeen
  <2>8. QED
    BY <1>3, RowFields, <2>1, <2>2, <2>3, <2>4, <2>5, <2>6, <2>7 DEF Phases
<1>6. QED
  BY <1>2, <1>5, SoundNext

(* Retry keeps the invariant: each resume step has what it resumes.        *)
LEMMA RetrySound == Inv /\ Retry => Inv'
<1> SUFFICES ASSUME Inv, Retry PROVE Inv'
  OBVIOUS
<1>1. Sound(task) /\ task.phase = "needs_you" /\ task' = RetryMove(task).next
  BY SoundIsInv DEF Retry, Resumable
<1>2. CASE task.step = "waiting"
  <2>1. task' = To(task, "waiting", "")
    BY <1>1, <1>2 DEF RetryMove, Stay, Move
  <2>2. Sound(To(task, "waiting", ""))
    BY <1>1, SoundTo DEF Phases, Steps
  <2>3. QED
    BY <2>1, <2>2, SoundNext
<1>3. CASE task.step = "check"
  <2>1. task' = To(task, "checking", "")
    BY <1>1, <1>3 DEF RetryMove, Move
  <2>2. task.session /\ task.round >= 1
    BY <1>1, <1>3 DEF Sound
  <2>3. Sound(To(task, "checking", ""))
    BY <1>1, <2>2, SoundTo DEF Phases, Steps
  <2>4. QED
    BY <2>1, <2>3, SoundNext
<1>4. CASE task.step = "merge"
  <2>1. task' = To(task, "merging", "")
    BY <1>1, <1>4 DEF RetryMove, Move
  <2>2. task.session /\ (task.check # "" => task.last = "pass")
    BY <1>1, <1>4 DEF Sound
  <2>3. Sound(To(task, "merging", ""))
    BY <1>1, <2>2, SoundTo DEF Phases, Steps
  <2>4. QED
    BY <2>1, <2>3, SoundNext
<1>5. CASE task.step = "round"
  <2>1. task' = [To(task, "fixing", "") EXCEPT !.max = task.max + 1, !.round = task.round + 1]
    BY <1>1, <1>5 DEF RetryMove, Move
  <2>2. Sound([To(task, "fixing", "") EXCEPT !.max = task.max + 1, !.round = task.round + 1])
    BY <1>1, <1>5, SoundExtraRound
  <2>3. QED
    BY <2>1, <2>2, SoundNext
<1>6. QED
  BY <1>2, <1>3, <1>4, <1>5 DEF Retry, Resumable

(* The steps that only set the phase and the step.                         *)
LEMMA ToSound == Inv /\ (EffectFails \/ Cancel \/ ClearGone) => Inv'
<1> SUFFICES ASSUME Inv, EffectFails \/ Cancel \/ ClearGone PROVE Inv'
  OBVIOUS
<1>1. Sound(task)
  BY SoundIsInv
<1>2. CASE task.phase = "running" /\ task' = To(task, "needs_you", "waiting")
  <2>1. Sound(To(task, "needs_you", "waiting"))
    BY <1>1, <1>2, SoundTo DEF Phases, Steps
  <2>2. QED
    BY <1>2, <2>1, SoundNext
<1>3. CASE task.phase = "checking" /\ task' = To(task, "needs_you", "check")
  <2>1. task.round >= 1 /\ task.session
    BY <1>1, <1>3 DEF Sound
  <2>2. Sound(To(task, "needs_you", "check"))
    BY <1>1, <1>3, <2>1, SoundTo DEF Phases, Steps
  <2>3. QED
    BY <1>3, <2>2, SoundNext
<1>4. CASE task.phase \in {"fixing", "merging"} /\ task' = To(task, "needs_you", "")
  <2>1. Sound(To(task, "needs_you", ""))
    BY <1>1, <1>4, SoundTo DEF Phases, Steps
  <2>2. QED
    BY <1>4, <2>1, SoundNext
<1>5. CASE task.phase \in Unfinished /\ task' = To(task, "cancelled", "")
  <2>1. Sound(To(task, "cancelled", ""))
    BY <1>1, <1>5, SoundTo DEF Phases, Steps
  <2>2. QED
    BY <1>5, <2>1, SoundNext
<1>6. QED
  BY <1>2, <1>3, <1>4, <1>5 DEF EffectFails, Cancel, ClearGone

(* The user's finish keeps the invariant.                                  *)
LEMMA FinishSound == Inv /\ Finish => Inv'
<1> SUFFICES ASSUME Inv, Finish PROVE Inv'
  OBVIOUS
<1> DEFINE r == [task EXCEPT !.phase = "done"]
<1>1. Sound(task) /\ task \in Rows(Others)
  BY SoundIsInv DEF Sound
<1>2. task.phase # "absent" /\ task' = r /\ task.step \in Steps
  BY <1>1, RowFields DEF Finish
<1>3. r = To(task, "done", task.step)
  BY <1>1 DEF To, Rows
<1>4. Sound(To(task, "done", task.step))
  BY <1>1, <1>2, SoundTo DEF Phases
<1>5. QED
  BY <1>2, <1>3, <1>4, SoundNext

(* Every step keeps the invariant.                                         *)
LEMMA StepSound == Inv /\ [Next]_vars => Inv'
<1> SUFFICES ASSUME Inv, [Next]_vars PROVE Inv'
  OBVIOUS
<1>1. Sound(task)
  BY SoundIsInv
<1>2. CASE Launch
  BY <1>2, LaunchSound
<1>3. CASE Withdraw
  BY <1>3, NoRowSound, SoundNext DEF Withdraw
<1>4. CASE RecordSession
  BY <1>1, <1>4, SoundSession, SoundNext DEF RecordSession
<1>5. CASE SetHold
  BY <1>1, <1>5, SoundHold, SoundNext DEF SetHold
<1>6. CASE Observe
  BY <1>6, ObserveSound
<1>7. CASE Retry
  BY <1>7, RetrySound
<1>8. CASE EffectFails \/ Cancel \/ ClearGone
  BY <1>8, ToSound
<1>9. CASE Finish
  BY <1>9, FinishSound
<1>10. CASE UNCHANGED vars
  BY <1>1, <1>10, SoundNext DEF vars
<1>11. QED
  BY <1>2, <1>3, <1>4, <1>5, <1>6, <1>7, <1>8, <1>9, <1>10 DEF Next

(* A task without a row satisfies it.                                      *)
LEMMA InitSound == Init => Inv
<1> SUFFICES ASSUME Init PROVE Inv
  OBVIOUS
<1>1. Sound(task)
  BY NoRowSound DEF Init
<1>2. QED
  BY <1>1, SoundIsInv

(* The inductive invariant holds in every reachable state, for every set   *)
(* of tasks, every number of rounds and every observation.                 *)
THEOREM RowInvariant == Spec => []Inv
<1>1. QED
  BY InitSound, StepSound, PTL DEF Spec

(* The row is always a row of the table.                                   *)
THEOREM RowType == Spec => []TypeOK
<1>1. Inv => TypeOK
  BY DEF Inv
<1>2. QED
  BY <1>1, RowInvariant, PTL

(* However checks, retries and the user's own work follow each other, no   *)
(* check runs outside the rounds granted, and no fix is asked for without  *)
(* a round left to check it.                                               *)
THEOREM RoundsAreBounded == Spec => []RoundsBounded
<1>1. Inv => RoundsBounded
  BY DEF Inv
<1>2. QED
  BY <1>1, RowInvariant, PTL

(* The counts the convergence guard compares are those of the rounds they  *)
(* stand for.                                                              *)
THEOREM HistoryIsAligned == Spec => []HistoryAligned
<1>1. Inv => HistoryAligned
  BY DEF Inv
<1>2. QED
  BY <1>1, RowInvariant, PTL

(* No task with a check is accepted without a check that passed.           *)
THEOREM AcceptedHasPassed == Spec => []AcceptedPassed
<1>1. Inv => AcceptedPassed
  BY DEF Inv
<1>2. QED
  BY <1>1, RowInvariant, PTL

(* No task that was never started is checked, fixed, merged or ready.      *)
THEOREM ProgressIsStarted == Spec => []ProgressHasSession
<1>1. Inv => ProgressHasSession
  BY DEF Inv
<1>2. QED
  BY <1>1, RowInvariant, PTL

(* Next leaves a finished task alone.                                      *)
LEMMA NextFinished ==
  ASSUME NEW r \in Rows(Others), Finished(r.phase), NEW x, NEW o
  PROVE  NextMove(Seen(r, x), o).next = Seen(r, x)
<1> DEFINE t == Seen(r, x)
<1>1. t.phase \in {"done", "cancelled"}
  BY SeenFacts DEF Finished
<1> HIDE DEF t
<1>2. NextMove(t, o) = Stay(t)
  BY <1>1 DEF NextMove
<1>3. NextMove(t, o).next = t
  BY <1>2 DEF Stay, Move
<1>4. QED
  BY <1>3 DEF t

(* A finished task is out of the list for good: no observation, retry or   *)
(* command of any process brings a done or cancelled task back.            *)
THEOREM FinishedStays == Spec => FinishedForGood
<1> DEFINE Kept == Finished(task.phase) => task'.phase \in {task.phase, "absent"}
<1>1. TypeOK /\ [Next]_vars => Kept
  <2> SUFFICES ASSUME TypeOK, [Next]_vars, Finished(task.phase) PROVE Kept
    OBVIOUS
  <2>1. task \in Rows(Others) /\ task.phase \in {"done", "cancelled"}
    BY DEF TypeOK, Finished
  <2>2. CASE Withdraw
    BY <2>2 DEF Withdraw, NoRow
  <2>3. CASE RecordSession \/ SetHold
    BY <2>1, <2>3 DEF RecordSession, SetHold, Rows
  <2>4. CASE Observe
    BY <2>1, <2>4, NextFinished DEF Observe, Changed
  <2>5. CASE Launch \/ Retry \/ EffectFails \/ Finish \/ Cancel \/ ClearGone
    BY <2>1, <2>5 DEF Launch, Retry, Resumable, EffectFails, Finish, Cancel, ClearGone
  <2>6. CASE UNCHANGED vars
    BY <2>6 DEF vars
  <2>7. QED
    BY <2>2, <2>3, <2>4, <2>5, <2>6 DEF Next
<1>2. QED
  BY <1>1, RowType, PTL DEF Spec, FinishedForGood, vars

(* A launched task starts at work or waits for the tasks it comes after.   *)
LEMMA LaunchPhase == Launch => task'.phase \in {"running", "waiting"}
<1> SUFFICES ASSUME Launch PROVE task'.phase \in {"running", "waiting"}
  OBVIOUS
<1>1. PICK p \in {"running", "waiting"}, a \in SUBSET Others, c \in CheckSpecs,
           m \in BOOLEAN, h \in BOOLEAN, i \in BOOLEAN :
        task' = NewRow(p, a, c, m, h, i)
  BY DEF Launch, NewRows
<1>2. NewRow(p, a, c, m, h, i).phase = p
  BY DEF NewRow, NoRow
<1>3. QED
  BY <1>1, <1>2

(* How a task with a check comes to merging: from checking with a verdict  *)
(* that passed, or from ready with its last verdict kept.                  *)
Enters(r, u) ==
  \/ u.phase # "merging"
  \/ r.phase = "checking" /\ u.last = "pass"
  \/ r.phase = "ready" /\ u.last = r.last

(* Next moves a task with a check into merging in no other way.            *)
LEMMA NextToMerging ==
  ASSUME NEW r \in Rows(Others), r.phase # "merging", r.check # "", NEW x, NEW o
  PROVE  Enters(r, Back(r, NextMove(Seen(r, x), o).next))
<1> DEFINE t == Seen(r, x)
<1>1. Enters(r, r) /\ \A p, s : p # "merging" => Enters(r, To(r, p, s))
  BY DEF Enters, To, Rows
<1>2. Back(r, t) = r /\ \A p, s : Back(r, To(t, p, s)) = To(r, p, s)
  BY BackSeen, BackTo
<1>3. t.phase = r.phase /\ t.check = r.check
  BY SeenFacts
<1>4. CASE r.phase = "waiting"
  <2>1. NextMove(t, o) = NextWaiting(t, o)
    BY <1>3, <1>4 DEF NextMove
  <2>2. \/ NextWaiting(t, o).next = t
        \/ NextWaiting(t, o).next = To(t, "needs_you", "waiting")
        \/ NextWaiting(t, o).next = To(t, "running", "")
    BY DEF NextWaiting, NeedsYou, Stay, Move
  <2> HIDE DEF t
  <2>3. Enters(r, Back(r, NextMove(t, o).next))
    BY <1>1, <1>2, <2>1, <2>2
  <2>4. QED
    BY <2>3 DEF t
<1>5. CASE r.phase \in {"running", "fixing"}
  <2> DEFINE c == [To(t, "checking", "") EXCEPT !.round = AtLeastOne(t.round)]
  <2>1. NextMove(t, o) = NextWorking(t, o)
    BY <1>3, <1>5 DEF NextMove
  <2>2. Enters(r, Back(r, c))
    BY DEF Enters, Back, Seen, To, Rows
  <2>3. \/ NextWorking(t, o).next = t
        \/ NextWorking(t, o).next = To(t, "needs_you", "waiting")
        \/ NextWorking(t, o).next = To(t, "needs_you", "")
        \/ NextWorking(t, o).next = To(t, "failed", "")
        \/ NextWorking(t, o).next = c
    BY <1>3 DEF NextWorking, LostMove, AfterWork, NeedsYou, Stay, Move
  <2> HIDE DEF t, c
  <2>4. Enters(r, Back(r, NextMove(t, o).next))
    BY <1>1, <1>2, <2>1, <2>2, <2>3
  <2>5. QED
    BY <2>4 DEF t
<1>6. CASE r.phase \in {"needs_you", "failed"}
  <2>1. NextMove(t, o) = NextStopped(t, o)
    BY <1>3, <1>6 DEF NextMove
  <2>2. NextStopped(t, o).next = t \/ NextStopped(t, o).next = To(t, "running", "")
    BY DEF NextStopped, Stay, Move
  <2> HIDE DEF t
  <2>3. Enters(r, Back(r, NextMove(t, o).next))
    BY <1>1, <1>2, <2>1, <2>2
  <2>4. QED
    BY <2>3 DEF t
<1>7. CASE r.phase = "checking"
  <2> DEFINE v == o.verdict
             n == [t EXCEPT !.last = v.kind, !.blocking = History(t, v)]
             w == [To(n, "fixing", "") EXCEPT !.round = t.round + 1]
  <2>1. NextMove(t, o) = NextChecking(t, o)
    BY <1>3, <1>7 DEF NextMove
  <2>2. \A p, s : p # "merging" \/ v.kind = "pass" => Enters(r, Back(r, To(n, p, s)))
    BY <1>7 DEF Enters, Back, Seen, To, Rows
  <2>3. Enters(r, Back(r, w))
    BY DEF Enters, Back, Seen, To, Rows
  <2>4. \/ VerdictMove(t, v, o).next = To(n, "needs_you", "check")
        \/ v.kind = "pass" /\ VerdictMove(t, v, o).next = To(n, "merging", "")
        \/ VerdictMove(t, v, o).next = To(n, "ready", "")
        \/ VerdictMove(t, v, o).next = To(n, "needs_you", "round")
        \/ VerdictMove(t, v, o).next = w
    BY DEF VerdictMove, NeedsYou, Stay, Move
  <2>5. \/ NextChecking(t, o) = VerdictMove(t, v, o)
        \/ NextChecking(t, o).next = To(t, "needs_you", "check")
        \/ NextChecking(t, o).next = t
    BY DEF NextChecking, NeedsYou, Stay, Move
  <2> HIDE DEF t, v, n, w
  <2>6. Enters(r, Back(r, NextMove(t, o).next))
    BY <1>1, <1>2, <2>1, <2>2, <2>3, <2>4, <2>5
  <2>7. QED
    BY <2>6 DEF t
<1>8. CASE r.phase = "ready"
  <2>1. NextMove(t, o) = NextReady(t, o)
    BY <1>3, <1>8 DEF NextMove
  <2>2. NextReady(t, o).next = t \/ NextReady(t, o).next = To(t, "merging", "")
    BY DEF NextReady, Stay, Move
  <2>3. Enters(r, To(r, "merging", ""))
    BY <1>8 DEF Enters, To, Rows
  <2> HIDE DEF t
  <2>4. Enters(r, Back(r, NextMove(t, o).next))
    BY <1>1, <1>2, <2>1, <2>2, <2>3
  <2>5. QED
    BY <2>4 DEF t
<1>9. CASE r.phase \in {"done", "cancelled", "absent"}
  <2>1. NextMove(t, o).next = t
    BY <1>3, <1>9 DEF NextMove, Stay, Move
  <2> HIDE DEF t
  <2>2. Enters(r, Back(r, NextMove(t, o).next))
    BY <1>1, <1>2, <2>1
  <2>3. QED
    BY <2>2 DEF t
<1>10. QED
  BY RowFields, <1>4, <1>5, <1>6, <1>7, <1>8, <1>9 DEF Phases

(* A task with a check is merged on a check that passed, whatever stopped  *)
(* it or took it over in between.                                          *)
THEOREM MergingIsChecked == Spec => MergingEntered
<1> DEFINE Entered ==
      task.phase # "merging" /\ task'.phase = "merging" /\ task.check # ""
      => /\ task'.last = "pass"
         /\ task.phase = "checking" \/ task.phase = "ready" \/ task.step = "merge"
<1>1. Inv /\ [Next]_vars => Entered
  <2> SUFFICES ASSUME Inv, [Next]_vars,
                      task.phase # "merging", task'.phase = "merging", task.check # ""
               PROVE  /\ task'.last = "pass"
                      /\ task.phase = "checking" \/ task.phase = "ready" \/ task.step = "merge"
    OBVIOUS
  <2>1. task \in Rows(Others) /\ AcceptedPassed
    BY DEF Inv, TypeOK
  <2>2. CASE Launch
    BY <2>2, LaunchPhase
  <2>3. CASE Withdraw
    BY <2>3 DEF Withdraw, NoRow
  <2>4. CASE RecordSession \/ SetHold
    BY <2>1, <2>4 DEF RecordSession, SetHold, Rows
  <2>5. CASE EffectFails \/ Finish \/ Cancel \/ ClearGone
    BY <2>1, <2>5 DEF EffectFails, Finish, Cancel, ClearGone, To, Rows
  <2>6. CASE Retry
    <3>1. task.phase = "needs_you" /\ task' = RetryMove(task).next
      BY <2>6 DEF Retry, Resumable
    <3>2. task.step = "merge"
      BY <2>1, <2>6, <3>1 DEF Retry, Resumable, RetryMove, Stay, Move, To, Rows
    <3>3. task'.last = task.last
      BY <2>1, <3>1, <3>2 DEF RetryMove, Move, To, Rows
    <3>4. QED
      BY <2>1, <3>1, <3>2, <3>3 DEF AcceptedPassed
  <2>7. CASE Observe
    <3>1. PICK seen \in {FALSE, task.session}, o \in Observations(task) :
            task' = Back(task, NextMove(Seen(task, seen), o).next)
      BY <2>7 DEF Observe
    <3>2. \/ task.phase = "checking" /\ task'.last = "pass"
          \/ task.phase = "ready" /\ task'.last = task.last
      BY <2>1, <3>1, NextToMerging DEF Enters
    <3>3. QED
      BY <2>1, <3>2 DEF AcceptedPassed
  <2>8. CASE UNCHANGED vars
    BY <2>8 DEF vars
  <2>9. QED
    BY <2>2, <2>3, <2>4, <2>5, <2>6, <2>7, <2>8 DEF Next
<1>2. QED
  BY <1>1, RowInvariant, PTL DEF Spec, MergingEntered, vars

---------------------------------------------------------------------------
(* The convergence guard.  Of a row that was granted no extra round, the   *)
(* rounds judged before the current one each shrank: a verdict replaces    *)
(* the count of its own round only, and asks for a fix only if that one    *)
(* shrank too.                                                             *)
Shrank(h, n) == h[n] < h[n - 1] \/ h[n - 1] < h[n - 2]

Guarded(r) ==
  r.phase # "absent" =>
    /\ r.max >= Rounds
    /\ r.check = "reviewer" /\ r.max = Rounds => \A n \in 3..(r.round - 1) : Shrank(r.blocking, n)

(* What keeps the history and the maximum keeps it.                        *)
LEMMA GuardedSame ==
  ASSUME NEW r, Guarded(r), r.phase # "absent",
         NEW u, u.check = r.check, u.max = r.max, u.blocking = r.blocking,
         u.round = r.round \/ u.round = 1
  PROVE  Guarded(u)
BY DEF Guarded

(* A row moved to another phase is guarded as it was.                      *)
LEMMA GuardedTo ==
  ASSUME NEW r \in Rows(Others), Guarded(r), r.phase # "absent", NEW p, NEW s
  PROVE  Guarded(To(r, p, s))
<1>1. /\ To(r, p, s).check = r.check /\ To(r, p, s).max = r.max
      /\ To(r, p, s).blocking = r.blocking /\ To(r, p, s).round = r.round
  BY DEF To, Rows
<1> QED
  BY <1>1, GuardedSame

(* A verdict keeps the counts of the rounds before its own.                *)
LEMMA HistoryPrefix ==
  ASSUME NEW t \in Rows(Others), NEW v \in Verdicts(Nat),
         t.round >= 1, t.round - 1 <= Len(t.blocking), Len(t.blocking) <= t.round,
         NEW n \in 1..(t.round - 1)
  PROVE  History(t, v)[n] = t.blocking[n]
<1>1. t.blocking \in Seq(Nat) /\ t.round \in Nat /\ v.count \in Nat /\ n \in Nat
  BY DEF Rows, Verdicts
<1>2. CASE v.kind = "error"
  BY <1>2 DEF History
<1>3. CASE v.kind # "error"
  <2> DEFINE k == t.round - 1
  <2>1. k \in 0..Len(t.blocking) /\ n \in 1..k
    BY <1>1
  <2>2. Prefix(t.blocking, k) = SubSeq(t.blocking, 1, k)
    BY <2>1, <1>1 DEF Prefix
  <2>3. /\ SubSeq(t.blocking, 1, k) \in Seq(Nat) /\ Len(SubSeq(t.blocking, 1, k)) = k
        /\ SubSeq(t.blocking, 1, k)[n] = t.blocking[n]
    BY <2>1, <1>1
  <2>4. History(t, v) = Append(SubSeq(t.blocking, 1, k), v.count)
    BY <2>2, <1>3 DEF History
  <2> QED
    BY <2>1, <2>3, <2>4, <1>1
<1> QED
  BY <1>2, <1>3

(* The row a verdict leaves is guarded: the next round begins only when    *)
(* this one is no plateau.                                                 *)
LEMMA GuardedVerdict ==
  ASSUME NEW r, Sound(r), Guarded(r), r.phase = "checking", NEW v \in Verdicts(Nat),
         NEW p, NEW s, NEW k \in {r.round, r.round + 1},
         k # r.round => v.kind # "error" /\ ~Stuck(r, History(r, v))
  PROVE  Guarded([[r EXCEPT !.last = v.kind, !.blocking = History(r, v)]
                    EXCEPT !.phase = p, !.step = s, !.round = k])
<1> DEFINE h == History(r, v)
           u == [[r EXCEPT !.last = v.kind, !.blocking = h] EXCEPT !.phase = p, !.step = s, !.round = k]
<1>1. r \in Rows(Others) /\ r.round \in Nat
  BY DEF Sound, Rows
<1>2. r.round >= 1 /\ r.round - 1 <= Len(r.blocking) /\ Len(r.blocking) <= r.round
  BY DEF Sound
<1>3. \A n \in 1..(r.round - 1) : h[n] = r.blocking[n]
  BY <1>1, <1>2, HistoryPrefix
<1>4. v.kind # "error" => Len(h) = r.round
  BY <1>1, <1>2, HistoryFacts
<1>5. h \in Seq(Nat)
  BY <1>1, <1>2, HistoryFacts
<1>6. k # r.round => (r.check = "reviewer" => ~Plateau(h)) /\ Len(h) = r.round
  BY <1>4 DEF Stuck
<1> HIDE DEF h
<1>7. /\ u.check = r.check /\ u.max = r.max /\ u.blocking = h /\ u.round = k
  BY <1>1 DEF Rows
<1>8. ASSUME r.check = "reviewer", r.max = Rounds, NEW n \in 3..(k - 1)
      PROVE  Shrank(h, n)
  <2>1. CASE n <= r.round - 1
    <3>1. Shrank(r.blocking, n)
      BY <1>1, <1>8, <2>1 DEF Guarded
    <3>2. n \in 1..(r.round - 1) /\ n - 1 \in 1..(r.round - 1) /\ n - 2 \in 1..(r.round - 1)
      BY <1>1, <2>1
    <3> QED
      BY <1>3, <3>1, <3>2 DEF Shrank
  <2>2. CASE n = r.round
    <3>1. Len(h) = n /\ ~Plateau(h)
      BY <1>1, <1>6, <1>8, <2>2
    <3>2. h[n] \in Nat /\ h[n - 1] \in Nat /\ h[n - 2] \in Nat
      BY <1>5, <3>1
    <3> QED
      BY <3>1, <3>2 DEF Plateau, Shrank
  <2> QED
    BY <1>1, <2>1, <2>2
<1> HIDE DEF u
<1>9. Guarded(u)
  <2>1. r.max >= Rounds
    BY DEF Guarded
  <2> QED
    BY <1>7, <1>8, <2>1 DEF Guarded
<1> QED
  BY <1>9 DEF u, h

(* What Next makes of a checking task.                                     *)
LEMMA CheckingGuarded ==
  ASSUME NEW r, Sound(r), Guarded(r), r.phase = "checking",
         NEW x, NEW o, o.verdict \in {NoVerdict} \union Verdicts(Nat)
  PROVE  Guarded(Back(r, NextChecking(Seen(r, x), o).next))
<1> DEFINE t == Seen(r, x)
           v == o.verdict
           b == [r EXCEPT !.last = v.kind, !.blocking = History(r, v)]
           n == [t EXCEPT !.last = v.kind, !.blocking = History(t, v)]
           w == [To(n, "fixing", "") EXCEPT !.round = t.round + 1]
           With(p, s, k) == [b EXCEPT !.phase = p, !.step = s, !.round = k]
<1>1. r \in Rows(Others)
  BY DEF Sound
<1>2. r.round \in Nat /\ t.round = r.round /\ t.blocking = r.blocking /\ t.check = r.check
  BY <1>1, SeenFacts, RowFields
<1>3. CASE v = NoVerdict
  <2>1. \/ NextChecking(t, o).next = t
        \/ NextChecking(t, o).next = To(t, "needs_you", "check")
    BY <1>3 DEF NextChecking, NeedsYou, Stay, Move
  <2>2. Back(r, t) = r /\ Back(r, To(t, "needs_you", "check")) = To(r, "needs_you", "check")
    BY <1>1, BackSeen, BackTo
  <2>3. Guarded(To(r, "needs_you", "check"))
    BY <1>1, GuardedTo
  <2> HIDE DEF t
  <2>4. Guarded(Back(r, NextChecking(t, o).next))
    BY <2>1, <2>2, <2>3
  <2> QED
    BY <2>4 DEF t
<1>4. CASE v # NoVerdict
  <2>1. v \in Verdicts(Nat)
    BY <1>4
  <2>2. NextChecking(t, o) = VerdictMove(t, v, o)
    BY <1>4 DEF NextChecking
  <2>3. History(t, v) = History(r, v) /\ Stuck(t, History(r, v)) = Stuck(r, History(r, v))
    BY <1>2 DEF History, Stuck
  <2>4. n.blocking = History(r, v)
    BY <1>1, <2>3 DEF Seen, Rows
  <2>5. \/ \E p, s : VerdictMove(t, v, o).next = To(n, p, s)
        \/ v.kind # "error" /\ ~Stuck(t, n.blocking) /\ VerdictMove(t, v, o).next = w
    BY DEF VerdictMove, NeedsYou, Stay, Move
  <2>6. \A p, s : Back(r, To(n, p, s)) = With(p, s, r.round)
    BY <1>1, <2>3 DEF Back, Seen, To, Rows
  <2>7. Back(r, w) = With("fixing", "", r.round + 1)
    BY <1>1, <1>2, <2>3 DEF Back, Seen, To, Rows
  <2>8. \A p, s : Guarded(With(p, s, r.round))
    BY <2>1, GuardedVerdict
  <2>9. v.kind # "error" /\ ~Stuck(r, History(r, v)) => Guarded(With("fixing", "", r.round + 1))
    BY <2>1, GuardedVerdict
  <2> HIDE DEF t, v, b, n, w, With
  <2>10. Guarded(Back(r, VerdictMove(t, v, o).next))
    BY <2>3, <2>4, <2>5, <2>6, <2>7, <2>8, <2>9
  <2> QED
    BY <2>2, <2>10 DEF t
<1> QED
  BY <1>3, <1>4

(* What Next makes of a task in any other phase.                           *)
LEMMA NextGuarded ==
  ASSUME NEW r \in Rows(Others), Guarded(r), r.phase \notin {"checking", "absent"}, NEW x, NEW o
  PROVE  Guarded(Back(r, NextMove(Seen(r, x), o).next))
<1> DEFINE t == Seen(r, x)
           c == [To(t, "checking", "") EXCEPT !.round = AtLeastOne(t.round)]
           d == [To(r, "checking", "") EXCEPT !.round = AtLeastOne(r.round)]
<1>1. t.phase = r.phase
  BY SeenFacts
<1>2. \/ NextMove(t, o).next = t
      \/ \E p, s : NextMove(t, o).next = To(t, p, s)
      \/ NextMove(t, o).next = c
  <2>1. CASE r.phase = "waiting"
    BY <1>1, <2>1 DEF NextMove, NextWaiting, NeedsYou, Stay, Move
  <2>2. CASE r.phase \in {"running", "fixing"}
    BY <1>1, <2>2 DEF NextMove, NextWorking, LostMove, AfterWork, NeedsYou, Stay, Move
  <2>3. CASE r.phase = "merging"
    BY <1>1, <2>3 DEF NextMove, NextMerging, Landed, LostMove, NeedsYou, Stay, Move
  <2>4. CASE r.phase \in {"ready", "needs_you", "failed"}
    BY <1>1, <2>4 DEF NextMove, NextReady, NextStopped, Stay, Move
  <2>5. CASE r.phase \in {"done", "cancelled"}
    BY <1>1, <2>5 DEF NextMove, Stay, Move
  <2> QED
    BY RowFields, <2>1, <2>2, <2>3, <2>4, <2>5 DEF Phases
<1>3. Back(r, t) = r /\ \A p, s : Back(r, To(t, p, s)) = To(r, p, s)
  BY BackSeen, BackTo
<1>4. Back(r, c) = d
  BY DEF Back, Seen, To, Rows
<1>5. /\ d.check = r.check /\ d.max = r.max /\ d.blocking = r.blocking
      /\ d.round = r.round \/ d.round = 1
  BY DEF To, Rows, AtLeastOne
<1>6. Guarded(d) /\ \A p, s : Guarded(To(r, p, s))
  BY <1>5, GuardedSame, GuardedTo
<1> HIDE DEF t, c, d
<1>7. Guarded(Back(r, NextMove(t, o).next))
  BY <1>2, <1>3, <1>4, <1>6
<1> QED
  BY <1>7 DEF t

(* Every step keeps it; only a verdict appends to the history, and a retry *)
(* grants a round.                                                         *)
LEMMA StepGuarded == Inv /\ Guarded(task) /\ [Next]_vars => Guarded(task)'
<1> SUFFICES ASSUME Inv, Guarded(task), [Next]_vars PROVE Guarded(task')
  OBVIOUS
<1>1. Sound(task) /\ task \in Rows(Others)
  BY SoundIsInv DEF Sound
<1>2. CASE Launch
  <2>1. PICK p \in {"running", "waiting"}, a \in SUBSET Others, c \in CheckSpecs,
             m \in BOOLEAN, h \in BOOLEAN, i \in BOOLEAN :
          task' = NewRow(p, a, c, m, h, i)
    BY <1>2 DEF Launch, NewRows
  <2>2. NewRow(p, a, c, m, h, i).round = 0 /\ NewRow(p, a, c, m, h, i).max = Rounds
    BY DEF NoRow, NewRow
  <2> QED
    BY <2>1, <2>2, RoundsAssumption DEF Guarded
<1>3. CASE Withdraw
  BY <1>3 DEF Withdraw, NoRow, Guarded
<1>4. CASE RecordSession \/ SetHold \/ Finish
  <2>1. /\ task.phase # "absent"
        /\ task'.check = task.check /\ task'.max = task.max
        /\ task'.blocking = task.blocking /\ task'.round = task.round
    BY <1>1, <1>4 DEF RecordSession, SetHold, Finish, Rows
  <2> QED
    BY <2>1, GuardedSame
<1>5. CASE Cancel \/ ClearGone \/ EffectFails
  <2>1. task.phase # "absent" /\ \E p, s : task' = To(task, p, s)
    BY <1>5 DEF Cancel, ClearGone, EffectFails
  <2> QED
    BY <1>1, <2>1, GuardedTo
<1>6. CASE Retry
  <2>1. task.phase = "needs_you" /\ task' = RetryMove(task).next
    BY <1>6 DEF Retry, Resumable
  <2>2. CASE task.step = "round"
    <3>1. task' = [To(task, "fixing", "") EXCEPT !.max = task.max + 1, !.round = task.round + 1]
      BY <2>1, <2>2 DEF RetryMove, Move
    <3>2. task'.max = task.max + 1
      BY <1>1, <3>1 DEF To, Rows
    <3>3. task.max \in Nat /\ task.max >= Rounds
      BY <1>1, <2>1, RowFields DEF Guarded
    <3> QED
      BY <3>2, <3>3, RoundsAssumption DEF Guarded
  <2>3. CASE task.step # "round"
    <3>1. \E p, s : task' = To(task, p, s)
      BY <1>6, <2>1, <2>3 DEF Retry, Resumable, RetryMove, Stay, Move
    <3> QED
      BY <1>1, <2>1, <3>1, GuardedTo
  <2> QED
    BY <2>2, <2>3
<1>7. CASE Observe
  <2>1. PICK seen \in {FALSE, task.session}, o \in Observations(task) :
          /\ task' = Back(task, NextMove(Seen(task, seen), o).next)
          /\ Changed(Seen(task, seen), NextMove(Seen(task, seen), o))
    BY <1>7 DEF Observe
  <2> DEFINE t == Seen(task, seen)
  <2>2. t.phase = task.phase
    BY <1>1, SeenFacts
  <2>3. CASE task.phase = "checking"
    <3>1. o.verdict \in {NoVerdict} \union Verdicts(Nat)
      BY <2>3, CountsAssumption DEF Observations, When, Verdicts
    <3>2. NextMove(t, o) = NextChecking(t, o)
      BY <2>2, <2>3 DEF NextMove
    <3> QED
      BY <1>1, <2>1, <2>3, <3>1, <3>2, CheckingGuarded
  <2>4. CASE task.phase \notin {"checking", "absent"}
    BY <1>1, <2>1, <2>4, NextGuarded
  <2>5. CASE task.phase = "absent"
    BY <2>1, <2>2, <2>5 DEF NextMove, Stay, Move, Changed
  <2> QED
    BY <2>3, <2>4, <2>5
<1>8. CASE UNCHANGED vars
  BY <1>8 DEF vars
<1> QED
  BY <1>2, <1>3, <1>4, <1>5, <1>6, <1>7, <1>8 DEF Next

(* Until the user grants a round, a worker whose reviewer findings did not *)
(* shrink for two rounds in a row is asked for no other fix: in any number *)
(* of rounds, however checks failed to run, were repeated or followed the  *)
(* user's own work (plateau, nextChecking).                                *)
THEOREM FixesConverge == Spec => []ConvergenceGuard
<1>1. Init => Guarded(task)
  <2>1. NoRow.phase = "absent"
    BY DEF NoRow
  <2>2. Guarded(NoRow)
    BY <2>1 DEF Guarded
  <2> QED
    BY <2>2 DEF Init
<1>2. Inv /\ Guarded(task) => ConvergenceGuard
  <2> SUFFICES ASSUME Inv, Guarded(task),
                      task.phase = "fixing", task.check = "reviewer", task.max = Rounds,
                      NEW n \in 3..Len(task.blocking)
               PROVE  Shrank(task.blocking, n)
    BY DEF ConvergenceGuard, Shrank
  <2>1. Len(task.blocking) = task.round - 1
    BY DEF Inv, HistoryAligned
  <2> QED
    BY <2>1 DEF Guarded
<1> QED
  BY <1>1, <1>2, StepGuarded, RowInvariant, PTL DEF Spec
=============================================================================
