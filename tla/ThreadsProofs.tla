---------------------------- MODULE ThreadsProofs ----------------------------
(***************************************************************************)
(* A message reaches the thread at most once: SentOnce for any number of   *)
(* processes, turns, hangs and refusals.  What a process set out to send   *)
(* is still before it, or in a request it gave up on, or there: never in   *)
(* two of these, because a connection that broke is not dialled again.     *)
(* And LookIsTrue: a process that looks has noted what kind the thread is  *)
(* of now (Noted), and a thread that is not loaded does not work           *)
(* (Resting), so what it reports fits what the thread was when an answer   *)
(* it rests on was given.                                                  *)
(***************************************************************************)
EXTENDS Threads, FiniteSetTheorems, TLAPS

Sends == {"start", "send"}
Carries == {"steer", "turn/start"}

(* The requests of an operation.                                           *)
Asks(op) ==
  CASE op = "start" -> {"thread/start", "name/set", "turn/start", "archive"}
    [] op = "send" -> {"read", "turns/list", "resume", "steer", "turn/start"}
    [] op = "stop" -> {"turns/list", "interrupt"}
    [] op = "remove" -> {"archive"}
    [] op = "look" -> {"read", "turns/list"}
    [] OTHER -> {}

(* A process at a point of its operation ...                               *)
Placed(c) ==
  /\ c = [op |-> c.op, at |-> c.at, call |-> c.call, open |-> c.open, down |-> c.down,
          id |-> c.id, how |-> c.how]
  /\ c.at = "over" \/ (c.op \in Ops /\ c.at = "dial") \/ (c.op \in Ops /\ c.at \in Asks(c.op))
  /\ c.call \in {"none", "asked", "error"} /\ c.open \in BOOLEAN
  /\ c.call # "none" => c.at \notin {"over", "dial"}

(* ... waits on an open connection only.                                   *)
Connected(c) == c.call = "asked" => c.open

(* The message is still before the process, ...                            *)
Before(c) == c.op \in Sends /\ (c.at = "dial" \/ (c.at # "over" /\ c.open))

(* ... or in a request it gave up on.                                      *)
LateOf(p, reqs) == {r \in reqs : r.by = p /\ r.at \in Carries}

Once(p) == got[p] + Cardinality(LateOf(p, late)) + (IF Before(proc[p]) THEN 1 ELSE 0) <= sent[p]

Typed ==
  /\ proc = [p \in Procs |-> proc[p]] /\ \A p \in Procs : Placed(proc[p]) /\ Connected(proc[p])
  /\ IsFiniteSet(late) /\ \A r \in late : r.by \in Procs /\ r.at \in Requests
  /\ sent \in [Procs -> Nat] /\ got \in [Procs -> Nat]

IInv == Typed /\ \A p \in Procs : Once(p)

---------------------------------------------------------------------------
(* An operation asks only what is its own.                                 *)
LEMMA AsksFacts ==
  /\ \A op \in Ops : Asks(op) \subseteq Requests /\ First(op) \in Asks(op)
  /\ \A op \in Ops \ Sends : Asks(op) \intersect Carries = {}
  /\ \A op : Asks(op) \intersect {"dial", "over"} = {}
<1>1. \A op \in Ops : Asks(op) \subseteq Requests /\ First(op) \in Asks(op)
  BY DEF Ops, Asks, Requests, First
<1>2. \A op \in Ops \ Sends : Asks(op) \intersect Carries = {}
  BY DEF Ops, Asks, Carries, Sends
<1>3. \A op : Asks(op) \intersect {"dial", "over"} = {}
  BY DEF Asks
<1> QED
  BY <1>1, <1>2, <1>3

(* The daemon gives the thread a message on the requests that carry one,   *)
(* and then says so.                                                       *)
LEMMA OutcomeFacts ==
  ASSUME NEW m \in Requests, NEW id
  PROVE  /\ Outcome(m, id).n \in {0, 1}
         /\ Outcome(m, id).n = 1 => m \in Carries /\ Outcome(m, id).ok = "ok"
<1>1. \A ok, t, n : Answer(ok, t, n).n = n /\ Answer(ok, t, n).ok = ok
  BY DEF Answer
<1>2. CASE m \notin Carries
  <2>1. \E ok, t : Served(m, id) = Answer(ok, t, 0)
    <3>1. CASE m \in {"read", "turns/list"}
      BY <3>1 DEF Served
    <3>2. CASE m \in {"thread/start", "resume"}
      BY <3>2 DEF Served
    <3>3. CASE m = "archive"
      BY <3>3 DEF Served
    <3>4. CASE m = "interrupt"
      BY <3>4 DEF Served, Error
    <3>5. CASE m = "name/set"
      BY <3>5 DEF Served
    <3> QED
      BY <1>2, <3>1, <3>2, <3>3, <3>4, <3>5 DEF Requests, Carries
  <2> QED
    BY <1>1, <2>1 DEF Outcome, Unknown
<1>3. CASE m \in Carries
  <2>1. \/ \E ok, t : Served(m, id) = Answer(ok, t, 0)
        \/ \E t : Served(m, id) = Answer("ok", t, 1)
    <3>1. CASE m = "steer"
      BY <3>1 DEF Served, Error
    <3>2. CASE m = "turn/start"
      BY <3>2 DEF Served, Error
    <3> QED
      BY <1>3, <3>1, <3>2 DEF Carries
  <2> QED
    BY <1>1, <1>3, <2>1 DEF Outcome, Unknown
<1> QED
  BY <1>2, <1>3

(* What a process does on an answer: it asks on, or its operation is over; *)
(* it is over once its message was taken.                                  *)
Onwards(c, d) ==
  \/ d.at = "over" /\ d.call = "none" /\ d.open = FALSE
  \/ /\ d.at \in Asks(c.op) /\ d.open = c.open
     /\ d.call = IF c.open THEN "asked" ELSE "error"

(* It asks what belongs to its operation, on the connection it has.        *)
LEMMA OnFacts ==
  ASSUME NEW c, Placed(c), c.call # "none", NEW r, NEW t
  PROVE  /\ Placed(On(c, r, t)) /\ On(c, r, t).op = c.op
         /\ Onwards(c, On(c, r, t)) /\ Connected(On(c, r, t))
         /\ c.op \in Sends /\ c.at \in Carries /\ r = "ok" => On(c, r, t).at = "over"
<1>1. c.op \in Ops /\ c.at \in Asks(c.op)
  BY DEF Placed
<1>0. \A d : Onwards(c, d) => Connected(d)
  BY DEF Onwards, Connected, Placed
<1>2. \A m : /\ Ask(c, m).op = c.op /\ Ask(c, m).at = m /\ Ask(c, m).open = c.open
             /\ Ask(c, m).call = IF c.open THEN "asked" ELSE "error"
             /\ Ask(c, m) = [op |-> c.op, at |-> m, call |-> Ask(c, m).call, open |-> c.open,
                             down |-> c.down, id |-> c.id, how |-> c.how]
  <2> TAKE m
  <2>1. Ask(c, m) = [c EXCEPT !.at = m, !.call = IF c.open THEN "asked" ELSE "error"]
    BY DEF Ask
  <2> DEFINE k == IF c.open THEN "asked" ELSE "error"
  <2>2. Ask(c, m) = [[op |-> c.op, at |-> c.at, call |-> c.call, open |-> c.open, down |-> c.down,
                      id |-> c.id, how |-> c.how] EXCEPT !.at = m, !.call = k]
    BY <2>1 DEF Placed
  <2> HIDE DEF k
  <2>3. Ask(c, m) = [op |-> c.op, at |-> m, call |-> k, open |-> c.open, down |-> c.down,
                     id |-> c.id, how |-> c.how]
    BY <2>2
  <2> QED
    BY <2>3 DEF k
<1>3. \A m \in Asks(c.op) : Placed(Ask(c, m)) /\ Onwards(c, Ask(c, m))
  BY <1>1, <1>2, AsksFacts DEF Placed, Onwards
<1>4. \A m \in Asks(c.op) : \A turn : /\ Placed(AskOf(c, m, turn)) /\ Onwards(c, AskOf(c, m, turn))
                                 /\ AskOf(c, m, turn).op = c.op
  BY <1>1, <1>2, AsksFacts DEF AskOf, Placed, Onwards
<1>5. \A how : Placed(End(c, how)) /\ Onwards(c, End(c, how)) /\ End(c, how).op = c.op /\ End(c, how).at = "over"
  BY DEF End, Over, Placed, Onwards
<1>6. CASE c.op = "start"
  <2>1. /\ \/ \E m \in Asks(c.op) : On(c, r, t) = Ask(c, m)
           \/ \E how : On(c, r, t) = End(c, how)
        /\ c.at \in Carries /\ r = "ok" => \E how : On(c, r, t) = End(c, how)
    BY <1>1, <1>6 DEF On, Start, Asks, Carries
  <2> QED
    BY <1>0, <1>2, <1>3, <1>5, <2>1
<1>7. CASE c.op = "send"
  <2>1. /\ \/ \E m \in Asks(c.op) : On(c, r, t) = Ask(c, m) \/ \E turn : On(c, r, t) = AskOf(c, m, turn)
           \/ \E how : On(c, r, t) = End(c, how)
        /\ c.at \in Carries /\ r = "ok" => \E how : On(c, r, t) = End(c, how)
    BY <1>1, <1>7 DEF On, Send, Asks, Carries
  <2> QED
    BY <1>0, <1>2, <1>3, <1>4, <1>5, <2>1
<1>8. CASE c.op = "stop"
  <2>1. \/ On(c, r, t) = AskOf(c, "interrupt", t.turn) /\ "interrupt" \in Asks(c.op)
        \/ \E how : On(c, r, t) = End(c, how)
    BY <1>1, <1>8 DEF On, Stop, Asks
  <2> QED
    BY <1>0, <1>4, <1>5, <1>8, <2>1 DEF Sends
<1>9. CASE c.op \in {"remove", "look"}
  <2>1. \/ On(c, r, t) = Ask(c, "turns/list") /\ "turns/list" \in Asks(c.op)
        \/ \E how : On(c, r, t) = End(c, how)
    BY <1>1, <1>9 DEF On, Remove, Look, Asks
  <2> QED
    BY <1>0, <1>2, <1>3, <1>5, <1>9, <2>1 DEF Sends
<1> QED
  BY <1>0, <1>1, <1>6, <1>7, <1>8, <1>9 DEF Ops

---------------------------------------------------------------------------
(* What is late: a request more or less.                                   *)
LEMMA LateFacts ==
  ASSUME NEW p, NEW reqs, IsFiniteSet(reqs), NEW r
  PROVE  /\ Cardinality(LateOf(p, reqs)) \in Nat
         /\ LateOf(p, reqs \union {r}) = IF r.by = p /\ r.at \in Carries THEN LateOf(p, reqs) \union {r}
                                         ELSE LateOf(p, reqs)
         /\ Cardinality(LateOf(p, reqs) \union {r}) <= Cardinality(LateOf(p, reqs)) + 1
         /\ Cardinality(LateOf(p, reqs \ {r})) <= Cardinality(LateOf(p, reqs))
         /\ r \in LateOf(p, reqs) => Cardinality(LateOf(p, reqs \ {r})) = Cardinality(LateOf(p, reqs)) - 1
<1>1. IsFiniteSet(LateOf(p, reqs))
  BY FS_Subset DEF LateOf
<1>2. Cardinality(LateOf(p, reqs)) \in Nat
  BY <1>1, FS_CardinalityType
<1>3. LateOf(p, reqs \union {r}) = IF r.by = p /\ r.at \in Carries THEN LateOf(p, reqs) \union {r} ELSE LateOf(p, reqs)
  BY DEF LateOf
<1>4. LateOf(p, reqs \ {r}) = LateOf(p, reqs) \ {r}
  BY DEF LateOf
<1> HIDE DEF LateOf
<1>5. Cardinality(LateOf(p, reqs) \union {r}) <= Cardinality(LateOf(p, reqs)) + 1
  BY <1>1, <1>2, FS_AddElement
<1>6. /\ Cardinality(LateOf(p, reqs) \ {r}) <= Cardinality(LateOf(p, reqs))
      /\ r \in LateOf(p, reqs) => Cardinality(LateOf(p, reqs) \ {r}) = Cardinality(LateOf(p, reqs)) - 1
  BY <1>1, <1>2, FS_RemoveElement
<1> QED
  BY <1>2, <1>3, <1>4, <1>5, <1>6

(* At first nothing was sent.                                              *)
LEMMA InitIInv == Init => IInv
<1> SUFFICES ASSUME Init PROVE IInv
  OBVIOUS
<1>1. late = {} /\ IsFiniteSet(late) /\ \A p : LateOf(p, late) = {}
  BY FS_EmptySet DEF Init, LateOf
<1>2. Cardinality({}) = 0
  BY FS_EmptySet
<1>3. \A p \in Procs : proc[p] = Over("none", "none", FALSE) /\ sent[p] = 0 /\ got[p] = 0
  BY DEF Init
<1>4. Placed(Over("none", "none", FALSE)) /\ Connected(Over("none", "none", FALSE)) /\ ~Before(Over("none", "none", FALSE))
  BY DEF Placed, Connected, Over, Before
<1>5. Typed
  BY <1>1, <1>3, <1>4 DEF Init, Typed
<1>6. \A p \in Procs : got[p] = 0 /\ sent[p] = 0 /\ ~Before(proc[p]) /\ Cardinality(LateOf(p, late)) = 0
  BY <1>1, <1>2, <1>3, <1>4
<1> QED
  BY <1>5, <1>6 DEF IInv, Once

(* One process goes on; what it may still send is no more than before.     *)
LEMMA OneStep ==
  ASSUME IInv, NEW p \in Procs, NEW d, proc' = [proc EXCEPT ![p] = d], Placed(d), Connected(d),
         UNCHANGED <<late, sent>>,
         NEW n \in {0, 1}, got' = [got EXCEPT ![p] = @ + n],
         Before(d) => Before(proc[p]) /\ n = 0,
         n = 1 => Before(proc[p])
  PROVE  IInv'
<1>1. /\ proc' = [q \in Procs |-> IF q = p THEN d ELSE proc[q]]
      /\ got' = [q \in Procs |-> IF q = p THEN got[q] + n ELSE got[q]]
  BY DEF IInv, Typed
<1>2. Typed'
  BY <1>1 DEF IInv, Typed
<1>3. ASSUME NEW q \in Procs PROVE Once(q)'
  <2>1. Once(q) /\ Cardinality(LateOf(q, late)) \in Nat /\ got[q] \in Nat /\ sent[q] \in Nat
    BY LateFacts DEF IInv, Typed
  <2>2. CASE q # p
    BY <1>1, <2>1, <2>2 DEF Once
  <2>3. CASE q = p
    BY <1>1, <2>1, <2>3 DEF Once
  <2> QED
    BY <2>2, <2>3
<1> QED
  BY <1>2, <1>3 DEF IInv

(* A request is carried out: a message it carried is with the thread, and  *)
(* its process sends no other.                                             *)
LEMMA HandleStep == ASSUME IInv, NEW p \in Procs, Handle(p) PROVE IInv'
<1> DEFINE a == Outcome(proc[p].at, proc[p].id)
<1>1. /\ proc[p].call = "asked"
      /\ got' = [got EXCEPT ![p] = @ + a.n] /\ proc' = [proc EXCEPT ![p] = On(@, a.ok, thread)]
      /\ UNCHANGED <<late, sent>>
  BY DEF Handle
<1>2. Placed(proc[p]) /\ proc[p].op \in Ops /\ proc[p].at \in Asks(proc[p].op) /\ proc[p].open
  BY <1>1 DEF IInv, Typed, Placed, Connected
<1>3. a.n \in {0, 1} /\ (a.n = 1 => proc[p].at \in Carries /\ a.ok = "ok")
  BY <1>2, AsksFacts, OutcomeFacts
<1>4. proc[p].at \notin {"over", "dial"} /\ (proc[p].at \in Carries => proc[p].op \in Sends)
  BY <1>2, AsksFacts
<1> HIDE DEF a
<1> DEFINE d == On(proc[p], a.ok, thread)
<1>5. /\ Placed(d) /\ Connected(d) /\ d.op = proc[p].op /\ Onwards(proc[p], d)
      /\ proc[p].op \in Sends /\ proc[p].at \in Carries /\ a.ok = "ok" => d.at = "over"
  BY <1>1, <1>2, OnFacts
<1>6. proc' = [proc EXCEPT ![p] = d]
  BY <1>1
<1> HIDE DEF d
<1>7. d.at # "dial"
  BY <1>2, <1>5, AsksFacts DEF Onwards
<1>8. Before(d) => Before(proc[p]) /\ a.n = 0
  BY <1>2, <1>3, <1>4, <1>5, <1>7 DEF Before
<1>9. a.n = 1 => Before(proc[p])
  BY <1>2, <1>3, <1>4 DEF Before
<1> QED
  BY <1>1, <1>3, <1>5, <1>6, <1>8, <1>9, OneStep

(* A refused request carried nothing.                                      *)
LEMMA ErrorStep == ASSUME IInv, NEW p \in Procs, Refuse(p) \/ FailsAtOnce(p) PROVE IInv'
<1> DEFINE d == On(proc[p], "error", thread)
<1>1. /\ proc[p].call # "none" /\ proc' = [proc EXCEPT ![p] = d]
      /\ UNCHANGED <<late, sent, got>>
  BY DEF Refuse, FailsAtOnce
<1>2. Placed(proc[p]) /\ proc[p].op \in Ops /\ proc[p].at \in Asks(proc[p].op)
  BY <1>1 DEF IInv, Typed, Placed, Connected
<1>3. Placed(d) /\ Connected(d) /\ d.op = proc[p].op /\ Onwards(proc[p], d)
  BY <1>1, <1>2, OnFacts
<1> HIDE DEF d
<1>4. d.at # "dial" /\ proc[p].at # "over"
  BY <1>2, <1>3, AsksFacts DEF Onwards
<1>5. Before(d) => Before(proc[p])
  BY <1>3, <1>4 DEF Before, Onwards
<1> DEFINE n == 0
<1>6. got' = [got EXCEPT ![p] = @ + n]
  BY <1>1 DEF IInv, Typed
<1>7. n \in {0, 1} /\ n = 0 /\ n # 1
  OBVIOUS
<1> HIDE DEF n
<1> QED
  BY <1>1, <1>3, <1>5, <1>6, <1>7, OneStep

(* A request without an answer is late from now on, and with it the        *)
(* message; on the connection that broke none can follow.                  *)
LEMMA TimedOutStep == ASSUME IInv, NEW p \in Procs, TimedOut(p) PROVE IInv'
<1> DEFINE c == [proc[p] EXCEPT !.open = FALSE, !.down = TRUE]
           d == On(c, "error", thread)
           x == [by |-> p, at |-> proc[p].at, id |-> proc[p].id]
<1>1. /\ proc[p].call = "asked" /\ proc' = [proc EXCEPT ![p] = d] /\ late' = late \union {x}
      /\ UNCHANGED <<sent, got>>
  BY DEF TimedOut, GivesUp
<1>2. Placed(proc[p]) /\ proc[p].op \in Ops /\ proc[p].at \in Asks(proc[p].op) /\ proc[p].open
  BY <1>1 DEF IInv, Typed, Placed, Connected
<1>3. x.by = p /\ x.at = proc[p].at
  OBVIOUS
<1>4. c.op = proc[p].op /\ c.at = proc[p].at /\ c.call = "asked" /\ c.open = FALSE
  BY <1>1, <1>2 DEF Placed
<1>5. Placed(c)
  <2>1. c = [[op |-> proc[p].op, at |-> proc[p].at, call |-> proc[p].call, open |-> proc[p].open,
              down |-> proc[p].down, id |-> proc[p].id, how |-> proc[p].how]
                EXCEPT !.open = FALSE, !.down = TRUE]
    BY <1>2 DEF Placed
  <2> HIDE DEF c
  <2>2. c = [op |-> proc[p].op, at |-> proc[p].at, call |-> proc[p].call, open |-> FALSE,
             down |-> TRUE, id |-> proc[p].id, how |-> proc[p].how]
    BY <2>1
  <2> QED
    BY <1>2, <2>2 DEF Placed
<1> HIDE DEF c
<1>6. Placed(d) /\ Connected(d) /\ Onwards(c, d) /\ d.op = c.op
  BY <1>4, <1>5, OnFacts
<1> HIDE DEF d, x
<1>7. ~Before(d)
  BY <1>2, <1>4, <1>6, AsksFacts DEF Onwards, Before
<1>8. x.at \in Requests /\ (x.at \in Carries => Before(proc[p]))
  BY <1>2, <1>3, AsksFacts DEF Before
<1>9. Typed'
  <2>1. IsFiniteSet(late \union {x})
    BY FS_AddElement DEF IInv, Typed
  <2> QED
    BY <1>1, <1>3, <1>6, <1>8, <2>1 DEF IInv, Typed
<1>10. ASSUME NEW q \in Procs PROVE Once(q)'
  <2>1. /\ Once(q) /\ Cardinality(LateOf(q, late)) \in Nat /\ got[q] \in Nat /\ sent[q] \in Nat
        /\ LateOf(q, late') = IF q = p /\ x.at \in Carries THEN LateOf(q, late) \union {x} ELSE LateOf(q, late)
        /\ Cardinality(LateOf(q, late) \union {x}) <= Cardinality(LateOf(q, late)) + 1
        /\ Cardinality(LateOf(q, late')) \in Nat
    BY <1>1, <1>3, <1>9, LateFacts DEF IInv, Typed
  <2>2. CASE q # p
    <3>1. proc'[q] = proc[q] /\ LateOf(q, late') = LateOf(q, late)
      BY <1>1, <2>1, <2>2 DEF IInv, Typed
    <3> QED
      BY <1>1, <2>1, <3>1 DEF Once, Before
  <2>3. CASE q = p
    <3>1. proc'[q] = d
      BY <1>1, <2>3 DEF IInv, Typed
    <3> QED
      BY <1>1, <1>7, <1>8, <2>1, <2>3, <3>1 DEF Once, Before
  <2> QED
    BY <2>2, <2>3
<1> QED
  BY <1>9, <1>10 DEF IInv

(* A late request that is carried out is late no more.                     *)
LEMMA HandleLateStep == ASSUME IInv, HandleLate PROVE IInv'
<1>1. PICK r \in late, n \in {0, 1} :
        /\ late' = late \ {r} /\ got' = [got EXCEPT ![r.by] = @ + n]
        /\ n = 1 => r.at \in Carries
  <2>1. PICK r \in late :
          /\ late' = late \ {r}
          /\ \/ got' = [got EXCEPT ![r.by] = @ + Outcome(r.at, r.id).n]
             \/ got' = got
    BY DEF HandleLate
  <2>2. CASE got' = [got EXCEPT ![r.by] = @ + Outcome(r.at, r.id).n]
    <3> DEFINE n == Outcome(r.at, r.id).n
    <3>1. r.at \in Requests
      BY DEF IInv, Typed
    <3>2. n \in {0, 1} /\ (n = 1 => r.at \in Carries)
      BY <3>1, OutcomeFacts
    <3>3. got' = [got EXCEPT ![r.by] = @ + n]
      BY <2>2
    <3> HIDE DEF n
    <3> QED
      BY <2>1, <3>2, <3>3
  <2>3. CASE got' = got
    <3>1. got = [got EXCEPT ![r.by] = @ + 0]
      BY <2>1 DEF IInv, Typed
    <3> QED
      BY <2>1, <2>3, <3>1
  <2> QED
    BY <2>1, <2>2, <2>3
<1>2. UNCHANGED <<proc, sent>>
  BY DEF HandleLate
<1>3. r.by \in Procs
  BY DEF IInv, Typed
<1>4. Typed'
  <2>1. IsFiniteSet(late \ {r})
    BY FS_RemoveElement DEF IInv, Typed
  <2> QED
    BY <1>1, <1>2, <1>3, <2>1 DEF IInv, Typed
<1>5. ASSUME NEW q \in Procs PROVE Once(q)'
  <2>1. /\ Once(q) /\ Cardinality(LateOf(q, late)) \in Nat /\ got[q] \in Nat /\ sent[q] \in Nat
        /\ Cardinality(LateOf(q, late')) \in Nat
        /\ Cardinality(LateOf(q, late')) <= Cardinality(LateOf(q, late))
        /\ r \in LateOf(q, late) => Cardinality(LateOf(q, late')) = Cardinality(LateOf(q, late)) - 1
    BY <1>1, <1>4, LateFacts DEF IInv, Typed
  <2>2. got'[q] = IF q = r.by THEN got[q] + n ELSE got[q]
    BY <1>1, <1>3 DEF IInv, Typed
  <2>3. q = r.by /\ n = 1 => r \in LateOf(q, late)
    BY <1>1 DEF LateOf
  <2> QED
    BY <1>1, <1>2, <2>1, <2>2, <2>3 DEF Once, Before
<1> QED
  BY <1>4, <1>5 DEF IInv

(* A command that sends sets out with one message.                         *)
LEMMA BeginStep == ASSUME IInv, NEW p \in Procs, Begin(p) PROVE IInv'
<1>1. PICK op \in Ops :
        /\ proc' = [proc EXCEPT ![p] = [Over(op, "none", @.down) EXCEPT !.at = "dial"]]
        /\ sent' = [sent EXCEPT ![p] = @ + (IF op \in Sends THEN 1 ELSE 0)]
  BY DEF Begin, Sends
<1>2. proc[p].at = "over" /\ UNCHANGED <<late, got>>
  BY DEF Begin
<1> DEFINE d == [Over(op, "none", proc[p].down) EXCEPT !.at = "dial"]
<1>3. proc' = [q \in Procs |-> IF q = p THEN d ELSE proc[q]]
  BY <1>1 DEF IInv, Typed
<1>4. Placed(d) /\ Connected(d) /\ d.op = op /\ d.at = "dial"
  <2>1. d = [op |-> op, at |-> "dial", call |-> "none", open |-> FALSE, down |-> proc[p].down,
             id |-> 0, how |-> "none"]
    <3>1. d = [[op |-> op, at |-> "over", call |-> "none", open |-> FALSE, down |-> proc[p].down,
                id |-> 0, how |-> "none"] EXCEPT !.at = "dial"]
      BY DEF Over
    <3> HIDE DEF d
    <3> QED
      BY <3>1
  <2> HIDE DEF d
  <2>2. /\ d.op = op /\ d.at = "dial" /\ d.call = "none" /\ d.open = FALSE
        /\ d.down = proc[p].down /\ d.id = 0 /\ d.how = "none"
    BY <2>1
  <2>3. Placed(d)
    BY <2>1, <2>2 DEF Placed
  <2> QED
    BY <2>2, <2>3 DEF Connected
<1> HIDE DEF d
<1>5. \A q \in Procs : sent'[q] = IF q = p /\ op \in Sends THEN sent[q] + 1 ELSE sent[q]
  BY <1>1 DEF IInv, Typed
<1>6. Typed'
  BY <1>1, <1>2, <1>3, <1>4 DEF IInv, Typed
<1>7. ~Before(proc[p]) /\ (Before(d) => op \in Sends)
  BY <1>2, <1>4 DEF Before
<1>8. ASSUME NEW q \in Procs PROVE Once(q)'
  <2>1. Once(q) /\ Cardinality(LateOf(q, late)) \in Nat /\ got[q] \in Nat /\ sent[q] \in Nat
    BY LateFacts DEF IInv, Typed
  <2>2. CASE q # p
    BY <1>2, <1>3, <1>5, <2>1, <2>2 DEF Once
  <2>3. CASE q = p
    <3>1. proc'[q] = d
      BY <1>3, <2>3
    <3>2. got[q] + Cardinality(LateOf(q, late)) <= sent[q]
      BY <1>7, <2>1, <2>3 DEF Once
    <3>3. got[q] + Cardinality(LateOf(q, late)) + (IF Before(d) THEN 1 ELSE 0) <= sent'[q]
      BY <1>5, <1>7, <2>1, <2>3, <3>2
    <3> QED
      BY <1>2, <3>1, <3>3 DEF Once
  <2> QED
    BY <2>2, <2>3
<1> QED
  BY <1>6, <1>8 DEF IInv

(* The connection is opened once for an operation.                         *)
LEMMA DialStep == ASSUME IInv, NEW p \in Procs, Dial(p) PROVE IInv'
<1>1. proc[p].at = "dial" /\ proc[p].op \in Ops /\ Placed(proc[p]) /\ UNCHANGED <<late, sent, got>>
  BY AsksFacts DEF Dial, IInv, Typed, Placed
<1>2. PICK d : /\ proc' = [proc EXCEPT ![p] = d] /\ Placed(d) /\ Connected(d)
               /\ Before(d) => Before(proc[p])
  <2>1. CASE proc' = [proc EXCEPT ![p] = [@ EXCEPT !.open = TRUE, !.at = First(proc[p].op), !.call = "asked"]]
    <3> DEFINE d == [proc[p] EXCEPT !.open = TRUE, !.at = First(proc[p].op), !.call = "asked"]
    <3>1. d = [op |-> proc[p].op, at |-> First(proc[p].op), call |-> "asked", open |-> TRUE,
               down |-> proc[p].down, id |-> proc[p].id, how |-> proc[p].how]
      <4>1. d = [[op |-> proc[p].op, at |-> proc[p].at, call |-> proc[p].call, open |-> proc[p].open,
                  down |-> proc[p].down, id |-> proc[p].id, how |-> proc[p].how]
                    EXCEPT !.open = TRUE, !.at = First(proc[p].op), !.call = "asked"]
        BY <1>1 DEF Placed
      <4> HIDE DEF d
      <4> QED
        BY <4>1
    <3> HIDE DEF d
    <3>2. Placed(d) /\ Connected(d) /\ d.op = proc[p].op
      BY <1>1, <3>1, AsksFacts DEF Placed, Connected
    <3>3. Before(d) => Before(proc[p])
      BY <1>1, <3>2 DEF Before
    <3> QED
      BY <2>1, <3>2, <3>3 DEF d
  <2>2. CASE proc' = [proc EXCEPT ![p] = Over(@.op, "error", daemon = "hung" /\ ~@.down)]
    <3> DEFINE d == Over(proc[p].op, "error", daemon = "hung" /\ ~proc[p].down)
    <3>1. Placed(d) /\ Connected(d) /\ ~Before(d)
      BY DEF Placed, Connected, Over, Before
    <3> QED
      BY <2>2, <3>1
  <2> QED
    BY <2>1, <2>2 DEF Dial
<1> DEFINE n == 0
<1>3. got' = [got EXCEPT ![p] = @ + n]
  BY <1>1 DEF IInv, Typed
<1>4. n \in {0, 1} /\ n = 0 /\ n # 1
  OBVIOUS
<1> HIDE DEF n
<1> QED
  BY <1>1, <1>2, <1>3, <1>4, OneStep

(* The invariant is inductive.                                             *)
LEMMA NextIInv == IInv /\ [Next]_vars => IInv'
<1> SUFFICES ASSUME IInv, [Next]_vars PROVE IInv'
  OBVIOUS
<1>1. CASE TurnGoesOn \/ Age \/ UserTypes \/ Unload \/ Hang \/ Recover \/ UNCHANGED vars
  <2>1. UNCHANGED <<proc, late, sent, got>>
    BY <1>1 DEF TurnGoesOn, Age, UserTypes, Unload, Hang, Recover, vars
  <2> QED
    BY <2>1 DEF IInv, Typed, Once
<1>2. CASE HandleLate
  BY <1>2, HandleLateStep
<1>3. CASE \E p \in Procs : Begin(p) \/ Dial(p) \/ Handle(p) \/ Refuse(p) \/ TimedOut(p) \/ FailsAtOnce(p)
  BY <1>3, BeginStep, DialStep, HandleStep, ErrorStep, TimedOutStep
<1> QED
  BY <1>1, <1>2, <1>3 DEF Next

(* For any number of processes, turns, hangs and refusals, a message that  *)
(* was sent reaches the thread at most once (Send, the broken connection). *)
THEOREM MessagesArriveOnce == Spec => []SentOnce
<1>1. IInv => SentOnce
  <2> SUFFICES ASSUME IInv, NEW p \in Procs PROVE got[p] <= sent[p]
    BY DEF SentOnce
  <2>1. Once(p) /\ Cardinality(LateOf(p, late)) \in Nat /\ got[p] \in Nat /\ sent[p] \in Nat
    BY LateFacts DEF IInv, Typed
  <2> QED
    BY <2>1 DEF Once
<1> QED
  BY InitIInv, NextIInv, <1>1, PTL DEF Spec

---------------------------------------------------------------------------
(* What a look reports.  A thread that is not loaded does not work; a      *)
(* process that looks has noted what the thread does now.                  *)
Resting(t) ==
  /\ t = [life |-> t.life, named |-> t.named, turn |-> [id |-> t.turn.id, st |-> t.turn.st, old |-> t.turn.old]]
  /\ t.turn.st \in TurnStates
  /\ t.life # "loaded" => ~Works(t)

Kinds == {"works", "rests", "slow", "cut"}

Noted(p) == Looks(p) => Kind(thread) \in was[p]

(* A report is so of a thread of kind k.                                   *)
Fits(how, k) ==
  /\ how \in {"idle", "failed", "gone"} => k \in {"rests", "cut"}
  /\ how = "stopped" => k \in {"rests", "slow"}
  /\ how = "working" => k \in {"works", "cut"}

Told(p) ==
  proc[p].op = "look" /\ proc[p].at = "over" /\ proc[p].how # "error" => \E k \in was[p] : Fits(proc[p].how, k)

LInv ==
  /\ IInv /\ Resting(thread)
  /\ was \in [Procs -> SUBSET Kinds]
  /\ \A p \in Procs : Noted(p) /\ Told(p)

(* What kind of thread works.                                              *)
LEMMA KindFacts ==
  ASSUME NEW t
  PROVE  /\ Kind(t) \in Kinds
         /\ ~Works(t) => Kind(t) \in {"rests", "cut"}
         /\ t.turn.st \in {"runs", "asks"} => Kind(t) = "works"
         /\ t.turn.st = "young" => Kind(t) = IF t.turn.old THEN "slow" ELSE "works"
         /\ t.turn.st = "cut" => Kind(t) = IF t.turn.old THEN "rests" ELSE "cut"
         /\ t.turn.st \notin {"young", "cut", "runs", "asks"} => Kind(t) = "rests"
<1>1. CASE t.turn.st = "young"
  BY <1>1 DEF Kind, Kinds, Works
<1>2. CASE t.turn.st = "cut"
  BY <1>2 DEF Kind, Kinds, Works
<1>3. CASE t.turn.st \notin {"young", "cut"}
  BY <1>3 DEF Kind, Kinds, Works
<1> QED
  BY <1>1, <1>2, <1>3

(* The thread after a change of its life, or of its turn while loaded.     *)
LEMMA RestingFacts ==
  ASSUME NEW t, Resting(t)
  PROVE  /\ Resting([t EXCEPT !.life = "loaded"])
         /\ Resting([t EXCEPT !.named = TRUE])
         /\ ~Works(t) => Resting([t EXCEPT !.life = "unloaded"])
         /\ \A st \in TurnStates : st \notin {"young", "runs", "asks"} => Resting([t EXCEPT !.life = "archived", !.turn.st = st])
         /\ Resting([t EXCEPT !.life = "loaded", !.turn = [id |-> @.id + 1, st |-> "young", old |-> FALSE]])
         /\ \A st \in TurnStates : t.life = "loaded" \/ st \notin {"young", "runs", "asks"} =>
              Resting([t EXCEPT !.turn.st = st])
         /\ t.life = "loaded" => Resting([t EXCEPT !.turn.st = "runs", !.turn.old = FALSE])
         /\ Resting([t EXCEPT !.turn.old = TRUE])
<1> DEFINE R(l, n, w) == [life |-> l, named |-> n, turn |-> w]
           W(i, st, o) == [id |-> i, st |-> st, old |-> o]
           x == t.life  y == t.named  z == t.turn  i == t.turn.id  u == t.turn.st  o == t.turn.old
<1>1. t = R(x, y, z) /\ z = W(i, u, o)
  BY DEF Resting
<1>2. ASSUME NEW l, NEW n, NEW k, NEW st \in TurnStates, NEW a, l = "loaded" \/ st \notin {"young", "runs", "asks"}
      PROVE  Resting(R(l, n, W(k, st, a)))
  BY <1>2 DEF Resting, Works
<1>3. u \in TurnStates /\ (x # "loaded" => u \notin {"young", "runs", "asks"}) /\ (Works(t) <=> u \in {"young", "runs", "asks"})
  BY DEF Resting, Works
<1>4. /\ \A l, n, w, l2 : [R(l, n, w) EXCEPT !.life = l2] = R(l2, n, w)
      /\ \A l, n, w, n2 : [R(l, n, w) EXCEPT !.named = n2] = R(l, n2, w)
      /\ \A l, n, w, w2 : [R(l, n, w) EXCEPT !.turn = w2] = R(l, n, w2)
      /\ \A l, n, w : R(l, n, w).turn = w
  OBVIOUS
<1>5. /\ \A k, st, a, st2 : [W(k, st, a) EXCEPT !.st = st2] = W(k, st2, a)
      /\ \A k, st, a, a2 : [W(k, st, a) EXCEPT !.old = a2] = W(k, st, a2)
      /\ \A k, st, a : W(k, st, a).id = k
  OBVIOUS
<1>6. ASSUME NEW s, NEW st PROVE [s EXCEPT !.turn.st = st] = [s EXCEPT !.turn = [s.turn EXCEPT !.st = st]]
  OBVIOUS
<1>7. ASSUME NEW s, NEW a PROVE [s EXCEPT !.turn.old = a] = [s EXCEPT !.turn = [s.turn EXCEPT !.old = a]]
  OBVIOUS
<1>8. "young" \in TurnStates /\ "runs" \in TurnStates
  BY DEF TurnStates
<1> HIDE DEF x, y, z, i, u, o, R, W
<1>9. Resting([t EXCEPT !.life = "loaded"])
  <2>1. [t EXCEPT !.life = "loaded"] = R("loaded", y, W(i, u, o))
    BY <1>1, <1>4
  <2> QED
    BY <1>2, <1>3, <2>1
<1>10. Resting([t EXCEPT !.named = TRUE])
  <2>1. \A n : Resting([t EXCEPT !.named = n])
    <3> TAKE n
    <3>1. [t EXCEPT !.named = n] = R(x, n, W(i, u, o))
      BY <1>1, <1>4
    <3> QED
      BY <1>2, <1>3, <3>1
  <2> QED
    BY <2>1, Zenon
<1>11. ~Works(t) => Resting([t EXCEPT !.life = "unloaded"])
  <2>1. [t EXCEPT !.life = "unloaded"] = R("unloaded", y, W(i, u, o))
    BY <1>1, <1>4
  <2> QED
    BY <1>2, <1>3, <2>1
<1>12. ASSUME NEW st \in TurnStates, st \notin {"young", "runs", "asks"}
       PROVE  Resting([t EXCEPT !.life = "archived", !.turn.st = st])
  <2> DEFINE a == [t EXCEPT !.life = "archived"]
  <2>1. a = R("archived", y, z) /\ a.turn = z
    BY <1>1, <1>4
  <2>2. [t EXCEPT !.life = "archived", !.turn.st = st] = [a EXCEPT !.turn.st = st]
    OBVIOUS
  <2> HIDE DEF a
  <2>3. [a EXCEPT !.turn.st = st] = R("archived", y, W(i, st, o))
    BY <1>1, <1>4, <1>5, <1>6, <2>1
  <2> QED
    BY <1>2, <1>12, <2>2, <2>3
<1>13. Resting([t EXCEPT !.life = "loaded", !.turn = [id |-> @.id + 1, st |-> "young", old |-> FALSE]])
  <2> DEFINE a == [t EXCEPT !.life = "loaded"]
  <2>1. a = R("loaded", y, z) /\ a.turn = z
    BY <1>1, <1>4
  <2>2. [t EXCEPT !.life = "loaded", !.turn = [id |-> @.id + 1, st |-> "young", old |-> FALSE]]
          = [a EXCEPT !.turn = [id |-> a.turn.id + 1, st |-> "young", old |-> FALSE]]
    OBVIOUS
  <2> HIDE DEF a
  <2>3. \A w : [a EXCEPT !.turn = w] = R("loaded", y, w)
    BY <1>4, <2>1
  <2>4. \A b : [id |-> a.turn.id + 1, st |-> "young", old |-> b] = W(a.turn.id + 1, "young", b)
    BY DEF W
  <2>7. \A k, b : Resting(R("loaded", y, W(k, "young", b)))
    BY <1>2, <1>8
  <2>5. ASSUME NEW b PROVE Resting([a EXCEPT !.turn = [id |-> a.turn.id + 1, st |-> "young", old |-> b]])
    <3> DEFINE w == [id |-> a.turn.id + 1, st |-> "young", old |-> b]
               k == a.turn.id + 1
    <3>1. w = W(k, "young", b)
      BY <2>4
    <3> HIDE DEF w, k
    <3>2. Resting([a EXCEPT !.turn = w])
      BY <2>3, <2>7, <3>1
    <3> QED
      BY <3>2 DEF w
  <2>6. Resting([a EXCEPT !.turn = [id |-> a.turn.id + 1, st |-> "young", old |-> FALSE]])
    BY <2>5, Zenon
  <2> QED
    BY <2>2, <2>6, Zenon
<1>14. ASSUME NEW st \in TurnStates, x = "loaded" \/ st \notin {"young", "runs", "asks"}
       PROVE  Resting([t EXCEPT !.turn.st = st])
  <2>1. [t EXCEPT !.turn.st = st] = R(x, y, W(i, st, o))
    BY <1>1, <1>4, <1>5, <1>6
  <2> QED
    BY <1>2, <1>14, <2>1
<1>15. ASSUME x = "loaded" PROVE Resting([t EXCEPT !.turn.st = "runs", !.turn.old = FALSE])
  <2> DEFINE a == [t EXCEPT !.turn.st = "runs"]
  <2>1. a = R(x, y, W(i, "runs", o)) /\ a.turn = W(i, "runs", o)
    BY <1>1, <1>4, <1>5, <1>6
  <2>2. [t EXCEPT !.turn.st = "runs", !.turn.old = FALSE] = [a EXCEPT !.turn.old = FALSE]
    OBVIOUS
  <2> HIDE DEF a
  <2>3. \A b : [a EXCEPT !.turn.old = b] = R(x, y, W(i, "runs", b))
    BY <1>4, <1>5, <1>7, <2>1
  <2>6. \A b : Resting(R(x, y, W(i, "runs", b)))
    BY <1>2, <1>8, <1>15
  <2>4. \A b : Resting([a EXCEPT !.turn.old = b])
    BY <2>3, <2>6, Zenon
  <2>5. Resting([a EXCEPT !.turn.old = FALSE])
    BY <2>4, Zenon
  <2> QED
    BY <2>2, <2>5, Zenon
<1>16. Resting([t EXCEPT !.turn.old = TRUE])
  <2>1. \A b : [t EXCEPT !.turn.old = b] = R(x, y, W(i, u, b))
    BY <1>1, <1>4, <1>5, <1>7
  <2>2. \A b : Resting(R(x, y, W(i, u, b)))
    BY <1>2, <1>3
  <2> QED
    BY <2>1, <2>2, Zenon
<1> QED
  BY <1>9, <1>10, <1>11, <1>12, <1>13, <1>14, <1>15, <1>16 DEF x

(* A request leaves such a thread; a look leaves it alone, and only finds  *)
(* it missing when it rests.                                               *)
LEMMA ServedRests ==
  ASSUME Resting(thread), NEW m \in Requests, NEW id
  PROVE  /\ Resting(Outcome(m, id).t)
         /\ m \in {"read", "turns/list"} =>
              /\ Outcome(m, id).t = thread
              /\ Outcome(m, id).ok \in {"ok", "notLoaded"}
              /\ Outcome(m, id).ok = "notLoaded" => ~Works(thread)
<1>1. \A ok, t, n : Answer(ok, t, n).t = t /\ Answer(ok, t, n).ok = ok
  BY DEF Answer
<1>2. Unknown.t = thread /\ Unknown.ok = "notLoaded" /\ Error.t = thread
  BY <1>1 DEF Unknown, Error
<1>3. CASE ~Serves(m)
  <2>1. Outcome(m, id) = Unknown /\ (m \in {"read", "turns/list"} => thread.life # "loaded")
    BY <1>3 DEF Outcome, Serves
  <2> QED
    BY <1>2, <2>1 DEF Resting
<1>4. CASE Serves(m)
  <2>0. Outcome(m, id) = Served(m, id)
    BY <1>4 DEF Outcome
  <2>1. CASE m \in {"read", "turns/list"}
    <3>1. Served(m, id) = Answer("ok", thread, 0)
      BY <2>1 DEF Served
    <3> QED
      BY <1>1, <2>0, <3>1
  <2>2. CASE m \in {"thread/start", "resume"}
    <3>1. Served(m, id) = Answer("ok", [thread EXCEPT !.life = "loaded"], 0)
      BY <2>2 DEF Served
    <3>2. Resting([thread EXCEPT !.life = "loaded"])
      BY RestingFacts
    <3> QED
      BY <1>1, <2>0, <2>2, <3>1, <3>2
  <2>3. CASE m = "archive"
    <3> DEFINE v == IF thread.turn.st = "young" THEN "cut" ELSE IF Works(thread) THEN "interrupted" ELSE thread.turn.st
               t == [thread EXCEPT !.life = "archived", !.turn.st = v]
    <3>0. [thread EXCEPT !.life = "archived"].turn.st = thread.turn.st
      BY DEF Resting
    <3>1. Served(m, id) = Answer("ok", t, 0)
      BY <2>3, <3>0 DEF Served
    <3>2. v \in TurnStates /\ v \notin {"young", "runs", "asks"}
      BY DEF Resting, Works, TurnStates
    <3> HIDE DEF v
    <3>3. Resting(t)
      BY <3>2, RestingFacts
    <3> HIDE DEF t
    <3> QED
      BY <1>1, <2>0, <2>3, <3>1, <3>3
  <2>4. CASE m = "name/set"
    <3>1. Served(m, id) = Answer("ok", [thread EXCEPT !.named = TRUE], 0)
      BY <2>4 DEF Served
    <3>2. Resting([thread EXCEPT !.named = TRUE])
      BY RestingFacts
    <3> QED
      BY <1>1, <2>0, <2>4, <3>1, <3>2
  <2>5. CASE m = "steer"
    <3>1. Served(m, id).t = thread
      BY <1>1, <1>2, <2>5 DEF Served
    <3> QED
      BY <2>0, <2>5, <3>1
  <2>6. CASE m = "interrupt"
    <3>1. Served(m, id) \in {Answer("ok", [thread EXCEPT !.turn.st = "interrupted"], 0), Error}
      BY <2>6 DEF Served
    <3>2. Resting([thread EXCEPT !.turn.st = "interrupted"])
      BY RestingFacts DEF TurnStates
    <3> QED
      BY <1>1, <1>2, <2>0, <2>6, <3>1, <3>2
  <2>7. CASE m = "turn/start"
    <3>1. Served(m, id) \in {Answer("ok", thread, 1), Answer("ok", Newer("young"), 1), Error}
      BY <2>7 DEF Served
    <3>2. Resting(Newer("young"))
      BY RestingFacts DEF Newer
    <3> QED
      BY <1>1, <1>2, <2>0, <2>7, <3>1, <3>2
  <2> QED
    BY <2>1, <2>2, <2>3, <2>4, <2>5, <2>6, <2>7 DEF Requests
<1> QED
  BY <1>3, <1>4

(* What a look makes of an answer is so of the thread that answered.       *)
LEMMA LookFacts ==
  ASSUME Resting(thread), NEW c, Placed(c), c.op = "look", c.at \in {"read", "turns/list"},
         NEW r, r \in {"ok", "error"} \/ (r = "notLoaded" /\ ~Works(thread)),
         On(c, r, thread).at = "over"
  PROVE  On(c, r, thread).how # "error" => Fits(On(c, r, thread).how, Kind(thread))
<1>1. On(c, r, thread) = Look(c, r, thread)
  BY DEF On
<1>2. \A how : End(c, how).how = how
  BY DEF End, Over
<1>3. CASE r = "error"
  BY <1>1, <1>2, <1>3 DEF Look
<1>4. CASE r = "notLoaded"
  BY <1>1, <1>2, <1>4, KindFacts DEF Look, Fits
<1>5. CASE r = "ok" /\ c.at = "read"
  <2>1. CASE Type(thread) \notin {"active", "systemError"}
    <3>1. On(c, r, thread) = Ask(c, "turns/list")
      BY <1>1, <1>5, <2>1 DEF Look
    <3> DEFINE k == IF c.open THEN "asked" ELSE "error"
    <3>2. Ask(c, "turns/list") = [[op |-> c.op, at |-> c.at, call |-> c.call, open |-> c.open, down |-> c.down,
                                   id |-> c.id, how |-> c.how] EXCEPT !.at = "turns/list", !.call = k]
      BY DEF Ask, Placed
    <3> HIDE DEF k
    <3>3. Ask(c, "turns/list").at = "turns/list"
      BY <3>2
    <3> QED
      BY <3>1, <3>3
  <2>2. CASE Type(thread) = "active"
    <3>1. On(c, r, thread).how \in {"needs_input", "working"}
      BY <1>1, <1>2, <1>5, <2>2 DEF Look, Live, LiveOf
    <3>2. Kind(thread) = "works"
      BY <2>2, KindFacts DEF Type, Active
    <3> QED
      BY <3>1, <3>2 DEF Fits
  <2>3. CASE Type(thread) = "systemError"
    <3>1. On(c, r, thread).how = "failed"
      BY <1>1, <1>2, <1>5, <2>3 DEF Look, Live, LiveOf
    <3>2. Kind(thread) = "rests"
      BY <2>3, KindFacts DEF Type, Active
    <3> QED
      BY <3>1, <3>2 DEF Fits
  <2> QED
    BY <2>1, <2>2, <2>3
<1>6. CASE r = "ok" /\ c.at = "turns/list"
  <2>1. On(c, r, thread).how = Live("idle", thread.turn)
    BY <1>1, <1>2, <1>6 DEF Look
  <2>2. CASE thread.turn.st \in Bare
    <3>1. On(c, r, thread).how = IF thread.turn.old THEN "stopped" ELSE "working"
      BY <2>1, <2>2 DEF Live, LiveOf, Bare
    <3> QED
      BY <2>2, <3>1, KindFacts DEF Fits, Bare
  <2>3. CASE thread.turn.st \in {"runs", "asks"}
    <3>1. On(c, r, thread).how = "working"
      BY <2>1, <2>3 DEF Live, LiveOf
    <3> QED
      BY <2>3, <3>1, KindFacts DEF Fits
  <2>4. CASE thread.turn.st \notin {"runs", "asks"} \union Bare
    <3>1. On(c, r, thread).how # "working"
      BY <2>1, <2>4 DEF Live, LiveOf
    <3>2. Kind(thread) = "rests"
      BY <2>4, KindFacts DEF Bare
    <3> QED
      BY <3>1, <3>2 DEF Fits
  <2> QED
    BY <2>2, <2>3, <2>4
<1> QED
  BY <1>3, <1>4, <1>5, <1>6

(* A process that looks has noted what the thread does, so noting it again *)
(* changes nothing.                                                        *)
LEMMA NothingNew == ASSUME LInv, UNCHANGED <<thread, was>> PROVE Becomes(thread)
<1>1. \A p \in Procs : was[p] = IF Looks(p) THEN was[p] \union {Kind(thread)} ELSE was[p]
  BY DEF LInv, Noted
<1>2. was = [p \in Procs |-> IF Looks(p) THEN was[p] \union {Kind(thread)} ELSE was[p]]
  BY <1>1 DEF LInv
<1> QED
  BY <1>2 DEF Becomes

(* The thread becomes t while one process goes on to d: who looks notes    *)
(* what t does, and a look that ends tells what the thread did.            *)
LEMMA NotesStep ==
  ASSUME LInv, IInv', NEW t, Resting(t), Becomes(t),
         NEW p \in Procs, NEW d, proc' = [proc EXCEPT ![p] = d],
         d.op = "look" => \/ d = proc[p]
                          \/ /\ Looks(p) /\ d.at # "dial"
                             /\ d.at = "over" /\ d.how # "error" => Fits(d.how, Kind(thread))
  PROVE  LInv'
<1>1. /\ thread' = t
      /\ \A q \in Procs : was'[q] = IF Looks(q) THEN was[q] \union {Kind(t)} ELSE was[q]
      /\ was' \in [Procs -> SUBSET Kinds]
  BY KindFacts DEF Becomes, LInv
<1>2. proc'[p] = d /\ \A q \in Procs : q # p => proc'[q] = proc[q]
  BY DEF LInv, IInv, Typed
<1>3. ASSUME NEW q \in Procs PROVE Looks(q)' => Looks(q)
  BY <1>2 DEF Looks
<1>4. ASSUME NEW q \in Procs PROVE Noted(q)'
  BY <1>1, <1>3 DEF Noted
<1>5. ASSUME NEW q \in Procs PROVE Told(q)'
  <2>1. CASE proc'[q] = proc[q]
    <3>1. Told(q) /\ was[q] \subseteq was'[q]
      BY <1>1 DEF LInv
    <3> QED
      BY <2>1, <3>1 DEF Told
  <2>2. CASE q = p /\ d.op = "look" /\ Looks(p)
    <3>1. Noted(p)
      BY DEF LInv
    <3>2. CASE d = proc[p]
      BY <1>2, <2>1, <2>2, <3>2
    <3>3. CASE d # proc[p]
      BY <1>1, <1>2, <2>2, <3>1, <3>3 DEF Told, Noted
    <3> QED
      BY <3>2, <3>3
  <2> QED
    BY <1>2, <2>1, <2>2 DEF Told
<1> QED
  BY <1>1, <1>4, <1>5 DEF LInv

(* A request is answered: a look goes on, or ends with what it was told.   *)
LEMMA AnswerStep ==
  ASSUME LInv, IInv', NEW p \in Procs, proc[p].call # "none",
         NEW t, Resting(t), Becomes(t), NEW c, c.op = proc[p].op, c.at = proc[p].at, c.call = proc[p].call, Placed(c),
         NEW r, r \in {"ok", "error"} \/ (r = "notLoaded" /\ ~Works(thread)) \/ c.op # "look",
         proc' = [proc EXCEPT ![p] = On(c, r, thread)]
  PROVE  LInv'
<1> DEFINE d == On(c, r, thread)
<1>1. c.op \in Ops /\ c.at \in Asks(c.op)
  BY DEF Placed
<1>2. d.op = c.op /\ Onwards(c, d)
  BY OnFacts
<1>3. d.at # "dial" /\ c.at \notin {"dial", "over"}
  BY <1>1, <1>2, AsksFacts DEF Onwards
<1>4. c.op = "look" => c.at \in {"read", "turns/list"}
  BY <1>1 DEF Asks
<1>5. c.op = "look" /\ d.at = "over" /\ d.how # "error" => Fits(d.how, Kind(thread))
  BY <1>4, LookFacts DEF LInv
<1>6. c.op = "look" => Looks(p)
  BY <1>3 DEF Looks
<1>7. proc' = [proc EXCEPT ![p] = d]
  OBVIOUS
<1> HIDE DEF d
<1> QED
  BY <1>2, <1>3, <1>5, <1>6, <1>7, NotesStep

(* A look notes nothing before it begins to ask.                           *)
LEMMA BeginsStep ==
  ASSUME LInv, IInv', NEW p \in Procs, NEW d, proc' = [proc EXCEPT ![p] = d], thread' = thread,
         NEW x \in SUBSET Kinds, was' = [was EXCEPT ![p] = x],
         d.op = "look" /\ d.at \notin {"dial", "over"} => Kind(thread) \in x,
         d.at = "over" => d.how = "error"
  PROVE  LInv'
<1>1. proc'[p] = d /\ \A q \in Procs : q # p => proc'[q] = proc[q]
  BY DEF LInv, IInv, Typed
<1>2. was' \in [Procs -> SUBSET Kinds] /\ was'[p] = x /\ \A q \in Procs : q # p => was'[q] = was[q]
  BY DEF LInv
<1>3. ASSUME NEW q \in Procs PROVE Noted(q)'
  <2>1. Noted(q)
    BY DEF LInv
  <2> QED
    BY <1>1, <1>2, <2>1 DEF Noted, Looks
<1>4. ASSUME NEW q \in Procs PROVE Told(q)'
  <2>1. Told(q)
    BY DEF LInv
  <2> QED
    BY <1>1, <1>2, <2>1 DEF Told
<1> QED
  BY <1>2, <1>3, <1>4 DEF LInv

(* The invariant holds at first, when nobody looks.                        *)
LEMMA InitLInv == Init => LInv
<1> SUFFICES ASSUME Init PROVE LInv
  OBVIOUS
<1>1. IInv
  BY InitIInv
<1>2. \A p \in Procs : proc[p].op = "none"
  BY DEF Init, Over
<1>3. Resting(thread)
  BY DEF Init, Resting, NoTurn, Works, TurnStates
<1>4. was \in [Procs -> SUBSET Kinds]
  BY DEF Init
<1> QED
  BY <1>1, <1>2, <1>3, <1>4 DEF LInv, Noted, Told, Looks

(* It is kept by every step.                                               *)
LEMMA NextLInv == LInv /\ [Next]_vars => LInv'
<1> SUFFICES ASSUME LInv, [Next]_vars PROVE LInv'
  OBVIOUS
<1>0. IInv /\ IInv' /\ Resting(thread)
  BY NextIInv DEF LInv
<1>1. ASSUME NEW t, Resting(t), Becomes(t), UNCHANGED proc PROVE LInv'
  <2>1. CASE Procs = {}
    BY <1>0, <1>1, <2>1 DEF LInv, Becomes
  <2>2. ASSUME NEW p \in Procs PROVE LInv'
    <3> DEFINE d == proc[p]
    <3>1. proc' = [proc EXCEPT ![p] = d] /\ d = proc[p]
      BY <1>0, <1>1 DEF IInv, Typed
    <3> HIDE DEF d
    <3> QED
      BY <1>0, <1>1, <3>1, NotesStep
  <2> QED
    BY <2>1, <2>2
<1>2. CASE TurnGoesOn
  <2>1. thread.life = "loaded" /\ UNCHANGED proc
    BY <1>0, <1>2 DEF TurnGoesOn, Works, Resting
  <2>2. CASE Becomes([thread EXCEPT !.turn.st = "runs", !.turn.old = FALSE])
    <3>1. Resting([thread EXCEPT !.turn.st = "runs", !.turn.old = FALSE])
      BY <1>0, <2>1, RestingFacts
    <3> QED
      BY <1>1, <2>1, <2>2, <3>1
  <2>3. CASE \E st \in TurnStates : Becomes([thread EXCEPT !.turn.st = st])
    <3>1. PICK st \in TurnStates : Becomes([thread EXCEPT !.turn.st = st])
      BY <2>3
    <3>2. Resting([thread EXCEPT !.turn.st = st])
      BY <1>0, <2>1, RestingFacts
    <3> QED
      BY <1>1, <2>1, <3>1, <3>2
  <2> QED
    BY <1>2, <2>2, <2>3 DEF TurnGoesOn, TurnStates
<1>12. CASE Age
  <2>1. Becomes([thread EXCEPT !.turn.old = TRUE]) /\ UNCHANGED proc
    BY <1>12 DEF Age
  <2>2. Resting([thread EXCEPT !.turn.old = TRUE])
    BY <1>0, RestingFacts
  <2> QED
    BY <1>1, <2>1, <2>2
<1>3. CASE UserTypes
  <2>1. Becomes(Newer("young")) /\ UNCHANGED proc
    BY <1>3 DEF UserTypes
  <2>2. Resting(Newer("young"))
    BY <1>0, RestingFacts DEF Newer
  <2> QED
    BY <1>1, <2>1, <2>2
<1>4. CASE Unload
  <2>1. Becomes([thread EXCEPT !.life = "unloaded"]) /\ ~Works(thread) /\ UNCHANGED proc
    BY <1>4 DEF Unload
  <2>2. Resting([thread EXCEPT !.life = "unloaded"])
    BY <1>0, <2>1, RestingFacts
  <2> QED
    BY <1>1, <2>1, <2>2
<1>5. CASE Hang \/ Recover \/ UNCHANGED vars
  <2>1. UNCHANGED <<thread, proc, was>>
    BY <1>5 DEF Hang, Recover, vars
  <2> QED
    BY <1>0, <1>1, <2>1, NothingNew
<1>6. CASE HandleLate
  <2>1. PICK r \in late : Becomes(Outcome(r.at, r.id).t) \/ UNCHANGED <<thread, got, was>>
    BY <1>6 DEF HandleLate
  <2>2. r.at \in Requests /\ UNCHANGED proc
    BY <1>0, <1>6 DEF IInv, Typed, HandleLate
  <2>3. Resting(Outcome(r.at, r.id).t)
    BY <1>0, <2>2, ServedRests
  <2>4. CASE UNCHANGED <<thread, got, was>>
    BY <1>0, <1>1, <2>2, <2>4, NothingNew
  <2> QED
    BY <1>1, <2>1, <2>2, <2>3, <2>4
<1>7. ASSUME NEW p \in Procs, Begin(p) PROVE LInv'
  <2>1. PICK op \in Ops : proc' = [proc EXCEPT ![p] = [Over(op, "none", @.down) EXCEPT !.at = "dial"]]
    BY <1>7 DEF Begin
  <2> DEFINE d == [Over(op, "none", proc[p].down) EXCEPT !.at = "dial"]
  <2>2. d.at = "dial"
    BY DEF Over
  <2>3. proc' = [proc EXCEPT ![p] = d]
    BY <2>1
  <2> HIDE DEF d
  <2>4. was' = [was EXCEPT ![p] = {}] /\ thread' = thread
    BY <1>7 DEF Begin
  <2> QED
    BY <1>0, <2>2, <2>3, <2>4, BeginsStep
<1>8. ASSUME NEW p \in Procs, Dial(p) PROVE LInv'
  <2> DEFINE x == IF proc[p].op = "look" THEN {Kind(thread)} ELSE {}
  <2>1. was' = [was EXCEPT ![p] = x] /\ thread' = thread
    BY <1>8 DEF Dial
  <2>2. x \in SUBSET Kinds /\ (proc[p].op = "look" => Kind(thread) \in x)
    BY KindFacts
  <2>3. CASE proc' = [proc EXCEPT ![p] = [@ EXCEPT !.open = TRUE, !.at = First(proc[p].op), !.call = "asked"]]
    <3> DEFINE d == [proc[p] EXCEPT !.open = TRUE, !.at = First(proc[p].op), !.call = "asked"]
    <3>1. Placed(proc[p]) /\ proc[p].at = "dial"
      BY <1>0, <1>8 DEF IInv, Typed, Dial
    <3>2. d.op = proc[p].op /\ d.at = First(proc[p].op)
      <4>1. d = [[op |-> proc[p].op, at |-> proc[p].at, call |-> proc[p].call, open |-> proc[p].open,
                  down |-> proc[p].down, id |-> proc[p].id, how |-> proc[p].how]
                    EXCEPT !.open = TRUE, !.at = First(proc[p].op), !.call = "asked"]
        BY <3>1 DEF Placed
      <4> HIDE DEF d
      <4> QED
        BY <4>1
    <3>3. d.at # "over"
      BY <3>1, <3>2, AsksFacts DEF Placed
    <3>4. proc' = [proc EXCEPT ![p] = d]
      BY <2>3
    <3> HIDE DEF d, x
    <3> QED
      BY <1>0, <2>1, <2>2, <3>2, <3>3, <3>4, BeginsStep
  <2>4. CASE proc' = [proc EXCEPT ![p] = Over(@.op, "error", daemon = "hung" /\ ~@.down)]
    <3> DEFINE d == Over(proc[p].op, "error", daemon = "hung" /\ ~proc[p].down)
    <3>1. d.at = "over" /\ d.how = "error"
      BY DEF Over
    <3>2. proc' = [proc EXCEPT ![p] = d]
      BY <2>4
    <3> HIDE DEF d, x
    <3> QED
      BY <1>0, <2>1, <2>2, <3>1, <3>2, BeginsStep
  <2> QED
    BY <1>8, <2>3, <2>4 DEF Dial
<1>9. ASSUME NEW p \in Procs, Handle(p) PROVE LInv'
  <2> DEFINE a == Outcome(proc[p].at, proc[p].id)
  <2>1. Becomes(a.t) /\ proc[p].call = "asked" /\ proc' = [proc EXCEPT ![p] = On(proc[p], a.ok, thread)]
    BY <1>9 DEF Handle
  <2>2. Placed(proc[p]) /\ proc[p].op \in Ops /\ proc[p].at \in Asks(proc[p].op)
    BY <1>0, <2>1 DEF IInv, Typed, Placed
  <2>3. proc[p].at \in Requests /\ (proc[p].op = "look" => proc[p].at \in {"read", "turns/list"})
    BY <2>2, AsksFacts DEF Asks
  <2>4. /\ Resting(a.t)
        /\ a.ok \in {"ok", "error"} \/ (a.ok = "notLoaded" /\ ~Works(thread)) \/ proc[p].op # "look"
    BY <1>0, <2>3, ServedRests
  <2> HIDE DEF a
  <2> DEFINE r == a.ok
             t == a.t
             c == proc[p]
  <2>5. /\ proc[p].call # "none" /\ Resting(t) /\ Becomes(t) /\ c.op = proc[p].op /\ c.at = proc[p].at
        /\ c.call = proc[p].call /\ Placed(c) /\ proc' = [proc EXCEPT ![p] = On(c, r, thread)]
        /\ r \in {"ok", "error"} \/ (r = "notLoaded" /\ ~Works(thread)) \/ c.op # "look"
    BY <2>1, <2>2, <2>4
  <2> HIDE DEF r, t, c
  <2> QED
    BY <1>0, <2>5, AnswerStep
<1>10. ASSUME NEW p \in Procs, Refuse(p) \/ FailsAtOnce(p) PROVE LInv'
  <2>1. /\ UNCHANGED <<thread, was>> /\ proc[p].call # "none"
        /\ proc' = [proc EXCEPT ![p] = On(proc[p], "error", thread)]
    BY <1>10 DEF Refuse, FailsAtOnce
  <2> DEFINE c == proc[p]
             r == "error"
  <2>2. /\ Becomes(thread) /\ Placed(c) /\ c.op = proc[p].op /\ c.at = proc[p].at /\ c.call = proc[p].call
        /\ r = "error" /\ proc' = [proc EXCEPT ![p] = On(c, r, thread)]
    BY <1>0, <2>1, NothingNew DEF IInv, Typed
  <2> HIDE DEF c, r
  <2> QED
    BY <1>0, <2>1, <2>2, AnswerStep
<1>11. ASSUME NEW p \in Procs, TimedOut(p) PROVE LInv'
  <2>1. /\ UNCHANGED <<thread, was>> /\ proc[p].call = "asked"
        /\ proc' = [proc EXCEPT ![p] = On([proc[p] EXCEPT !.open = FALSE, !.down = TRUE], "error", thread)]
    BY <1>11 DEF TimedOut, GivesUp
  <2> DEFINE c == [proc[p] EXCEPT !.open = FALSE, !.down = TRUE]
             r == "error"
  <2>2. Placed(proc[p])
    BY <1>0 DEF IInv, Typed
  <2>3. c = [op |-> proc[p].op, at |-> proc[p].at, call |-> proc[p].call, open |-> FALSE,
             down |-> TRUE, id |-> proc[p].id, how |-> proc[p].how]
    <3>1. c = [[op |-> proc[p].op, at |-> proc[p].at, call |-> proc[p].call, open |-> proc[p].open,
                down |-> proc[p].down, id |-> proc[p].id, how |-> proc[p].how]
                  EXCEPT !.open = FALSE, !.down = TRUE]
      BY <2>2 DEF Placed
    <3> HIDE DEF c
    <3> QED
      BY <3>1
  <2>4. r = "error" /\ proc' = [proc EXCEPT ![p] = On(c, r, thread)] /\ Becomes(thread)
    BY <2>1, NothingNew
  <2> HIDE DEF c, r
  <2>5. Placed(c) /\ c.op = proc[p].op /\ c.at = proc[p].at /\ c.call = proc[p].call
    BY <2>2, <2>3 DEF Placed
  <2> QED
    BY <1>0, <2>1, <2>4, <2>5, AnswerStep
<1> QED
  BY <1>2, <1>3, <1>4, <1>5, <1>6, <1>7, <1>8, <1>9, <1>10, <1>11, <1>12 DEF Next

(* What a look reports was so at some moment while it looked, but for the  *)
(* two mistakes the age test allows (LookIsTrue), for any number of        *)
(* processes, turns, hangs and refusals (States, Live).                    *)
THEOREM LooksAreTrue == Spec => []LookIsTrue
<1>1. LInv => LookIsTrue
  BY DEF LInv, Told, Fits, LookIsTrue
<1> QED
  BY InitLInv, NextLInv, <1>1, PTL DEF Spec
=============================================================================
