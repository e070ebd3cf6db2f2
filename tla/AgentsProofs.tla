---------------------------- MODULE AgentsProofs ----------------------------
(***************************************************************************)
(* No csquad kills a call another one waits for, for any number of         *)
(* processes and any times with ShareWait + Timeout < OrphanAge: a call is *)
(* at most a wait to share younger than its question, and it has a         *)
(* deadline, so it is never old enough to be swept.  What a command gets   *)
(* was read after it asked, and what a status line shares is older by no   *)
(* more than a call may take: a reading is never older than the wait of    *)
(* the process that has it (Recent).                                       *)
(***************************************************************************)
EXTENDS Agents, TLAPS

ProcRecs == [pc : {"idle", "rests", "asks", "sharing", "started", "calling", "reaped"},
             since : 0..Long, down : 0..DownFor]
CallRecs == [runs : BOOLEAN, recorded : BOOLEAN, served : BOOLEAN, age : 0..Timeout, read : 0..Timeout]
OrphanRecs == [since : 0..Long, recorded : BOOLEAN]
FileRecs == [written : 0..Stale, read : 0..Ancient]

(* TypeOK, its sets of records named.                                      *)
Typed ==
  /\ up \in BOOLEAN /\ crashes \in 0..Crashes
  /\ proc \in [Procs -> ProcRecs] /\ call \in [Procs -> CallRecs]
  /\ orphans \subseteq OrphanRecs /\ file \in FileRecs
Recorded == \A p \in Procs : call[p].recorded => call[p].runs /\ proc[p].pc = "calling"

(* A wait ends in time, and a call is little younger than its question.    *)
Dated == \A p \in Procs :
  /\ proc[p].pc \in {"sharing", "asks", "started"} => proc[p].since <= ShareWait + 1
  /\ proc[p].pc = "started" => call[p].age = 0
  /\ proc[p].pc = "calling" => proc[p].since <= ShareWait + 1 + call[p].age

IInv == Typed /\ Recorded /\ Dated /\ OnlyOrphansKilled

(* What the invariant says of types is the type invariant.                 *)
LEMMA TypedIsTypeOK == Typed /\ Recorded <=> TypeOK
  BY DEF Typed, Recorded, TypeOK, ProcRecs, CallRecs, OrphanRecs, FileRecs

(* The limits are positive, and orphans are older than any wait.           *)
LEMMA Limits ==
  /\ ShareWait \in Nat /\ Timeout \in Nat /\ OrphanAge \in Nat /\ DownFor \in Nat /\ Crashes \in Nat
  /\ ShareWait + 1 + Timeout <= OrphanAge
  /\ Long \in Nat /\ Stale \in Nat /\ Ancient \in Nat
  BY LimitsAssumption DEF Long, Stale, Ancient

(* Every age grows by one, up to where it stops.                           *)
LEMMA OlderFacts ==
  ASSUME NEW n \in Nat, NEW a \in 0..n
  PROVE  Older(a, n) \in 0..n /\ Older(a, n) <= a + 1 /\ (a < n => Older(a, n) = a + 1)
  BY DEF Older

(* A call that was just made is a call.                                    *)
LEMMA NewCall == NoCall \in CallRecs /\ [NoCall EXCEPT !.runs = TRUE] \in CallRecs
<1>1. NoCall \in CallRecs
  BY Limits DEF NoCall, CallRecs
<1> QED
  BY <1>1 DEF CallRecs

(* A recorded call is not expired.                                         *)
LEMMA CallsAreYoung ==
  ASSUME IInv, NEW p \in Procs, call[p].recorded
  PROVE  p \in Running
<1>1. proc[p].pc = "calling" /\ call[p].runs
  BY DEF IInv, Recorded
<1>2. proc[p].since \in Nat /\ call[p].age \in 0..Timeout
  BY DEF IInv, Typed, ProcRecs, CallRecs
<1>3. proc[p].since <= ShareWait + 1 + Timeout
  BY <1>1, <1>2, Limits DEF IInv, Dated
<1> QED
  BY <1>1, <1>2, <1>3, Limits DEF Running, Expired

(* So a sweep changes no call.                                             *)
LEMMA SweepSpares == IInv /\ Sweep => call' = call /\ orphans' \subseteq orphans
<1> SUFFICES ASSUME IInv, Sweep PROVE call' = call /\ orphans' \subseteq orphans
  OBVIOUS
<1>1. \A p \in Procs : ~(call[p].recorded /\ p \notin Running)
  BY CallsAreYoung
<1>2. call \in [Procs -> CallRecs]
  BY DEF IInv, Typed
<1> QED
  BY <1>1, <1>2 DEF Sweep, SweptOrphans

(* At first nothing runs.                                                  *)
LEMMA InitIInv == Init => IInv
<1> SUFFICES ASSUME Init PROVE IInv
  OBVIOUS
<1>1. Typed
  BY Limits, NewCall DEF Init, Typed, ProcRecs, FileRecs
<1> QED
  BY <1>1 DEF Init, IInv, Recorded, Dated, OnlyOrphansKilled, NoCall

(* What a tick does to one process, and to its call.                       *)
LEMMA TickProc ==
  ASSUME IInv, Tick, NEW p \in Procs
  PROVE  /\ proc'[p] \in ProcRecs
         /\ proc'[p].pc = IF proc[p].pc = "rests" THEN "idle" ELSE proc[p].pc
         /\ proc[p].pc \notin {"idle", "rests"} => proc'[p].since <= proc[p].since + 1
<1>1. proc[p] \in ProcRecs
  BY DEF IInv, Typed
<1>2. proc[p].since \in 0..Long /\ proc[p].down \in 0..DownFor
  BY <1>1 DEF ProcRecs
<1>3. /\ Older(proc[p].since, Long) \in 0..Long /\ Older(proc[p].since, Long) <= proc[p].since + 1
      /\ Older(proc[p].down, DownFor) \in 0..DownFor
  BY <1>2, Limits, OlderFacts
<1>4. proc'[p] = [proc[p] EXCEPT
        !.pc = IF @ = "rests" THEN "idle" ELSE @,
        !.since = IF proc[p].pc \in {"idle", "rests"} THEN 0 ELSE Older(@, Long), !.down = Older(@, DownFor)]
  BY DEF Tick
<1>5. 0 \in 0..Long
  BY Limits
<1>6. proc'[p] \in ProcRecs
  BY <1>1, <1>3, <1>4, <1>5 DEF ProcRecs
<1>7. proc'[p].pc = IF proc[p].pc = "rests" THEN "idle" ELSE proc[p].pc
  BY <1>1, <1>4 DEF ProcRecs
<1>8. proc[p].pc \notin {"idle", "rests"} => proc'[p].since = Older(proc[p].since, Long)
  BY <1>1, <1>4 DEF ProcRecs
<1> QED
  BY <1>3, <1>6, <1>7, <1>8

(* Time passes for one call.                                               *)
LEMMA TickCall ==
  ASSUME IInv, Tick, NEW p \in Procs
  PROVE  /\ call'[p] \in CallRecs
         /\ call'[p].runs = call[p].runs /\ call'[p].recorded = call[p].recorded
         /\ call[p].runs /\ call[p].age < Timeout => call'[p].age = call[p].age + 1
<1>1. call[p] \in CallRecs
  BY DEF IInv, Typed
<1>2. call[p].age \in 0..Timeout /\ call[p].read \in 0..Timeout
  BY <1>1 DEF CallRecs
<1>3. /\ Older(call[p].age, Timeout) \in 0..Timeout /\ Older(call[p].read, Timeout) \in 0..Timeout
      /\ call[p].age < Timeout => Older(call[p].age, Timeout) = call[p].age + 1
  BY <1>2, Limits, OlderFacts
<1>4. call'[p] = OlderCall(call[p])
  BY DEF Tick
<1> QED
  BY <1>1, <1>3, <1>4 DEF OlderCall, CallRecs

(* Time passes: nobody waits past their limit.                             *)
LEMMA TickStep == IInv /\ Tick => IInv'
<1> SUFFICES ASSUME IInv, Tick PROVE IInv'
  OBVIOUS
<1>1. orphans' \subseteq OrphanRecs
  <2> SUFFICES ASSUME NEW c \in orphans PROVE [c EXCEPT !.since = Older(@, Long)] \in OrphanRecs
    BY DEF Tick
  <2>1. c \in OrphanRecs /\ c.since \in 0..Long
    BY DEF IInv, Typed, OrphanRecs
  <2>2. Older(c.since, Long) \in 0..Long
    BY <2>1, Limits, OlderFacts
  <2> QED
    BY <2>1, <2>2 DEF OrphanRecs
<1>2. file' \in FileRecs
  <2>1. file.written \in 0..Stale /\ file.read \in 0..Ancient
    BY DEF IInv, Typed, FileRecs
  <2>2. Older(file.written, Stale) \in 0..Stale /\ Older(file.read, Ancient) \in 0..Ancient
    BY <2>1, Limits, OlderFacts
  <2> QED
    BY <2>2 DEF Tick, FileRecs
<1>3. Typed'
  <2>1. proc' = [p \in Procs |-> proc'[p]] /\ call' = [p \in Procs |-> call'[p]] /\ UNCHANGED <<up, crashes>>
    BY DEF Tick
  <2> QED
    BY <1>1, <1>2, <2>1, TickProc, TickCall DEF IInv, Typed
<1>4. Recorded' /\ OnlyOrphansKilled'
  BY TickProc, TickCall DEF IInv, Recorded, OnlyOrphansKilled
<1>5. ASSUME NEW p \in Procs
      PROVE  /\ proc'[p].pc = "sharing" => proc'[p].since <= ShareWait + 1
             /\ proc'[p].pc \notin {"asks", "started"}
             /\ proc'[p].pc = "calling" => proc'[p].since <= ShareWait + 1 + call'[p].age
  <2>1. ~Due(p)
    BY DEF Tick
  <2>2. proc[p].since \in Nat /\ call[p].age \in Nat /\ proc'[p].since \in Nat /\ call'[p].age \in Nat
    BY TickProc, TickCall DEF IInv, Typed, ProcRecs, CallRecs
  <2>3. CASE proc[p].pc = "sharing"
    BY <2>1, <2>2, <2>3, TickProc, Limits DEF Due
  <2>4. CASE proc[p].pc = "calling"
    <3>1. call[p].runs /\ call[p].age < Timeout
      BY <2>1, <2>2, <2>4, Limits DEF Due, IInv, OnlyOrphansKilled
    <3>2. call'[p].age = call[p].age + 1
      BY <3>1, TickCall
    <3>3. proc'[p].since <= proc[p].since + 1 /\ proc'[p].pc = "calling"
      BY <2>4, TickProc
    <3>4. proc[p].since <= ShareWait + 1 + call[p].age
      BY <2>4 DEF IInv, Dated
    <3> QED
      BY <2>2, <3>2, <3>3, <3>4, Limits
  <2> QED
    BY <2>1, <2>3, <2>4, TickProc DEF Due
<1>6. Dated'
  BY <1>5 DEF Dated
<1> QED
  BY <1>3, <1>4, <1>6 DEF IInv

(* A step of one process, which says where it is afterwards.               *)
LEMMA ProcStep ==
  ASSUME IInv, NEW p \in Procs,
         proc' = [proc EXCEPT ![p] = proc'[p]], proc'[p] \in ProcRecs,
         call' = [call EXCEPT ![p] = call'[p]], call'[p] \in CallRecs,
         call'[p].recorded => call'[p].runs /\ proc'[p].pc = "calling",
         proc'[p].pc \in {"sharing", "asks", "started"} => proc'[p].since <= ShareWait + 1,
         proc'[p].pc = "started" => call'[p].age = 0,
         proc'[p].pc = "calling" => proc'[p].since <= ShareWait + 1 + call'[p].age,
         proc'[p].pc \in {"started", "calling"} => call'[p].runs,
         orphans' \subseteq OrphanRecs, file' \in FileRecs, up' \in BOOLEAN, crashes' \in 0..Crashes
  PROVE  IInv'
<1>1. Typed'
  BY DEF IInv, Typed
<1>2. \A q \in Procs \ {p} : proc'[q] = proc[q] /\ call'[q] = call[q]
  BY DEF IInv, Typed
<1>3. Recorded' /\ Dated' /\ OnlyOrphansKilled'
  BY <1>2 DEF IInv, Recorded, Dated, OnlyOrphansKilled
<1> QED
  BY <1>1, <1>3 DEF IInv

(* The steps of the service.                                               *)
LEMMA ServiceStep ==
  ASSUME IInv, Flip \/ ServeOrphan \/ \E p \in Procs : Serve(p)
  PROVE  IInv'
<1>1. CASE Flip \/ ServeOrphan
  <2>1. UNCHANGED <<proc, call, file, crashes>> /\ up' \in BOOLEAN /\ orphans' \subseteq OrphanRecs
    BY <1>1 DEF Flip, ServeOrphan, IInv, Typed
  <2> QED
    BY <2>1 DEF IInv, Typed, Recorded, Dated, OnlyOrphansKilled
<1>2. ASSUME NEW p \in Procs, Serve(p) PROVE IInv'
  <2>1. call'[p] = [call[p] EXCEPT !.served = TRUE, !.read = 0] /\ call[p] \in CallRecs /\ 0 \in 0..Timeout
    BY <1>2, Limits DEF Serve, IInv, Typed
  <2>2. call'[p] \in CallRecs /\ call'[p].runs = call[p].runs /\ call'[p].recorded = call[p].recorded /\ call'[p].age = call[p].age
    BY <2>1 DEF CallRecs
  <2>3. call' = [call EXCEPT ![p] = call'[p]] /\ UNCHANGED <<up, proc, orphans, file, crashes>>
    BY <1>2, <2>1 DEF Serve
  <2>4. proc' = [proc EXCEPT ![p] = proc'[p]]
    BY <2>3 DEF IInv, Typed
  <2> QED
    BY <2>2, <2>3, <2>4, ProcStep DEF IInv, Typed, Recorded, Dated, OnlyOrphansKilled
<1> QED
  BY <1>1, <1>2

(* Asking, sharing and giving up leave the calls alone.                    *)
LEMMA QuestionStep ==
  ASSUME IInv, NEW p \in Procs, Refused(p) \/ Ask(p) \/ ShareCut(p) \/ Share(p)
  PROVE  IInv'
<1>0. proc[p] \in ProcRecs /\ call[p] \in CallRecs /\ 0 \in 0..Long /\ 0 <= ShareWait + 1
  BY Limits DEF IInv, Typed
<1>1. proc[p].pc \in {"idle", "sharing"} /\ UNCHANGED <<up, file, crashes>>
  BY DEF Refused, Ask, ShareCut, Share, ShareAnswer, ShareEnds, ShareGivesUp
<1>2. ~call[p].recorded
  BY <1>1 DEF IInv, Recorded
<1>3. call' = call /\ orphans' \subseteq orphans
  BY SweepSpares DEF Refused, Ask, ShareCut, Share, ShareAnswer, ShareEnds, ShareGivesUp
<1>4. /\ proc' = [proc EXCEPT ![p] = proc'[p]]
      /\ proc'[p] \in ProcRecs /\ proc'[p].pc \in {"rests", "asks", "sharing"}
      /\ proc'[p].pc \in {"asks", "sharing"} => proc'[p].since <= ShareWait + 1
  <2>0. p \in DOMAIN proc
    BY DEF IInv, Typed
  <2>1. CASE Refused(p) \/ ShareCut(p) \/ ShareAnswer(p) \/ ShareGivesUp(p)
    <3>1. proc' = [proc EXCEPT ![p] = [proc[p] EXCEPT !.pc = "rests", !.since = 0]]
      BY <2>0, <2>1 DEF Refused, ShareCut, ShareAnswer, ShareGivesUp, Returns
    <3> QED
      BY <1>0, <2>0, <3>1 DEF ProcRecs
  <2>2. CASE Ask(p)
    <3>1. PICK pc \in {"sharing", "asks"} : proc' = [proc EXCEPT ![p] = [proc[p] EXCEPT !.pc = pc, !.since = 0]]
      BY <2>0, <2>2 DEF Ask
    <3> QED
      BY <1>0, <2>0, <3>1 DEF ProcRecs
  <2>3. CASE ShareEnds(p)
    <3>1. proc' = [proc EXCEPT ![p] = [proc[p] EXCEPT !.pc = "asks"]] /\ proc[p].pc = "sharing"
      BY <2>3 DEF ShareEnds
    <3>2. proc[p].since <= ShareWait + 1
      BY <3>1 DEF IInv, Dated
    <3> QED
      BY <1>0, <2>0, <3>1, <3>2 DEF ProcRecs
  <2> QED
    BY <2>1, <2>2, <2>3 DEF Share
<1>5. call' = [call EXCEPT ![p] = call'[p]] /\ call'[p] \in CallRecs /\ ~call'[p].recorded
  BY <1>0, <1>2, <1>3 DEF IInv, Typed
<1>6. orphans' \subseteq OrphanRecs /\ file' \in FileRecs /\ up' \in BOOLEAN /\ crashes' \in 0..Crashes
  BY <1>1, <1>3 DEF IInv, Typed
<1> QED
  BY <1>4, <1>5, <1>6, ProcStep

(* Starting a call and recording it; its deadline runs from the start.     *)
LEMMA StartStep ==
  ASSUME IInv, NEW p \in Procs, Start(p) \/ Track(p)
  PROVE  IInv'
<1>0. /\ proc[p] \in ProcRecs /\ call[p] \in CallRecs /\ p \in DOMAIN proc /\ p \in DOMAIN call
      /\ proc[p].since \in Nat
  BY DEF IInv, Typed, ProcRecs
<1>1. proc[p].pc \in {"asks", "started"} /\ proc[p].since <= ShareWait + 1
  BY DEF Start, Track, IInv, Dated
<1>2. orphans' \subseteq OrphanRecs /\ file' \in FileRecs /\ up' \in BOOLEAN /\ crashes' \in 0..Crashes
  BY DEF Start, Track, IInv, Typed
<1>3. CASE Start(p)
  <2>1. call' = [call EXCEPT ![p] = call'[p]] /\ call'[p] = [NoCall EXCEPT !.runs = TRUE]
    BY <1>0, <1>3 DEF Start
  <2>2. call'[p] \in CallRecs /\ call'[p].runs /\ ~call'[p].recorded /\ call'[p].age = 0
    BY <2>1, NewCall DEF NoCall
  <2>3. proc' = [proc EXCEPT ![p] = proc'[p]] /\ proc'[p] = [proc[p] EXCEPT !.pc = "started"]
    BY <1>0, <1>3 DEF Start
  <2>4. proc'[p] \in ProcRecs /\ proc'[p].pc = "started" /\ proc'[p].since = proc[p].since
    BY <1>0, <2>3 DEF ProcRecs
  <2> QED
    BY <1>1, <1>2, <2>1, <2>2, <2>3, <2>4, ProcStep
<1>4. CASE Track(p)
  <2>1. call' = [call EXCEPT ![p] = call'[p]] /\ call'[p] = [call[p] EXCEPT !.recorded = TRUE]
    BY <1>0, <1>4 DEF Track
  <2>2. call[p].runs /\ call[p].age = 0
    BY <1>4 DEF Track, IInv, Dated, OnlyOrphansKilled
  <2>3. call'[p] \in CallRecs /\ call'[p].runs /\ call'[p].age = 0
    BY <1>0, <2>1, <2>2 DEF CallRecs
  <2>4. proc' = [proc EXCEPT ![p] = proc'[p]] /\ proc'[p] = [proc[p] EXCEPT !.pc = "calling"]
    BY <1>0, <1>4 DEF Track
  <2>5. proc'[p] \in ProcRecs /\ proc'[p].pc = "calling" /\ proc'[p].since = proc[p].since
    BY <1>0, <2>4 DEF ProcRecs
  <2>6. proc'[p].since <= ShareWait + 1 + call'[p].age
    BY <1>0, <1>1, <2>3, <2>5, Limits
  <2> QED
    BY <1>2, <2>1, <2>3, <2>4, <2>5, <2>6, ProcStep
<1> QED
  BY <1>3, <1>4

(* A call that ends, and a process that dies.                              *)
LEMMA EndStep ==
  ASSUME IInv, NEW p \in Procs, Reap(p) \/ Save(p) \/ TimedOut(p) \/ Fail(p) \/ Crash(p)
  PROVE  IInv'
<1>0. /\ proc[p] \in ProcRecs /\ call[p] \in CallRecs /\ p \in DOMAIN proc /\ p \in DOMAIN call
      /\ 0 \in 0..Long /\ 0 \in 0..DownFor /\ DownFor \in 0..DownFor
  BY Limits DEF IInv, Typed
<1>1. orphans' \subseteq OrphanRecs
  <2>1. [since |-> proc[p].since, recorded |-> call[p].recorded] \in OrphanRecs
    BY <1>0 DEF ProcRecs, CallRecs, OrphanRecs
  <2> QED
    BY <2>1 DEF Reap, Save, TimedOut, Fail, Crash, IInv, Typed
<1>2. file' \in FileRecs
  <2>1. [written |-> 0, read |-> call[p].read] \in FileRecs
    BY <1>0, Limits DEF CallRecs, FileRecs, Ancient
  <2> QED
    BY <2>1 DEF Reap, Save, TimedOut, Fail, Crash, IInv, Typed
<1>3. up' \in BOOLEAN /\ crashes' \in 0..Crashes
  <2>1. crashes' = crashes \/ (crashes > 0 /\ crashes' = crashes - 1)
    BY DEF Reap, Save, TimedOut, Fail, Crash
  <2>2. up' = up
    BY DEF Reap, Save, TimedOut, Fail, Crash
  <2> QED
    BY <2>1, <2>2, Limits DEF IInv, Typed
<1>4. call' = [call EXCEPT ![p] = call'[p]] /\ call'[p] \in CallRecs /\ ~call'[p].recorded
  <2>1. CASE Reap(p)
    <3>1. call' = [call EXCEPT ![p] = call'[p]] /\ call'[p] = [call[p] EXCEPT !.runs = FALSE, !.recorded = FALSE]
      BY <1>0, <2>1 DEF Reap
    <3> QED
      BY <1>0, <3>1 DEF CallRecs
  <2>2. CASE ~Reap(p)
    <3>1. call' = [call EXCEPT ![p] = NoCall]
      BY <2>2 DEF Save, TimedOut, Fail, Crash
    <3> QED
      BY <1>0, <3>1, NewCall DEF NoCall
  <2> QED
    BY <2>1, <2>2
<1>5. proc' = [proc EXCEPT ![p] = proc'[p]] /\ proc'[p] \in ProcRecs /\ proc'[p].pc \in {"rests", "reaped"}
  <2>1. CASE Reap(p)
    BY <1>0, <2>1 DEF Reap, ProcRecs
  <2>2. CASE Save(p)
    <3>1. proc' = [proc EXCEPT ![p] = [proc[p] EXCEPT !.pc = "rests", !.since = 0, !.down = DownFor]]
      BY <1>0, <2>2 DEF Save, Returns
    <3> QED
      BY <1>0, <3>1 DEF ProcRecs
  <2>3. CASE TimedOut(p)
    <3>1. proc' = [proc EXCEPT ![p] = [proc[p] EXCEPT !.pc = "rests", !.since = 0, !.down = 0]]
      BY <1>0, <2>3 DEF TimedOut, Returns
    <3> QED
      BY <1>0, <3>1 DEF ProcRecs
  <2>4. CASE Fail(p)
    <3>1. proc' = [proc EXCEPT ![p] = [proc[p] EXCEPT !.pc = "rests", !.since = 0]]
      BY <1>0, <2>4 DEF Fail, Returns
    <3> QED
      BY <1>0, <3>1 DEF ProcRecs
  <2>5. CASE Crash(p)
    BY <1>0, <2>5 DEF Crash, ProcRecs
  <2> QED
    BY <2>1, <2>2, <2>3, <2>4, <2>5
<1> QED
  BY <1>1, <1>2, <1>3, <1>4, <1>5, ProcStep

(* The invariant is inductive.                                             *)
LEMMA NextIInv == IInv /\ [Next]_vars => IInv'
<1> SUFFICES ASSUME IInv, [Next]_vars PROVE IInv'
  OBVIOUS
<1>1. CASE UNCHANGED vars
  BY <1>1 DEF vars, IInv, Typed, Recorded, Dated, OnlyOrphansKilled
<1>2. CASE Tick
  BY <1>2, TickStep
<1>3. CASE Flip \/ ServeOrphan \/ \E p \in Procs : Serve(p)
  BY <1>3, ServiceStep
<1>4. ASSUME NEW p \in Procs, Refused(p) \/ Ask(p) \/ ShareCut(p) \/ Share(p) PROVE IInv'
  BY <1>4, QuestionStep
<1>5. ASSUME NEW p \in Procs, Make(p) \/ Fail(p) \/ Crash(p) PROVE IInv'
  BY <1>5, StartStep, EndStep DEF Make
<1> QED
  BY <1>1, <1>2, <1>3, <1>4, <1>5 DEF Next

(* The calls, their records and ages keep their types.                     *)
THEOREM AgentsType == Spec => []TypeOK
<1>1. IInv => TypeOK
  BY TypedIsTypeOK DEF IInv
<1> QED
  BY <1>1, InitIInv, NextIInv, PTL DEF Spec

(* A call a living csquad waits for is never swept as an orphan's.         *)
THEOREM SweepKillsOrphansOnly == Spec => []OnlyOrphansKilled
<1>1. IInv => OnlyOrphansKilled
  BY DEF IInv
<1> QED
  BY <1>1, InitIInv, NextIInv, PTL DEF Spec

---------------------------------------------------------------------------
(* What a call reads is read after its process asked; what is kept for     *)
(* others is older than its file by a call's limit at most.                *)
ReadSince == \A p \in Procs : proc[p].pc \in {"started", "calling", "reaped"} => call[p].read <= proc[p].since
FileRead == file.read <= file.written + Timeout
Recent == ReadSince /\ FileRead

(* A tick makes the reading no older than the question, ...                *)
LEMMA TickReads == IInv /\ Recent /\ Tick => Recent'
<1> SUFFICES ASSUME IInv, Recent, Tick PROVE Recent'
  OBVIOUS
<1>1. ASSUME NEW p \in Procs, proc'[p].pc \in {"started", "calling", "reaped"}
      PROVE  call'[p].read <= proc'[p].since
  <2>a. ~Due(p)
    BY DEF Tick
  <2>b. proc[p].pc \in {"started", "calling", "reaped"}
    BY <1>1, TickProc
  <2>1. proc[p].pc = "calling"
    BY <2>a, <2>b DEF Due
  <2>2. call[p].read <= proc[p].since /\ call[p] \in CallRecs /\ proc[p] \in ProcRecs
    BY <2>1 DEF Recent, ReadSince, IInv, Typed
  <2>3. call[p].read \in 0..Timeout /\ proc[p].since \in 0..Long
    BY <2>2 DEF CallRecs, ProcRecs
  <2>4. call'[p].read \in {call[p].read, Older(call[p].read, Timeout)}
    BY <2>2 DEF Tick, OlderCall, CallRecs
  <2>5. proc'[p].since = Older(proc[p].since, Long)
    BY <2>1, <2>2 DEF Tick, ProcRecs
  <2> QED
    BY <2>2, <2>3, <2>4, <2>5, Limits DEF Older, Long
<1>2. file'.read <= file'.written + Timeout
  <2>1. file.written \in 0..Stale /\ file.read \in 0..Ancient /\ file.read <= file.written + Timeout
    BY DEF IInv, Typed, FileRecs, Recent, FileRead
  <2>2. file'.written = Older(file.written, Stale) /\ file'.read = Older(file.read, Ancient)
    BY DEF Tick
  <2> QED
    BY <2>1, <2>2, Limits DEF Older, Stale, Ancient
<1> QED
  BY <1>1, <1>2 DEF Recent, ReadSince, FileRead

(* ... a step of a process starts from no reading or keeps the one it has, *)
(* and what is saved is no older than a call may take.                     *)
LEMMA NextReads == IInv /\ Recent /\ [Next]_vars => Recent'
<1> SUFFICES ASSUME IInv, Recent, [Next]_vars PROVE Recent'
  OBVIOUS
<1>1. CASE UNCHANGED vars
  BY <1>1 DEF vars, Recent, ReadSince, FileRead
<1>2. CASE Tick
  BY <1>2, TickReads
<1>3. CASE Flip \/ ServeOrphan
  BY <1>3 DEF Flip, ServeOrphan, Recent, ReadSince, FileRead
<1>4. ASSUME NEW p \in Procs, Serve(p) \/ Refused(p) \/ Ask(p) \/ ShareCut(p) \/ Share(p) \/ Make(p) \/ Fail(p) \/ Crash(p)
      PROVE  Recent'
  <2>0. proc[p] \in ProcRecs /\ call[p] \in CallRecs /\ Procs = DOMAIN proc /\ Procs = DOMAIN call
    BY DEF IInv, Typed
  <2>1. \A q \in Procs \ {p} : proc'[q] = proc[q] /\ call'[q] = call[q]
    <3>1. CASE Ask(p) \/ Share(p)
      <4>1. call' = call /\ \E r : proc' = [proc EXCEPT ![p] = r]
        <5>1. CASE Ask(p)
          BY <5>1, SweepSpares DEF Ask
        <5>2. CASE ShareAnswer(p)
          BY <5>2 DEF ShareAnswer, Returns
        <5>3. CASE ShareEnds(p)
          BY <5>3, SweepSpares DEF ShareEnds
        <5>4. CASE ShareGivesUp(p)
          BY <5>4, SweepSpares DEF ShareGivesUp, Returns
        <5> QED
          BY <3>1, <5>1, <5>2, <5>3, <5>4 DEF Share
      <4> QED
        BY <4>1
    <3>2. CASE Serve(p) \/ Refused(p) \/ ShareCut(p) \/ Fail(p) \/ Crash(p)
      BY <2>0, <3>2 DEF Serve, Refused, ShareCut, Fail, Crash, Returns
    <3>3. CASE Make(p)
      BY <2>0, <3>3 DEF Make, Start, Track, Reap, Save, TimedOut, Returns
    <3> QED
      BY <1>4, <3>1, <3>2, <3>3
  <2>2. proc'[p].pc \in {"started", "calling", "reaped"} => call'[p].read <= proc'[p].since
    <3>1. CASE Serve(p)
      <4>1. call'[p] = [call[p] EXCEPT !.served = TRUE, !.read = 0] /\ proc' = proc
        BY <2>0, <3>1 DEF Serve
      <4>2. call'[p].read = 0 /\ proc'[p].since >= 0
        BY <2>0, <4>1 DEF CallRecs, ProcRecs
      <4> QED
        BY <4>2
    <3>2. CASE Start(p)
      <4>1. call'[p].read = 0 /\ proc'[p].since >= 0
        BY <2>0, <3>2 DEF Start, NoCall, ProcRecs
      <4> QED
        BY <4>1
    <3>3. CASE Track(p) \/ Reap(p)
      <4>1. call'[p].read = call[p].read /\ proc'[p].since = proc[p].since /\ proc[p].pc \in {"started", "calling"}
        <5>1. CASE Track(p)
          BY <2>0, <5>1 DEF Track, CallRecs, ProcRecs
        <5>2. CASE Reap(p)
          BY <2>0, <5>2 DEF Reap, CallRecs, ProcRecs
        <5> QED
          BY <3>3, <5>1, <5>2
      <4> QED
        BY <4>1 DEF Recent, ReadSince
    <3>4. CASE Ask(p)
      BY <2>0, <3>4 DEF Ask, ProcRecs
    <3>5. CASE ShareEnds(p)
      BY <2>0, <3>5 DEF ShareEnds, ProcRecs
    <3>6. CASE Refused(p) \/ ShareCut(p) \/ ShareAnswer(p) \/ ShareGivesUp(p)
      BY <2>0, <3>6 DEF Refused, ShareCut, ShareAnswer, ShareGivesUp, Returns, ProcRecs
    <3>7. CASE Save(p) \/ TimedOut(p) \/ Fail(p) \/ Crash(p)
      <4>1. CASE Save(p) \/ TimedOut(p)
        <5>1. \E d : proc' = [proc EXCEPT ![p] = [proc[p] EXCEPT !.pc = "rests", !.since = 0, !.down = d]]
          BY <2>0, <4>1 DEF Save, TimedOut, Returns
        <5> QED
          BY <2>0, <5>1 DEF ProcRecs
      <4>2. CASE Fail(p)
        BY <2>0, <4>2 DEF Fail, Returns, ProcRecs
      <4>3. CASE Crash(p)
        BY <2>0, <4>3 DEF Crash
      <4> QED
        BY <3>7, <4>1, <4>2, <4>3
    <3> QED
      BY <1>4, <3>1, <3>2, <3>3, <3>4, <3>5, <3>6, <3>7 DEF Share, Make
  <2>3. FileRead'
    <3>1. CASE Save(p)
      <4>1. file' = [written |-> 0, read |-> call[p].read] /\ call[p].read \in 0..Timeout
        BY <2>0, <3>1 DEF Save, CallRecs
      <4> QED
        BY <4>1, Limits DEF FileRead
    <3>2. CASE ~Save(p)
      <4>1. file' = file
        BY <1>4, <3>2
           DEF Serve, Refused, Ask, ShareCut, Share, ShareAnswer, ShareEnds, ShareGivesUp,
               Make, Start, Track, Reap, TimedOut, Fail, Crash
      <4> QED
        BY <4>1 DEF Recent, FileRead
    <3> QED
      BY <3>1, <3>2
  <2> QED
    BY <2>1, <2>2, <2>3 DEF Recent, ReadSince
<1> QED
  BY <1>1, <1>2, <1>3, <1>4 DEF Next

(* A command's list was read since it asked, and the list a status line    *)
(* shares at most a call's limit before, however calls overlap             *)
(* (agents.go:154, 221).                                                   *)
THEOREM AnswersStayRecent == Spec => AnswersAreRecent
<1>1. Init => Recent
  <2> SUFFICES ASSUME Init PROVE Recent
    OBVIOUS
  <2>1. ReadSince
    BY DEF Init, ReadSince
  <2>2. FileRead
    BY Limits DEF Init, FileRead, Stale, Ancient
  <2> QED
    BY <2>1, <2>2 DEF Recent
<1>2. ASSUME IInv, Recent, [Next]_vars, NEW p \in Procs
      PROVE  /\ Save(p) => call[p].read <= proc[p].since
             /\ ShareAnswer(p) => file.read <= proc[p].since + Timeout
  <2>1. Save(p) => call[p].read <= proc[p].since
    BY <1>2 DEF Save, Recent, ReadSince
  <2>2. ShareAnswer(p) => file.read <= proc[p].since + Timeout
    <3>1. file.written \in Nat /\ file.read \in Nat /\ proc[p].since \in Nat
      BY <1>2 DEF IInv, Typed, FileRecs, ProcRecs
    <3> QED
      BY <1>2, <3>1, Limits DEF ShareAnswer, FreshFor, Recent, FileRead
  <2> QED
    BY <2>1, <2>2
<1>3. IInv /\ Recent /\ [Next]_vars =>
        [\A p \in Procs : /\ Save(p) => call[p].read <= proc[p].since
                          /\ ShareAnswer(p) => file.read <= proc[p].since + Timeout]_vars
  BY <1>2
<1> QED
  BY <1>1, <1>3, InitIInv, NextIInv, NextReads, PTL DEF Spec, AnswersAreRecent
=============================================================================
