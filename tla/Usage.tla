------------------------------- MODULE Usage --------------------------------
(***************************************************************************)
(* The token usage of a Claude Code session, read from its transcript a    *)
(* piece at a time.  A message stands on several lines and its last line   *)
(* counts; the newest messages stay open to another line, older ones are   *)
(* folded into a total.  Where a reading stopped is kept in a file that    *)
(* every csquad process reads and replaces, while the session goes on      *)
(* writing its transcript and may rewrite it.                              *)
(*                                                                         *)
(* A sum of usages is how often it has each line in it, so it tells what   *)
(* was counted.  Sizes and offsets are in complete lines: the reader       *)
(* leaves a line that is still being written.  Bytes that were compared by *)
(* their checksum are compared by the line they end with.                  *)
(***************************************************************************)
EXTENDS Naturals, SequencesExt

CONSTANTS
  Readers,    \* csquad processes that may read the usage at a time
  Ids,        \* messages, numbered from 1 in the order they begin
  RecentIDs,  \* how many of the newest messages stay open
  CtxEvery,   \* lines between looks at the reader's time limit
  SaveEvery,  \* lines between saves of the position
  Old,        \* bound: messages written before the first reading
  Lines,      \* bound: lines the session writes
  Rewrites,   \* bound: how often it rewrites its transcript
  Mishaps     \* bound: how many readers are killed, or out of time before
              \* they have read a line

ASSUME UsageAssumption ==
  /\ RecentIDs \in Nat \ {0} /\ CtxEvery \in Nat \ {0} /\ SaveEvery \in Nat \ {0}
  /\ Lines \in Nat /\ Old \in 0..Lines /\ Rewrites \in Nat /\ Mishaps \in Nat
  /\ Ids \subseteq Nat /\ 1..Old \subseteq Ids

VARIABLES
  files,   \* the transcripts: the newest, and rewritten ones still read
  written, \* how many lines the session has written,
  begun,   \* and how many messages
  state,   \* the state file
  reader,  \* the readers
  mishaps

vars == <<files, written, begun, state, reader, mishaps>>

(* A reading: the lines read, what they end with, the total of the folded  *)
(* messages and the recent ones.                                           *)
LineNos == 0..(Lines - 1)
Start == [offset |-> 0, sum |-> 0, total |-> [no \in LineNos |-> 0], recent |-> << >>]

Resting == [pc |-> "idle", file |-> 1, size |-> 0, s |-> Start, sinceCtx |-> 0, sinceSave |-> 0]

Init ==
  /\ files = << [i \in 1..Old |-> [id |-> i, no |-> i - 1]] >>
  /\ written = Old /\ begun = Old
  /\ state = Start
  /\ reader = [p \in Readers |-> Resting]
  /\ mishaps = Mishaps

Newest == Len(files)
Transcript == files[Newest]

---------------------------------------------------------------------------
(* The session.                                                            *)

Line(id) == [id |-> id, no |-> written]

(* Where a message stands first, 0 if it does not.                         *)
First(text, id) == SelectInSeq(text, LAMBDA l : l.id = id)

(* The other messages with lines behind the first line of this one.       *)
Since(text, id) == {text[i].id : i \in (First(text, id) + 1)..Len(text)} \ {id}

(* The lines of a message stand close together: the lines of fewer than    *)
(* RecentIDs other messages stand between its first and its last.          *)
Continues(text, id) ==
  First(text, id) # 0 /\ Cardinality(Since(text, id)) < RecentIDs

Write(id) ==
  /\ written < Lines
  /\ (id = begun + 1) \/ Continues(Transcript, id)
  /\ files' = [files EXCEPT ![Newest] = Append(@, Line(id))]
  /\ written' = written + 1
  /\ begun' = IF id > begun THEN id ELSE begun
  /\ UNCHANGED <<state, reader, mishaps>>

(* The transcript is replaced by one that lacks its first or its last      *)
(* lines; who has it open reads on in the old one.                         *)
Rewrite ==
  /\ Newest <= Rewrites /\ Len(Transcript) > 1
  /\ \/ files' = Append(files, Tail(Transcript))
     \/ \E n \in 1..(Len(Transcript) - 1) : files' = Append(files, SubSeq(Transcript, 1, n))
  /\ UNCHANGED <<written, begun, state, reader, mishaps>>

---------------------------------------------------------------------------
(* take and checksum.                                                      *)

(* A line replaces the count of its message while that is recent.          *)
Take(s, l) ==
  LET i == First(s.recent, l.id)
      open == Append(s.recent, [id |-> l.id, u |-> l.no])
  IN  CASE i # 0 -> [s EXCEPT !.recent[i].u = l.no]
        [] i = 0 /\ Len(open) > RecentIDs -> [s EXCEPT !.total[Head(open).u] = @ + 1, !.recent = Tail(open)]
        [] OTHER -> [s EXCEPT !.recent = open]

Checksum(text, offset) == IF offset = 0 THEN 0 ELSE text[offset].no + 1

Counted(s) ==
  [no \in LineNos |-> s.total[no] + Cardinality({i \in DOMAIN s.recent : s.recent[i].u = no})]

---------------------------------------------------------------------------
(* Usage.                                                                  *)

Reading(p) == files[reader[p].file]

Open(p) ==
  /\ reader[p].pc = "idle"
  /\ reader' = [reader EXCEPT ![p] = [Resting EXCEPT !.pc = "opened", !.file = Newest, !.size = Len(Transcript)]]
  /\ UNCHANGED <<files, written, begun, state, mishaps>>

(* Mutant: only the size is compared.                                      *)
GoesOn_Size(p) == state.offset <= reader[p].size

(* The position kept is of this file: it is not shorter, and reads the     *)
(* same before the offset.                                                 *)
GoesOn(p) ==
  /\ state.offset <= reader[p].size
  /\ Checksum(Reading(p), state.offset) = state.sum

Load(p) ==
  /\ reader[p].pc = "opened"
  /\ reader' = [reader EXCEPT ![p].pc = "reads", ![p].s = IF GoesOn(p) THEN [state EXCEPT !.sum = 0] ELSE Start]
  /\ UNCHANGED <<files, written, begun, state, mishaps>>

LookDue(p) == reader[p].sinceCtx >= CtxEvery \/ reader[p].s.offset = 0

(* Mutant: what a reader cut off has read is dropped.                      *)
CutOff_Drops(p) ==
  /\ reader[p].pc = "reads" /\ LookDue(p)
  /\ IF reader[p].sinceCtx = 0 THEN mishaps > 0 /\ mishaps' = mishaps - 1 ELSE UNCHANGED mishaps
  /\ reader' = [reader EXCEPT ![p] = Resting]
  /\ UNCHANGED <<files, written, begun, state>>

(* The state file is replaced as a whole.                                  *)
Save(p) == state' = [reader[p].s EXCEPT !.sum = Checksum(Reading(p), reader[p].s.offset)]

(* Its time is over: it saves and returns an error.                        *)
CutOff(p) ==
  /\ reader[p].pc = "reads" /\ LookDue(p)
  /\ IF reader[p].sinceCtx = 0 THEN mishaps > 0 /\ mishaps' = mishaps - 1 ELSE UNCHANGED mishaps
  /\ Save(p)
  /\ reader' = [reader EXCEPT ![p] = Resting]
  /\ UNCHANGED <<files, written, begun>>

ReadLine(p) ==
  /\ reader[p].pc = "reads"
  /\ reader[p].s.offset < Len(Reading(p))
  /\ LET r == reader[p]
         due == r.sinceSave >= SaveEvery
         s == [Take(r.s, Reading(p)[r.s.offset + 1]) EXCEPT !.offset = @ + 1]
     IN  /\ IF due THEN Save(p) ELSE UNCHANGED state
         /\ reader' = [reader EXCEPT ![p] = [r EXCEPT
              !.s = s, !.sinceCtx = IF LookDue(p) THEN 1 ELSE @ + 1, !.sinceSave = IF due THEN 1 ELSE @ + 1]]
  /\ UNCHANGED <<files, written, begun, mishaps>>

EndOfFile(p) ==
  /\ reader[p].pc = "reads"
  /\ reader[p].s.offset = Len(Reading(p))
  /\ Save(p)
  /\ reader' = [reader EXCEPT ![p].pc = "returned"]
  /\ UNCHANGED <<files, written, begun, mishaps>>

Return(p) ==
  /\ reader[p].pc = "returned"
  /\ reader' = [reader EXCEPT ![p] = Resting]
  /\ UNCHANGED <<files, written, begun, state, mishaps>>

Crash(p) ==
  /\ reader[p].pc # "idle" /\ mishaps > 0
  /\ reader' = [reader EXCEPT ![p] = Resting]
  /\ mishaps' = mishaps - 1
  /\ UNCHANGED <<files, written, begun, state>>

Next ==
  \/ Rewrite \/ \E id \in Ids : Write(id)
  \/ \E p \in Readers :
       \/ Open(p) \/ Load(p) \/ CutOff(p) \/ ReadLine(p) \/ EndOfFile(p) \/ Return(p) \/ Crash(p)

(* The status line keeps reading.                                          *)
Fairness ==
  \A p \in Readers : WF_vars(Open(p) \/ Load(p) \/ CutOff(p) \/ ReadLine(p) \/ EndOfFile(p) \/ Return(p))

Spec == Init /\ [][Next]_vars
FairSpec == Spec /\ Fairness

---------------------------------------------------------------------------
(* Properties.                                                             *)

(* What the first n lines of a text cost: of each message the last line.   *)
Cost(text, n) ==
  LET last == {i \in 1..n : \A j \in (i + 1)..n : text[j].id # text[i].id}
  IN  [no \in LineNos |-> Cardinality({i \in last : text[i].no = no})]

Texts == Seq([id : Ids, no : LineNos])

Positions ==
  [offset : Nat, sum : Nat, total : [LineNos -> Nat], recent : Seq([id : Ids, u : LineNos])]

ReaderStates ==
  [pc : {"idle", "opened", "reads", "returned"}, file : Nat, size : Nat, s : Positions,
   sinceCtx : Nat, sinceSave : Nat]

TypeOK ==
  /\ files \in Seq(Texts) /\ files # << >>
  /\ written \in 0..Lines /\ begun \in {0} \union Ids
  /\ state \in Positions
  /\ reader \in [Readers -> ReaderStates]
  /\ \A p \in Readers : reader[p].file \in DOMAIN files
  /\ mishaps \in 0..Mishaps

(* A reader that returns has counted each message of its transcript once,  *)
(* by its last line, in everything that was there when it began, whatever  *)
(* it or others read before, saved late, or lost (Usage, SaveState).       *)
EachCountedOnce ==
  \A p \in Readers : reader[p].pc = "returned" =>
    /\ reader[p].s.offset >= reader[p].size
    /\ Counted(reader[p].s) = Cost(Reading(p), reader[p].s.offset)

(* Readers that are always cut off still reach the end of a transcript     *)
(* that rests, and it stays read (saveEvery and the save after a cut).     *)
CatchesUp ==
  <>[](/\ state.offset = Len(Transcript)
       /\ state.sum = Checksum(Transcript, state.offset)
       /\ Counted(state) = Cost(Transcript, state.offset))
=============================================================================
