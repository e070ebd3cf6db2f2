----------------------------- MODULE UsageProofs -----------------------------
(***************************************************************************)
(* A reader of the usage counts each message of the transcript once, for   *)
(* every number of readers, messages, lines and rewrites.                  *)
(*                                                                         *)
(* The files are a history of one transcript: a rewritten one has lines of *)
(* an older one, in their order, and new ones (Descends), so two of them   *)
(* that have the same line at the same place are the same up to it, and a  *)
(* position kept for one is one of the other.  A message is folded when    *)
(* RecentIDs others have lines after one of its own (Folded), so no line   *)
(* of it can follow (Close), and its total is final.                       *)
(***************************************************************************)
EXTENDS Usage, SequenceTheorems, FiniteSetTheorems, WellFoundedInduction, TLAPS

(* The other messages with lines between two places.                       *)
Between(text, i, j) == {text[k].id : k \in (i + 1)..(j - 1)} \ {text[i].id}

(* The lines of a text are in the order they were written in, those of a   *)
(* message close together.                                                 *)
InOrder(text) == \A i, j \in DOMAIN text : i < j => text[i].no < text[j].no
Close(text) ==
  \A i, j \in DOMAIN text :
    i < j /\ text[i].id = text[j].id => Cardinality(Between(text, i, j)) < RecentIDs

(* The lines of g that f has too: g is f without some first lines, up to   *)
(* there.                                                                  *)
Descends(g, f) ==
  \A i \in DOMAIN g, j \in DOMAIN f :
    g[i].no = f[j].no => i <= j /\ \A k \in 1..i : g[k] = f[k + (j - i)]

Transcripts ==
  /\ \A f \in DOMAIN files :
       /\ InOrder(files[f]) /\ Close(files[f])
       /\ \A i \in DOMAIN files[f] : files[f][i].no < written /\ files[f][i].id <= begun
  /\ \A f, g \in DOMAIN files : f < g => Descends(files[g], files[f])

(* The last lines of the messages in the first n lines.                    *)
Lasts(text, n) == {i \in 1..n : \A j \in (i + 1)..n : text[j].id # text[i].id}

(* The open messages: each once, with its last line, and each has a line   *)
(* that lines of all the newer ones follow.                                *)
Opens == Seq([id : Ids, u : LineNos])
OpenIds(open) == {open[a].id : a \in DOMAIN open}

LastLine(text, n, m) == \E i \in Lasts(text, n) : text[i] = [id |-> m.id, no |-> m.u]

Follow(text, n, open, a) ==
  \E i \in 1..n :
    /\ text[i].id = open[a].id
    /\ \A b \in DOMAIN open : a < b => \E k \in (i + 1)..n : text[k].id = open[b].id

Recent(text, n, open) ==
  /\ \A a, b \in DOMAIN open : open[a].id = open[b].id => a = b
  /\ \A a \in DOMAIN open : LastLine(text, n, open[a]) /\ Follow(text, n, open, a)

(* A message that is folded is RecentIDs others behind.                    *)
Behind(text, n, id) ==
  \E i \in 1..n : text[i].id = id /\ RecentIDs <= Cardinality(Between(text, i, n + 1))

Folded(text, n, open) ==
  \A j \in 1..n : text[j].id \notin OpenIds(open) => Behind(text, n, text[j].id)

(* The total has the last lines of the folded messages, once.              *)
IsFolded(text, n, open, no) ==
  \E i \in Lasts(text, n) : text[i].no = no /\ text[i].id \notin OpenIds(open)

Total(text, n, open, total) ==
  \A no \in LineNos : total[no] = IF IsFolded(text, n, open, no) THEN 1 ELSE 0

(* What was read of a text.                                                *)
IsReading(text, s) ==
  /\ s.offset <= Len(text) /\ Len(s.recent) <= RecentIDs
  /\ Recent(text, s.offset, s.recent) /\ Folded(text, s.offset, s.recent)
  /\ Total(text, s.offset, s.recent, s.total)

Kept ==
  \E f \in DOMAIN files : IsReading(files[f], state) /\ state.sum = Checksum(files[f], state.offset)

ReaderOK(p) ==
  /\ reader[p].pc # "idle" => reader[p].size <= Len(Reading(p))
  /\ reader[p].pc \in {"reads", "returned"} => IsReading(Reading(p), reader[p].s)
  /\ reader[p].pc = "returned" => reader[p].size <= reader[p].s.offset

ReadersOK == \A p \in Readers : ReaderOK(p)

(* The inductive invariant.                                                *)
IInv == TypeOK /\ Transcripts /\ Kept /\ ReadersOK

---------------------------------------------------------------------------
(* Texts and their messages.                                               *)

LEMMA Least == ASSUME NEW S \in SUBSET Nat, S # {} PROVE \E n \in S : \A m \in S : n <= m
<1> DEFINE R == {ss \in Nat \X Nat : ss[1] < ss[2]}
<1>1. IsWellFoundedOn(R, Nat)
  BY NatLessThanWellFounded DEF OpToRel
<1> HIDE DEF R
<1>2. \E n \in S : \A m \in S : <<m, n>> \notin R
  BY <1>1, WFMin
<1>3. \E n \in S : \A m \in S : ~(m < n)
  BY <1>2 DEF R
<1> QED
  BY <1>3

LEMMA MinLeast == ASSUME NEW S \in SUBSET Nat, S # {} PROVE Min(S) \in S /\ \A m \in S : Min(S) <= m
  BY Least DEF Min

LEMMA FirstOfAny ==
  ASSUME NEW seq, NEW id, DOMAIN seq = 1..Len(seq), Len(seq) \in Nat
  PROVE  /\ First(seq, id) \in 0..Len(seq)
         /\ First(seq, id) = 0 => \A k \in DOMAIN seq : seq[k].id # id
         /\ First(seq, id) # 0 => /\ First(seq, id) \in DOMAIN seq /\ seq[First(seq, id)].id = id
                                  /\ \A k \in DOMAIN seq : seq[k].id = id => First(seq, id) <= k
<1> DEFINE S == {k \in 1..Len(seq) : seq[k].id = id}
<1>1. First(seq, id) = IF S # {} THEN Min(S) ELSE 0
  BY DEF First, SelectInSeq
<1>2. S \in SUBSET Nat
  OBVIOUS
<1>3. CASE S = {}
  BY <1>1, <1>2, <1>3
<1>4. CASE S # {}
  <2>1. Min(S) \in S /\ \A m \in S : Min(S) <= m
    <3> HIDE DEF S
    <3> QED
      BY <1>2, <1>4, MinLeast
  <2>2. First(seq, id) = Min(S)
    BY <1>1, <1>4
  <2> QED
    BY <1>2, <2>1, <2>2
<1> QED
  BY <1>3, <1>4

LEMMA InTexts ==
  ASSUME NEW text \in Texts
  PROVE  /\ DOMAIN text = 1..Len(text) /\ Len(text) \in Nat
         /\ \A k \in DOMAIN text : text[k] \in [id : Ids, no : LineNos]
<1> DEFINE M == [id : Ids, no : LineNos]
<1>1. text \in Seq(M)
  BY DEF Texts
<1> HIDE DEF M
<1>2. DOMAIN text = 1..Len(text) /\ Len(text) \in Nat /\ \A k \in DOMAIN text : text[k] \in M
  BY <1>1, ElementOfSeq, LenProperties
<1> QED
  BY <1>2 DEF M

LEMMA InOpens ==
  ASSUME NEW open \in Opens
  PROVE  /\ DOMAIN open = 1..Len(open) /\ Len(open) \in Nat
         /\ \A k \in DOMAIN open : open[k] \in [id : Ids, u : LineNos]
<1> DEFINE M == [id : Ids, u : LineNos]
<1>1. open \in Seq(M)
  BY DEF Opens
<1> HIDE DEF M
<1>2. DOMAIN open = 1..Len(open) /\ Len(open) \in Nat /\ \A k \in DOMAIN open : open[k] \in M
  BY <1>1, ElementOfSeq, LenProperties
<1> QED
  BY <1>2 DEF M

LEMMA FirstLine ==
  ASSUME NEW text \in Texts, NEW id
  PROVE  /\ First(text, id) \in 0..Len(text)
         /\ First(text, id) = 0 => \A k \in DOMAIN text : text[k].id # id
         /\ First(text, id) # 0 => /\ text[First(text, id)].id = id
                                   /\ \A k \in DOMAIN text : text[k].id = id => First(text, id) <= k
  BY FirstOfAny, InTexts

LEMMA IdsFinite ==
  ASSUME NEW text, NEW a \in Int, NEW b \in Int
  PROVE  IsFiniteSet({text[k].id : k \in a..b})
<1> DEFINE f == [k \in a..b |-> text[k].id]
<1>1. f \in Surjection(a..b, {text[k].id : k \in a..b})
  BY DEF Surjection
<1> QED
  BY <1>1, FS_Interval, FS_Surjection

LEMMA InBetween ==
  \A text, i, j, e :
    e \in Between(text, i, j) <=> e # text[i].id /\ \E k \in (i + 1)..(j - 1) : e = text[k].id
  BY DEF Between

LEMMA BetweenFinite ==
  ASSUME NEW text, NEW i \in Int, NEW j \in Int
  PROVE  IsFiniteSet(Between(text, i, j)) /\ Cardinality(Between(text, i, j)) \in Nat
<1> DEFINE S == {text[k].id : k \in (i + 1)..(j - 1)}
<1>1. IsFiniteSet(S)
  <2>1. PICK a \in Int, b \in Int : a = i + 1 /\ b = j - 1
    OBVIOUS
  <2>2. IsFiniteSet({text[k].id : k \in a..b})
    BY IdsFinite
  <2> QED
    BY <2>1, <2>2
<1>2. Between(text, i, j) = S \ {text[i].id}
  BY DEF Between
<1> HIDE DEF S
<1>3. IsFiniteSet(S \ {text[i].id})
  BY <1>1, FS_RemoveElement
<1> QED
  BY <1>2, <1>3, FS_CardinalityType

LEMMA BetweenGrows ==
  ASSUME NEW text, NEW other, NEW i \in Int, NEW j \in Int, NEW m \in Int, NEW n \in Int,
         Between(text, i, j) \subseteq Between(other, m, n)
  PROVE  Cardinality(Between(text, i, j)) <= Cardinality(Between(other, m, n))
  BY BetweenFinite, FS_Subset

---------------------------------------------------------------------------
(* A line is added, lines are dropped.                                     *)

LEMMA Appended ==
  ASSUME NEW text \in Texts, NEW l \in [id : Ids, no : LineNos]
  PROVE  /\ Append(text, l) \in Texts /\ DOMAIN text = 1..Len(text)
         /\ DOMAIN Append(text, l) = 1..(Len(text) + 1) /\ Len(Append(text, l)) = Len(text) + 1
         /\ Len(text) \in Nat
         /\ \A i \in 1..Len(text) : Append(text, l)[i] = text[i]
         /\ Append(text, l)[Len(text) + 1] = l
  BY AppendProperties DEF Texts

LEMMA StaysClose ==
  ASSUME NEW text \in Texts, Close(text), NEW l \in [id : Ids, no : LineNos],
         Continues(text, l.id) \/ \A k \in DOMAIN text : text[k].id # l.id
  PROVE  Close(Append(text, l))
<1> DEFINE more == Append(text, l)
<1>0. /\ DOMAIN text = 1..Len(text) /\ DOMAIN more = 1..(Len(text) + 1) /\ Len(text) \in Nat
      /\ \A i \in 1..Len(text) : more[i] = text[i]
      /\ more[Len(text) + 1] = l
  BY Appended
<1> HIDE DEF more
<1> SUFFICES ASSUME NEW i \in DOMAIN more, NEW j \in DOMAIN more, i < j, more[i].id = more[j].id
             PROVE  Cardinality(Between(more, i, j)) < RecentIDs
  BY DEF Close, more
<1>1. i \in 1..Len(text) /\ j \in 1..(Len(text) + 1) /\ more[i] = text[i]
  BY <1>0
<1>2. CASE j \in 1..Len(text)
  <2>1. Between(more, i, j) = Between(text, i, j)
    BY <1>0, <1>1, <1>2 DEF Between
  <2> QED
    BY <2>1, <1>0, <1>1, <1>2 DEF Close
<1>3. CASE j = Len(text) + 1
  <2> DEFINE n == First(text, l.id)
  <2>1. text[i].id = l.id
    BY <1>0, <1>1, <1>3
  <2>2. Continues(text, l.id) /\ n \in 1..Len(text) /\ n <= i
    BY <2>1, <1>0, <1>1, FirstLine DEF Continues
  <2>3. Since(text, l.id) = Between(text, n, Len(text) + 1)
    BY <2>2, <1>0, FirstLine DEF Since, Between
  <2>4. Between(more, i, j) \subseteq Between(text, n, Len(text) + 1)
    BY <2>1, <2>2, <1>0, <1>1, <1>3, FirstLine DEF Between
  <2>5. Cardinality(Between(more, i, j)) <= Cardinality(Between(text, n, Len(text) + 1))
    BY <2>2, <2>4, <1>0, <1>1, <1>3, BetweenGrows
  <2> QED
    BY <2>2, <2>3, <2>5, <1>0, <1>1, <1>3, BetweenFinite, UsageAssumption DEF Continues
<1> QED
  BY <1>0, <1>1, <1>2, <1>3

(* A text without its first m and with only n lines more.                  *)
Part(part, text, m, n) ==
  /\ m \in Nat /\ n \in Nat /\ m + n <= Len(text)
  /\ part \in Texts /\ Len(part) = n /\ \A i \in 1..n : part[i] = text[m + i]

LEMMA PartIsText ==
  ASSUME NEW text \in Texts, NEW part, NEW m, NEW n, Part(part, text, m, n),
         InOrder(text), Close(text)
  PROVE  InOrder(part) /\ Close(part)
<1>0. /\ DOMAIN text = 1..Len(text) /\ Len(text) \in Nat /\ DOMAIN part = 1..n
      /\ m \in Nat /\ n \in Nat /\ m + n <= Len(text)
      /\ \A i \in 1..n : part[i] = text[m + i] /\ m + i \in DOMAIN text
  BY DEF Part, Texts
<1>1. InOrder(part)
  BY <1>0 DEF InOrder
<1>2. ASSUME NEW i \in 1..n, NEW j \in 1..n, i < j, part[i].id = part[j].id
      PROVE  Cardinality(Between(part, i, j)) < RecentIDs
  <2>1. Between(part, i, j) \subseteq Between(text, m + i, m + j)
    <3> SUFFICES ASSUME NEW k \in (i + 1)..(j - 1), part[k].id # part[i].id
                 PROVE  part[k].id \in Between(text, m + i, m + j)
      BY DEF Between
    <3>1. part[k].id = text[m + k].id /\ part[i].id = text[m + i].id /\ m + k \in (m + i + 1)..(m + j - 1)
      BY <1>0, <1>2
    <3>2. PICK a, b, c : a = m + i /\ b = m + j /\ c = m + k
      OBVIOUS
    <3>3. part[k].id = text[c].id /\ text[c].id # text[a].id /\ c \in (a + 1)..(b - 1)
      BY <1>0, <3>1, <3>2
    <3>4. text[c].id \in Between(text, a, b)
      BY <3>3, InBetween
    <3> QED
      BY <3>2, <3>3, <3>4
  <2>2. Cardinality(Between(part, i, j)) <= Cardinality(Between(text, m + i, m + j))
    BY <2>1, <1>0, BetweenGrows
  <2>3. Cardinality(Between(text, m + i, m + j)) < RecentIDs
    <3>1. m + i \in DOMAIN text /\ m + j \in DOMAIN text /\ m + i < m + j /\ text[m + i].id = text[m + j].id
      BY <1>0, <1>2
    <3> QED
      BY <3>1 DEF Close
  <2> QED
    BY <2>2, <2>3, <1>0, BetweenFinite, UsageAssumption
<1> QED
  BY <1>0, <1>1, <1>2 DEF Close

---------------------------------------------------------------------------
(* Readings.                                                               *)

(* A reading is one of every text with the same lines so far.              *)
LEMMA SameReading ==
  ASSUME NEW text, NEW other, NEW s \in Positions, IsReading(text, s), s.offset <= Len(other),
         \A i \in 1..s.offset : text[i] = other[i]
  PROVE  IsReading(other, s)
<1> PICK n \in Nat : n = s.offset
  BY DEF Positions
<1>0. \A i \in 1..n : text[i] = other[i]
  OBVIOUS
<1>1. Lasts(text, n) = Lasts(other, n) /\ \A i \in Lasts(text, n) : i \in 1..n
  BY <1>0 DEF Lasts
<1>2. Recent(other, n, s.recent)
  <2>1. Recent(text, n, s.recent)
    BY DEF IsReading
  <2>2. ASSUME NEW a \in DOMAIN s.recent PROVE LastLine(other, n, s.recent[a])
    BY <2>1, <1>0, <1>1 DEF Recent, LastLine
  <2>3. ASSUME NEW a \in DOMAIN s.recent PROVE Follow(other, n, s.recent, a)
    BY <2>1, <1>0 DEF Recent, Follow
  <2> QED
    BY <2>1, <2>2, <2>3 DEF Recent
<1>3. ASSUME NEW i \in 1..n PROVE Between(text, i, n + 1) = Between(other, i, n + 1)
  BY <1>0 DEF Between
<1>4. Folded(other, n, s.recent)
  <2>1. Folded(text, n, s.recent)
    BY DEF IsReading
  <2>2. ASSUME NEW id, Behind(text, n, id) PROVE Behind(other, n, id)
    BY <2>2, <1>0, <1>3 DEF Behind
  <2> QED
    BY <2>1, <2>2, <1>0 DEF Folded
<1>5. Total(other, n, s.recent, s.total)
  BY <1>0, <1>1 DEF IsReading, Total, IsFolded
<1> QED
  BY <1>2, <1>4, <1>5 DEF IsReading

LEMMA NothingRead == ASSUME NEW text \in Texts PROVE IsReading(text, Start) /\ Start \in Positions
<1>1. /\ Start.offset = 0 /\ Start.recent = << >> /\ Start.sum = 0
      /\ Start.total = [no \in LineNos |-> 0]
  BY DEF Start
<1>2. Len(text) \in Nat /\ Lasts(text, 0) = {} /\ DOMAIN << >> = {} /\ Len(<< >>) = 0
  BY DEF Texts, Lasts
<1>3. IsReading(text, Start)
  BY <1>1, <1>2, UsageAssumption DEF IsReading, Recent, Folded, Total, IsFolded
<1>4. Start \in Positions
  BY <1>1 DEF Start, Positions
<1> QED
  BY <1>3, <1>4

(* The last lines after one more.                                          *)
LEMMA LastsNext ==
  ASSUME NEW text, NEW n \in Nat
  PROVE  /\ Lasts(text, n) \subseteq 1..n
         /\ n + 1 \in Lasts(text, n + 1)
         /\ \A i \in 1..n : i \in Lasts(text, n + 1) <=> i \in Lasts(text, n) /\ text[i].id # text[n + 1].id
         /\ \A i, j \in Lasts(text, n) : text[i].id = text[j].id => i = j
  BY DEF Lasts

LEMMA BehindNext ==
  ASSUME NEW text, NEW n \in Nat, NEW id, Behind(text, n, id)
  PROVE  Behind(text, n + 1, id)
<1>1. PICK i \in 1..n : text[i].id = id /\ RecentIDs <= Cardinality(Between(text, i, n + 1))
  BY DEF Behind
<1>2. Between(text, i, n + 1) \subseteq Between(text, i, n + 2)
  BY DEF Between
<1>3. Cardinality(Between(text, i, n + 1)) <= Cardinality(Between(text, i, n + 2))
  BY <1>2, BetweenGrows
<1>4. RecentIDs <= Cardinality(Between(text, i, n + 2))
  BY <1>1, <1>3, BetweenFinite, UsageAssumption
<1> QED
  BY <1>1, <1>4 DEF Behind

---------------------------------------------------------------------------
(* take reads one more line of a text: of an open message, ...             *)

LEMMA TakeOpen ==
  ASSUME NEW text, NEW n \in Nat, NEW open \in Opens, NEW total, NEW i \in DOMAIN open,
         text[n + 1] = [id |-> text[n + 1].id, no |-> text[n + 1].no], text[n + 1].no \in LineNos,
         open[i].id = text[n + 1].id,
         Recent(text, n, open), Folded(text, n, open), Total(text, n, open, total),
         NEW new, new = [open EXCEPT ![i].u = text[n + 1].no]
  PROVE  /\ new \in Opens /\ Len(new) = Len(open)
         /\ Recent(text, n + 1, new) /\ Folded(text, n + 1, new) /\ Total(text, n + 1, new, total)
<1> DEFINE x == text[n + 1].id
           u == text[n + 1].no
<1>0. /\ DOMAIN open = 1..Len(open) /\ Len(open) \in Nat
      /\ \A a \in DOMAIN open : open[a] \in [id : Ids, u : LineNos]
  BY InOpens
<1>1. /\ new \in Opens /\ Len(new) = Len(open) /\ DOMAIN new = DOMAIN open
      /\ \A a \in DOMAIN open : new[a].id = open[a].id
      /\ \A a \in DOMAIN open : a # i => new[a] = open[a]
      /\ new[i].u = u
  <2>1. [open[i] EXCEPT !.u = u] \in [id : Ids, u : LineNos]
    BY <1>0
  <2>2. new = [open EXCEPT ![i] = [open[i] EXCEPT !.u = u]]
    OBVIOUS
  <2>3. [open[i] EXCEPT !.u = u].id = open[i].id /\ [open[i] EXCEPT !.u = u].u = u
    BY <1>0
  <2> QED
    BY <2>1, <2>2, <2>3, <1>0, ExceptSeq DEF Opens
<1> HIDE DEF x, u
<1>2. OpenIds(new) = OpenIds(open) /\ x \in OpenIds(open)
  BY <1>1 DEF OpenIds, x
<1>3. ASSUME NEW a \in DOMAIN open PROVE LastLine(text, n + 1, new[a])
  <2>1. CASE a = i
    <3>1. text[n + 1] = [id |-> new[a].id, no |-> new[a].u]
      BY <2>1, <1>1 DEF x, u
    <3> QED
      BY <3>1, LastsNext DEF LastLine
  <2>2. CASE a # i
    <3>1. PICK k \in Lasts(text, n) : text[k] = [id |-> open[a].id, no |-> open[a].u]
      BY DEF Recent, LastLine
    <3>2. text[k].id # text[n + 1].id
      BY <3>1, <2>2 DEF Recent
    <3>3. k \in Lasts(text, n + 1)
      BY <3>2, LastsNext
    <3> QED
      BY <3>1, <3>3, <2>2, <1>1 DEF LastLine
  <2> QED
    BY <2>1, <2>2
<1>4. ASSUME NEW a \in DOMAIN open PROVE Follow(text, n + 1, new, a)
  <2>1. PICK k \in 1..n :
          /\ text[k].id = open[a].id
          /\ \A b \in DOMAIN open : a < b => \E m \in (k + 1)..n : text[m].id = open[b].id
    BY DEF Recent, Follow
  <2>2. ASSUME NEW b \in DOMAIN new, a < b PROVE \E m \in (k + 1)..(n + 1) : text[m].id = new[b].id
    BY <2>1, <2>2, <1>1
  <2> QED
    BY <2>1, <2>2, <1>1 DEF Follow
<1>5. Recent(text, n + 1, new)
  <2>1. \A a, b \in DOMAIN new : new[a].id = new[b].id => a = b
    BY <1>1 DEF Recent
  <2> QED
    BY <2>1, <1>1, <1>3, <1>4 DEF Recent
<1>6. Folded(text, n + 1, new)
  <2> SUFFICES ASSUME NEW j \in 1..(n + 1), text[j].id \notin OpenIds(new)
               PROVE  Behind(text, n + 1, text[j].id)
    BY DEF Folded
  <2>1. j \in 1..n
    BY <1>2 DEF x
  <2> QED
    BY <2>1, <1>2, BehindNext DEF Folded
<1>7. ASSUME NEW no PROVE IsFolded(text, n + 1, new, no) <=> IsFolded(text, n, open, no)
  <2>1. ASSUME NEW k \in 1..n, text[k].id \notin OpenIds(open)
        PROVE  k \in Lasts(text, n + 1) <=> k \in Lasts(text, n)
    BY <2>1, <1>2, LastsNext DEF x
  <2>2. \A k \in Lasts(text, n + 1) : text[k].id \notin OpenIds(open) => k \in 1..n
    BY <1>2 DEF x, Lasts
  <2> QED
    BY <2>1, <2>2, <1>2, LastsNext DEF IsFolded
<1>8. Total(text, n + 1, new, total)
  BY <1>7 DEF Total
<1> QED
  BY <1>1, <1>5, <1>6, <1>8

(* ... of a new one, ...                                                   *)
LEMMA TakeNew ==
  ASSUME NEW text, NEW n \in Nat, NEW open \in Opens, NEW total, NEW l, NEW new \in Opens,
         text[n + 1] = [id |-> l.id, no |-> l.u], l.id \notin OpenIds(open),
         \A k \in 1..n : text[k].id # l.id,
         Recent(text, n, open), Folded(text, n, open), Total(text, n, open, total),
         Len(new) = Len(open) + 1, \A a \in DOMAIN open : new[a] = open[a], new[Len(open) + 1] = l
  PROVE  Recent(text, n + 1, new) /\ Folded(text, n + 1, new) /\ Total(text, n + 1, new, total)
<1> DEFINE z == Len(open) + 1
<1>0. DOMAIN open = 1..Len(open) /\ Len(open) \in Nat
  BY InOpens
<1>1. /\ DOMAIN new = 1..z /\ Len(new) = Len(open) + 1
      /\ \A a \in DOMAIN open : new[a] = open[a]
      /\ new[z] = l
  BY <1>0, InOpens
<1>2. text[n + 1].id = l.id /\ text[n + 1].no = l.u
  OBVIOUS
<1>3. /\ \A k \in 1..n : k \in Lasts(text, n + 1) <=> k \in Lasts(text, n)
      /\ n + 1 \in Lasts(text, n + 1)
  BY <1>2, LastsNext
<1>4. OpenIds(new) = OpenIds(open) \union {l.id}
  BY <1>0, <1>1 DEF OpenIds
<1> HIDE DEF z
<1>5. ASSUME NEW a \in DOMAIN new, NEW b \in DOMAIN new, new[a].id = new[b].id PROVE a = b
  <2>1. \A c \in DOMAIN open : open[c].id # l.id
    BY DEF OpenIds
  <2> QED
    BY <2>1, <1>0, <1>1, <1>5 DEF Recent, z
<1>6. ASSUME NEW a \in DOMAIN new PROVE LastLine(text, n + 1, new[a])
  <2>1. CASE a = z
    BY <2>1, <1>1, <1>3 DEF LastLine
  <2>2. CASE a \in DOMAIN open
    <3>1. PICK k \in Lasts(text, n) : text[k] = [id |-> open[a].id, no |-> open[a].u]
      BY <2>2 DEF Recent, LastLine
    <3>2. k \in Lasts(text, n + 1)
      BY <1>3, LastsNext
    <3> QED
      BY <3>1, <3>2, <2>2, <1>1 DEF LastLine
  <2> QED
    BY <2>1, <2>2, <1>0, <1>1 DEF z
<1>7. ASSUME NEW a \in DOMAIN new PROVE Follow(text, n + 1, new, a)
  <2>1. CASE a = z
    <3>1. n + 1 \in 1..(n + 1) /\ text[n + 1].id = new[a].id
      BY <2>1, <1>1, <1>2
    <3>2. \A b \in DOMAIN new : ~(a < b)
      BY <2>1, <1>0, <1>1 DEF z
    <3> QED
      BY <3>1, <3>2 DEF Follow
  <2>2. CASE a \in DOMAIN open
    <3>1. PICK k \in 1..n :
            /\ text[k].id = open[a].id
            /\ \A b \in DOMAIN open : a < b => \E m \in (k + 1)..n : text[m].id = open[b].id
      BY <2>2 DEF Recent, Follow
    <3>2. ASSUME NEW b \in DOMAIN new, a < b PROVE \E m \in (k + 1)..(n + 1) : text[m].id = new[b].id
      <4>1. CASE b = z
        <5>1. n + 1 \in (k + 1)..(n + 1) /\ text[n + 1].id = new[b].id
          BY <4>1, <1>1, <1>2
        <5> QED
          BY <5>1
      <4>2. CASE b \in DOMAIN open
        BY <4>2, <3>1, <3>2, <1>1
      <4> QED
        BY <4>1, <4>2, <1>0, <1>1 DEF z
    <3> QED
      <4>1. k \in 1..(n + 1) /\ text[k].id = new[a].id
        BY <3>1, <2>2, <1>1
      <4> QED
        BY <4>1, <3>2 DEF Follow
  <2> QED
    BY <2>1, <2>2, <1>0, <1>1 DEF z
<1>8. Recent(text, n + 1, new)
  BY <1>5, <1>6, <1>7 DEF Recent
<1>9. Folded(text, n + 1, new)
  <2> SUFFICES ASSUME NEW j \in 1..(n + 1), text[j].id \notin OpenIds(new)
               PROVE  Behind(text, n + 1, text[j].id)
    BY DEF Folded
  <2>1. j \in 1..n
    BY <1>2, <1>4
  <2> QED
    BY <2>1, <1>4, BehindNext DEF Folded
<1>10. ASSUME NEW no PROVE IsFolded(text, n + 1, new, no) <=> IsFolded(text, n, open, no)
  <2>1. \A k \in Lasts(text, n + 1) : text[k].id \notin OpenIds(new) => k \in 1..n
    BY <1>2, <1>4 DEF Lasts
  <2>2. \A k \in 1..n : text[k].id \in OpenIds(new) <=> text[k].id \in OpenIds(open)
    BY <1>4
  <2> QED
    BY <2>1, <2>2, <1>3, LastsNext DEF IsFolded
<1>11. Total(text, n + 1, new, total)
  BY <1>10 DEF Total
<1> QED
  BY <1>1, <1>8, <1>9, <1>11

(* ... and with one too many open, the oldest is folded.                   *)
LEMMA FoldHead ==
  ASSUME NEW text, InOrder(text), NEW n \in Nat, 1..n \subseteq DOMAIN text,
         \A k \in 1..n : text[k].no \in LineNos,
         NEW open \in Opens, Len(open) = RecentIDs + 1, NEW total \in [LineNos -> Nat],
         Recent(text, n, open), Folded(text, n, open), Total(text, n, open, total),
         NEW new, new = Tail(open),
         NEW sum, sum = [total EXCEPT ![Head(open).u] = @ + 1]
  PROVE  /\ new \in Opens /\ Len(new) = RecentIDs /\ sum \in [LineNos -> Nat]
         /\ Recent(text, n, new) /\ Folded(text, n, new) /\ Total(text, n, new, sum)
<1> DEFINE h == open[1]
<1>0. /\ DOMAIN open = 1..(RecentIDs + 1) /\ RecentIDs \in Nat \ {0}
      /\ \A a \in DOMAIN open : open[a] \in [id : Ids, u : LineNos]
      /\ 1 \in DOMAIN open /\ Head(open) = h /\ h.u \in LineNos
  <2>1. RecentIDs \in Nat \ {0} /\ Head(open) = h
    BY UsageAssumption
  <2> QED
    BY <2>1, InOpens
<1>1. /\ new \in Opens /\ Len(new) = RecentIDs /\ DOMAIN new = 1..RecentIDs
      /\ \A a \in DOMAIN new : a + 1 \in DOMAIN open /\ new[a] = open[a + 1]
  BY <1>0, HeadTailProperties DEF Opens
<1>2. \A a, b \in DOMAIN open : open[a].id = open[b].id => a = b
  BY DEF Recent
<1>3. OpenIds(new) = OpenIds(open) \ {h.id} /\ h.id \in OpenIds(open)
  <2>1. \A a \in DOMAIN open : a # 1 => a - 1 \in DOMAIN new /\ new[a - 1] = open[a]
    BY <1>0, <1>1
  <2>2. ASSUME NEW a \in DOMAIN new PROVE new[a].id \in OpenIds(open) /\ new[a].id # h.id
    <3>1. a + 1 \in DOMAIN open /\ 1 \in DOMAIN open /\ a + 1 # 1 /\ new[a] = open[a + 1]
      BY <1>0, <1>1
    <3>2. open[a + 1].id # open[1].id
      BY <3>1, <1>2
    <3> QED
      BY <3>1, <3>2 DEF OpenIds
  <2>3. ASSUME NEW a \in DOMAIN open, open[a].id # h.id PROVE open[a].id \in OpenIds(new)
    BY <2>1, <2>3 DEF OpenIds
  <2> QED
    <3>1. OpenIds(new) \subseteq OpenIds(open) \ {h.id}
      BY <2>2 DEF OpenIds
    <3>2. OpenIds(open) \ {h.id} \subseteq OpenIds(new)
      BY <2>3 DEF OpenIds
    <3>3. h.id \in OpenIds(open)
      BY <1>0 DEF OpenIds
    <3> QED
      BY <3>1, <3>2, <3>3
<1>4. PICK i \in Lasts(text, n) : text[i] = [id |-> h.id, no |-> h.u]
  BY <1>0 DEF Recent, LastLine
<1>5. i \in 1..n /\ text[i].id = h.id /\ text[i].no = h.u
  BY <1>4 DEF Lasts
<1> HIDE DEF h
<1>6. Recent(text, n, new)
  <2>1. ASSUME NEW a \in DOMAIN new PROVE LastLine(text, n, new[a])
    BY <1>1 DEF Recent
  <2>2. ASSUME NEW a \in DOMAIN new PROVE Follow(text, n, new, a)
    <3>1. PICK k \in 1..n :
            /\ text[k].id = open[a + 1].id
            /\ \A b \in DOMAIN open : a + 1 < b => \E m \in (k + 1)..n : text[m].id = open[b].id
      BY <1>1 DEF Recent, Follow
    <3>2. ASSUME NEW b \in DOMAIN new, a < b PROVE \E m \in (k + 1)..n : text[m].id = new[b].id
      <4>1. b + 1 \in DOMAIN open /\ a + 1 < b + 1 /\ new[b] = open[b + 1]
        BY <3>2, <1>1
      <4> QED
        BY <4>1, <3>1
    <3> QED
      BY <3>1, <3>2, <1>1 DEF Follow
  <2>3. \A a, b \in DOMAIN new : new[a].id = new[b].id => a = b
    BY <1>1, <1>2
  <2> QED
    BY <2>1, <2>2, <2>3 DEF Recent
<1>7. Behind(text, n, h.id)
  <2>1. PICK k \in 1..n :
          /\ text[k].id = open[1].id
          /\ \A b \in DOMAIN open : 1 < b => \E m \in (k + 1)..n : text[m].id = open[b].id
    BY <1>0 DEF Recent, Follow
  <2> DEFINE f == [a \in 1..RecentIDs |-> open[a + 1].id]
             B == Between(text, k, n + 1)
  <2>2. ASSUME NEW a \in 1..RecentIDs PROVE open[a + 1].id \in B
    <3>1. a + 1 \in DOMAIN open /\ 1 < a + 1 /\ open[a + 1].id # open[1].id
      BY <1>0, <1>2
    <3>2. PICK m \in (k + 1)..n : text[m].id = open[a + 1].id
      BY <3>1, <2>1
    <3> QED
      BY <3>1, <3>2, <2>1, InBetween
  <2>3. f \in Injection(1..RecentIDs, B)
    <3>1. f \in [1..RecentIDs -> B]
      BY <2>2
    <3>2. \A a, b \in 1..RecentIDs : f[a] = f[b] => a = b
      <4> SUFFICES ASSUME NEW a \in 1..RecentIDs, NEW b \in 1..RecentIDs, open[a + 1].id = open[b + 1].id
                   PROVE  a = b
        OBVIOUS
      <4>1. a + 1 \in DOMAIN open /\ b + 1 \in DOMAIN open
        BY <1>0
      <4>2. a + 1 = b + 1
        BY <4>1, <1>2
      <4> QED
        BY <4>2
    <3> QED
      BY <3>1, <3>2 DEF Injection, IsInjective
  <2>4. IsFiniteSet(B)
    BY BetweenFinite
  <2> HIDE DEF f, B
  <2>5. Cardinality(1..RecentIDs) <= Cardinality(B)
    BY <2>3, <2>4, FS_Injection
  <2>6. Cardinality(1..RecentIDs) = RecentIDs
    BY <1>0, FS_Interval
  <2> QED
    BY <2>1, <2>5, <2>6 DEF Behind, B, h
<1>8. Folded(text, n, new)
  <2> SUFFICES ASSUME NEW j \in 1..n, text[j].id \notin OpenIds(new)
               PROVE  Behind(text, n, text[j].id)
    BY DEF Folded
  <2>1. CASE text[j].id = h.id
    BY <2>1, <1>7
  <2>2. CASE text[j].id # h.id
    BY <2>2, <1>3 DEF Folded
  <2> QED
    BY <2>1, <2>2
<1>9. ASSUME NEW k \in Lasts(text, n) PROVE k \in 1..n /\ (text[k].id = h.id => k = i) /\ (text[k].no = h.u => k = i)
  <2>1. k \in 1..n /\ k \in DOMAIN text /\ i \in DOMAIN text
    BY <1>5 DEF Lasts
  <2>2. text[k].id = h.id => k = i
    <3>1. \A a, b \in Lasts(text, n) : text[a].id = text[b].id => a = b
      BY LastsNext
    <3> QED
      BY <3>1, <1>5
  <2>3. text[k].no = h.u => k = i
    <3>1. k < i => text[k].no < text[i].no
      BY <2>1 DEF InOrder
    <3>2. i < k => text[i].no < text[k].no
      BY <2>1 DEF InOrder
    <3> QED
      BY <3>1, <3>2, <2>1, <1>5, UsageAssumption DEF LineNos
  <2> QED
    BY <2>1, <2>2, <2>3
<1>10. ~IsFolded(text, n, open, h.u) /\ IsFolded(text, n, new, h.u)
  BY <1>3, <1>4, <1>5, <1>9 DEF IsFolded
<1>11. ASSUME NEW no, no # h.u PROVE IsFolded(text, n, new, no) <=> IsFolded(text, n, open, no)
  BY <1>3, <1>5, <1>9, <1>11 DEF IsFolded
<1>12. /\ sum \in [LineNos -> Nat] /\ sum[h.u] = total[h.u] + 1
       /\ \A no \in LineNos : no # h.u => sum[no] = total[no]
  BY <1>0
<1>13. Total(text, n, new, sum)
  <2>1. total[h.u] = 0
    BY <1>0, <1>10 DEF Total
  <2>2. sum[h.u] = 1
    BY <2>1, <1>12
  <2>3. ASSUME NEW no \in LineNos, no # h.u
        PROVE  sum[no] = IF IsFolded(text, n, new, no) THEN 1 ELSE 0
    BY <2>3, <1>11, <1>12 DEF Total
  <2> QED
    BY <2>2, <2>3, <1>10 DEF Total
<1> QED
  BY <1>1, <1>6, <1>8, <1>12, <1>13

(* A line that is not of an open message begins one: the folded ones are   *)
(* too far behind.                                                         *)
LEMMA NoneComesBack ==
  ASSUME NEW text \in Texts, Close(text), NEW s \in Positions, IsReading(text, s),
         s.offset < Len(text), text[s.offset + 1].id \notin OpenIds(s.recent)
  PROVE  \A k \in 1..s.offset : text[k].id # text[s.offset + 1].id
<1> SUFFICES ASSUME NEW k \in 1..s.offset, text[k].id = text[s.offset + 1].id PROVE FALSE
  OBVIOUS
<1>1. s.offset \in Nat /\ DOMAIN text = 1..Len(text) /\ Len(text) \in Nat
  BY DEF Positions, Texts
<1>2. PICK i \in 1..s.offset : /\ text[i].id = text[k].id
                               /\ RecentIDs <= Cardinality(Between(text, i, s.offset + 1))
  BY DEF IsReading, Folded, Behind
<1>3. i \in DOMAIN text /\ s.offset + 1 \in DOMAIN text /\ i < s.offset + 1
  BY <1>1
<1>4. Cardinality(Between(text, i, s.offset + 1)) < RecentIDs
  BY <1>2, <1>3 DEF Close
<1> QED
  BY <1>1, <1>2, <1>4, BetweenFinite, UsageAssumption

Taken(s, l) == [Take(s, l) EXCEPT !.offset = @ + 1]

(* The open message that a line is of, 0 if there is none.                 *)
LEMMA OpenMessage ==
  ASSUME NEW open \in Opens, NEW id
  PROVE  /\ First(open, id) \in Nat
         /\ First(open, id) # 0 => First(open, id) \in DOMAIN open /\ open[First(open, id)].id = id
         /\ First(open, id) = 0 => id \notin OpenIds(open)
  BY FirstOfAny, InOpens DEF OpenIds

(* take goes on with a reading.                                            *)
LEMMA TakeReads ==
  ASSUME NEW text \in Texts, InOrder(text), Close(text), NEW s \in Positions, IsReading(text, s),
         s.offset < Len(text)
  PROVE  /\ Taken(s, text[s.offset + 1]) \in Positions
         /\ IsReading(text, Taken(s, text[s.offset + 1]))
         /\ Taken(s, text[s.offset + 1]).offset = s.offset + 1
<1> PICK n \in Nat : n = s.offset
  BY DEF Positions
<1> PICK l, open, total, t :
      l = text[n + 1] /\ open = s.recent /\ total = s.total /\ t = Taken(s, l)
  OBVIOUS
<1>0. /\ open \in Opens /\ total \in [LineNos -> Nat] /\ n < Len(text) /\ Len(text) \in Nat
      /\ s.sum \in Nat /\ DOMAIN text = 1..Len(text)
      /\ s = [offset |-> n, sum |-> s.sum, total |-> total, recent |-> open]
  BY DEF Positions, Opens, Texts
<1>1. \A k \in 1..(n + 1) : k \in DOMAIN text /\ text[k] \in [id : Ids, no : LineNos]
  BY <1>0, InTexts
<1>2. l \in [id : Ids, no : LineNos] /\ l = [id |-> l.id, no |-> l.no]
  BY <1>1
<1>3. /\ Len(open) <= RecentIDs /\ Len(open) \in Nat
      /\ Recent(text, n, open) /\ Folded(text, n, open) /\ Total(text, n, open, total)
  BY <1>0 DEF IsReading, Opens
<1> SUFFICES \E new \in Opens, sum \in [LineNos -> Nat] :
               /\ t = [offset |-> n + 1, sum |-> s.sum, total |-> sum, recent |-> new]
               /\ Len(new) <= RecentIDs
               /\ Recent(text, n + 1, new) /\ Folded(text, n + 1, new) /\ Total(text, n + 1, new, sum)
  BY <1>0 DEF IsReading, Positions, Opens
<1> PICK i : i = First(open, l.id)
  OBVIOUS
<1>4. /\ i \in Nat
      /\ i # 0 => i \in DOMAIN open /\ open[i].id = l.id
      /\ i = 0 => l.id \notin OpenIds(open)
  BY <1>0, OpenMessage
<1>5. CASE i # 0
  <2>0. PICK new : new = [open EXCEPT ![i].u = l.no]
    OBVIOUS
  <2>1. t = [offset |-> n + 1, sum |-> s.sum, total |-> total, recent |-> new]
    BY <2>0, <1>0, <1>5 DEF Taken, Take
  <2>2. /\ new \in Opens /\ Len(new) = Len(open)
        /\ Recent(text, n + 1, new) /\ Folded(text, n + 1, new) /\ Total(text, n + 1, new, total)
    <3>1. /\ text[n + 1] = [id |-> text[n + 1].id, no |-> text[n + 1].no] /\ text[n + 1].no \in LineNos
          /\ i \in DOMAIN open /\ open[i].id = text[n + 1].id
          /\ new = [open EXCEPT ![i].u = text[n + 1].no]
      BY <2>0, <1>2, <1>4, <1>5
    <3>2. open \in Opens /\ Recent(text, n, open) /\ Folded(text, n, open) /\ Total(text, n, open, total)
      BY <1>0, <1>3
    <3> QED
      BY <3>1, <3>2, TakeOpen
  <2> QED
    BY <2>1, <2>2, <1>0, <1>3
<1>6. CASE i = 0
  <2>0. PICK m, new : m = [id |-> l.id, u |-> l.no] /\ new = Append(open, m)
    OBVIOUS
  <2>1. m \in [id : Ids, u : LineNos] /\ m.id = l.id /\ m.u = l.no
    BY <2>0, <1>2
  <2>2. \A k \in 1..n : text[k].id # l.id
    BY <1>0, <1>4, <1>6, NoneComesBack
  <2>3. /\ new \in Opens /\ Len(new) = Len(open) + 1
        /\ Recent(text, n + 1, new) /\ Folded(text, n + 1, new) /\ Total(text, n + 1, new, total)
    <3>1. text[n + 1] = [id |-> m.id, no |-> m.u] /\ m.id \notin OpenIds(open) /\ \A k \in 1..n : text[k].id # m.id
      BY <2>1, <2>2, <1>2, <1>4, <1>6
    <3>2. open \in Opens /\ Recent(text, n, open) /\ Folded(text, n, open) /\ Total(text, n, open, total)
      BY <1>0, <1>3
    <3>3. /\ new \in Opens /\ Len(new) = Len(open) + 1
          /\ \A a \in DOMAIN open : new[a] = open[a]
          /\ new[Len(open) + 1] = m
      BY <2>0, <2>1, <3>2, AppendProperties, InOpens DEF Opens
    <3> QED
      BY <3>1, <3>2, <3>3, TakeNew
  <2>4. CASE Len(new) <= RecentIDs
    <3>1. ~(Len(new) > RecentIDs)
      BY <2>3, <2>4, <1>3, UsageAssumption
    <3>2. t = [offset |-> n + 1, sum |-> s.sum, total |-> total, recent |-> new]
      BY <3>1, <2>0, <1>0, <1>6 DEF Taken, Take
    <3> QED
      BY <3>2, <2>3, <2>4, <1>0
  <2>5. CASE Len(new) = RecentIDs + 1
    <3>0. PICK sum, tail : sum = [total EXCEPT ![Head(new).u] = @ + 1] /\ tail = Tail(new)
      OBVIOUS
    <3>1. Len(new) > RecentIDs
      BY <2>5, UsageAssumption
    <3>2. t = [offset |-> n + 1, sum |-> s.sum, total |-> sum, recent |-> tail]
      BY <3>0, <3>1, <2>0, <1>0, <1>6 DEF Taken, Take
    <3>3. n + 1 \in Nat /\ 1..(n + 1) \subseteq DOMAIN text /\ \A k \in 1..(n + 1) : text[k].no \in LineNos
      BY <1>1
    <3>4. /\ tail \in Opens /\ Len(tail) = RecentIDs /\ sum \in [LineNos -> Nat]
          /\ Recent(text, n + 1, tail) /\ Folded(text, n + 1, tail) /\ Total(text, n + 1, tail, sum)
      <4>1. new \in Opens /\ Recent(text, n + 1, new) /\ Folded(text, n + 1, new) /\ Total(text, n + 1, new, total)
        BY <2>3
      <4>2. InOrder(text) /\ total \in [LineNos -> Nat]
        BY <1>0
      <4> QED
        BY <3>0, <3>3, <4>1, <4>2, <2>5, FoldHead
    <3>5. Len(tail) <= RecentIDs
      BY <3>4, UsageAssumption
    <3> QED
      BY <3>2, <3>4, <3>5
  <2>6. Len(new) <= RecentIDs \/ Len(new) = RecentIDs + 1
    BY <2>3, <1>3, UsageAssumption
  <2> QED
    BY <2>4, <2>5, <2>6
<1> QED
  BY <1>4, <1>5, <1>6

(* A reading has counted each message once, by its last line.              *)
LEMMA ReadingIsCost ==
  ASSUME NEW text \in Texts, InOrder(text), NEW s \in Positions, IsReading(text, s)
  PROVE  Counted(s) = Cost(text, s.offset)
<1> PICK n \in Nat : n = s.offset
  BY DEF Positions
<1> PICK open, total : open = s.recent /\ total = s.total
  OBVIOUS
<1>0. /\ n <= Len(text) /\ Len(text) \in Nat /\ DOMAIN text = 1..Len(text)
      /\ Recent(text, n, open) /\ Total(text, n, open, total)
  BY DEF IsReading, Texts
<1> DEFINE Standing(no) == {a \in DOMAIN open : open[a].u = no}
           Final(no) == {i \in Lasts(text, n) : text[i].no = no}
<1>1. Counted(s) = [no \in LineNos |-> total[no] + Cardinality(Standing(no))]
  BY DEF Counted
<1>2. Cost(text, s.offset) = [no \in LineNos |-> Cardinality(Final(no))]
  BY DEF Cost, Lasts
<1>3. \A i \in Lasts(text, n) : i \in DOMAIN text
  BY <1>0 DEF Lasts
<1>4. ASSUME NEW i \in Lasts(text, n), NEW j \in Lasts(text, n), text[i].no = text[j].no PROVE i = j
  <2>1. text[i] \in [id : Ids, no : LineNos] /\ i \in 1..Len(text) /\ j \in 1..Len(text)
    BY <1>0, <1>3, InTexts
  <2>2. (i < j => text[i].no < text[j].no) /\ (j < i => text[j].no < text[i].no)
    BY <1>3 DEF InOrder
  <2> QED
    BY <2>1, <2>2, <1>4, UsageAssumption DEF LineNos
<1>5. \A i, j \in Lasts(text, n) : text[i].id = text[j].id => i = j
  BY LastsNext
<1>6. ASSUME NEW a \in DOMAIN open
      PROVE  \E i \in Lasts(text, n) : text[i].id = open[a].id /\ text[i].no = open[a].u
  <2>1. PICK i \in Lasts(text, n) : text[i] = [id |-> open[a].id, no |-> open[a].u]
    BY <1>0 DEF Recent, LastLine
  <2> QED
    BY <2>1
<1> SUFFICES ASSUME NEW no \in LineNos PROVE total[no] + Cardinality(Standing(no)) = Cardinality(Final(no))
  BY <1>1, <1>2
<1>7. CASE ~\E i \in Lasts(text, n) : text[i].no = no
  <2>1. Final(no) = {} /\ Standing(no) = {}
    BY <1>6, <1>7
  <2>2. total[no] = 0
    BY <1>0, <1>7 DEF Total, IsFolded
  <2>3. Cardinality(Final(no)) = 0 /\ Cardinality(Standing(no)) = 0
    BY <2>1, FS_EmptySet
  <2> QED
    BY <2>2, <2>3
<1>8. ASSUME NEW i \in Lasts(text, n), text[i].no = no, text[i].id \notin OpenIds(open)
      PROVE  total[no] + Cardinality(Standing(no)) = Cardinality(Final(no))
  <2>1. Final(no) = {i}
    BY <1>4, <1>8
  <2>2. Standing(no) = {}
    BY <1>4, <1>6, <1>8 DEF OpenIds
  <2>3. total[no] = 1
    BY <1>0, <1>8 DEF Total, IsFolded
  <2>4. Cardinality(Final(no)) = 1 /\ Cardinality(Standing(no)) = 0
    BY <2>1, <2>2, FS_EmptySet, FS_Singleton
  <2> QED
    BY <2>3, <2>4
<1>9. ASSUME NEW i \in Lasts(text, n), text[i].no = no, text[i].id \in OpenIds(open)
      PROVE  total[no] + Cardinality(Standing(no)) = Cardinality(Final(no))
  <2>1. Final(no) = {i}
    BY <1>4, <1>9
  <2>2. PICK a \in DOMAIN open : open[a].id = text[i].id
    BY <1>9 DEF OpenIds
  <2>3. open[a].u = no
    BY <2>2, <1>5, <1>6, <1>9
  <2>4. Standing(no) = {a}
    <3>1. ASSUME NEW b \in Standing(no) PROVE b = a
      <4>1. open[b].id = text[i].id
        BY <1>4, <1>6, <1>9
      <4> QED
        BY <4>1, <2>2, <1>0 DEF Recent
    <3> QED
      BY <3>1, <2>3
  <2>5. total[no] = 0
    BY <1>0, <1>4, <1>9 DEF Total, IsFolded
  <2>6. Cardinality(Final(no)) = 1 /\ Cardinality(Standing(no)) = 1
    BY <2>1, <2>4, FS_Singleton
  <2> QED
    BY <2>5, <2>6
<1> QED
  BY <1>7, <1>8, <1>9

---------------------------------------------------------------------------
(* The files.                                                              *)

LEMMA InFiles ==
  ASSUME NEW list \in Seq(Texts)
  PROVE  /\ DOMAIN list = 1..Len(list) /\ Len(list) \in Nat
         /\ \A f \in DOMAIN list : list[f] \in Texts
<1> DEFINE M == Texts
<1> HIDE DEF M
<1>1. list \in Seq(M)
  BY DEF M
<1>2. DOMAIN list = 1..Len(list) /\ Len(list) \in Nat /\ \A f \in DOMAIN list : list[f] \in M
  BY <1>1, ElementOfSeq, LenProperties
<1> QED
  BY <1>2 DEF M

(* Two files with the same line at the same place are the same so far.     *)
LEMMA SameSoFar ==
  ASSUME TypeOK, Transcripts, NEW f \in DOMAIN files, NEW g \in DOMAIN files,
         NEW i \in DOMAIN files[f], i \in DOMAIN files[g], files[f][i].no = files[g][i].no
  PROVE  \A k \in 1..i : files[f][k] = files[g][k]
<1>1. DOMAIN files = 1..Len(files) /\ Len(files) \in Nat /\ files[f] \in Texts /\ files[g] \in Texts
  BY InFiles DEF TypeOK
<1>2. i \in Nat /\ f \in Nat /\ g \in Nat
  BY <1>1, InTexts
<1>3. CASE f < g
  <2>1. Descends(files[g], files[f])
    BY <1>3 DEF Transcripts
  <2>2. \A k \in 1..i : files[g][k] = files[f][k + (i - i)]
    BY <2>1 DEF Descends
  <2> QED
    BY <2>2, <1>2
<1>4. CASE g < f
  <2>1. Descends(files[f], files[g])
    BY <1>4 DEF Transcripts
  <2>2. \A k \in 1..i : files[f][k] = files[g][k + (i - i)]
    BY <2>1 DEF Descends
  <2> QED
    BY <2>2, <1>2
<1> QED
  BY <1>2, <1>3, <1>4

(* A position is one of the file a reader has open when it goes on there.  *)
LEMMA GoesOnReads ==
  ASSUME TypeOK, Transcripts, Kept, NEW p \in Readers, GoesOn(p), reader[p].size <= Len(Reading(p))
  PROVE  IsReading(Reading(p), state)
<1> DEFINE g == reader[p].file
           n == state.offset
<1>1. PICK f \in DOMAIN files : IsReading(files[f], state) /\ state.sum = Checksum(files[f], n)
  BY DEF Kept
<1>2. /\ g \in DOMAIN files /\ Reading(p) = files[g] /\ state \in Positions /\ n \in Nat
      /\ reader[p].size \in Nat
  BY DEF TypeOK, Reading, ReaderStates, Positions
<1>3. files[f] \in Texts /\ files[g] \in Texts
  BY <1>1, <1>2, InFiles DEF TypeOK
<1>4. n <= Len(files[f]) /\ n <= Len(files[g])
  BY <1>1, <1>2, <1>3, InTexts DEF IsReading, GoesOn
<1>5. \A i \in 1..n : files[f][i] = files[g][i]
  <2>1. CASE n = 0
    BY <2>1
  <2>2. CASE n # 0
    <3>1. n \in DOMAIN files[f] /\ n \in DOMAIN files[g]
      BY <2>2, <1>2, <1>3, <1>4, InTexts
    <3>2. files[f][n].no + 1 = files[g][n].no + 1
      BY <2>2, <1>1, <1>2 DEF Checksum, GoesOn
    <3>3. files[f][n].no = files[g][n].no
      BY <3>1, <3>2, <1>3, InTexts, UsageAssumption DEF LineNos
    <3> QED
      BY <3>1, <3>3, <1>1, <1>2, SameSoFar
  <2> QED
    BY <2>1, <2>2
<1> HIDE DEF n, g
<1> QED
  BY <1>1, <1>2, <1>4, <1>5, SameReading DEF n

(* A line is written: everything read stays read.                          *)
LEMMA WriteFiles ==
  ASSUME TypeOK, Transcripts, NEW id \in Ids, Write(id)
  PROVE  /\ DOMAIN files' = DOMAIN files /\ files' \in Seq(Texts)
         /\ \A f \in DOMAIN files : /\ Len(files[f]) <= Len(files'[f])
                                    /\ \A i \in DOMAIN files[f] : files'[f][i] = files[f][i]
         /\ Transcripts'
<1> DEFINE l == Line(id)
<1>1. /\ DOMAIN files = 1..Newest /\ Newest \in DOMAIN files /\ Newest \in Nat
      /\ \A f \in DOMAIN files : files[f] \in Texts
  BY InFiles DEF TypeOK, Newest
<1>2. l \in [id : Ids, no : LineNos] /\ l.id = id /\ l.no = written
  BY UsageAssumption DEF TypeOK, Write, Line, LineNos
<1>3. files' = [files EXCEPT ![Newest] = Append(Transcript, l)] /\ Transcript = files[Newest]
  BY DEF Write, Transcript
<1> HIDE DEF l
<1> PICK text : text = Append(Transcript, l)
  OBVIOUS
<1>4. /\ text \in Texts /\ DOMAIN text = 1..(Len(Transcript) + 1) /\ Len(text) = Len(Transcript) + 1
      /\ DOMAIN Transcript = 1..Len(Transcript) /\ Len(Transcript) \in Nat
      /\ \A i \in 1..Len(Transcript) : text[i] = Transcript[i]
      /\ text[Len(Transcript) + 1] = l
  BY <1>1, <1>2, <1>3, Appended
<1>5. /\ DOMAIN files' = DOMAIN files /\ files' \in Seq(Texts) /\ files'[Newest] = text
      /\ \A f \in DOMAIN files : f # Newest => files'[f] = files[f]
  BY <1>1, <1>3, <1>4, ExceptSeq DEF TypeOK, Newest
<1>6. ASSUME NEW f \in DOMAIN files
      PROVE  /\ Len(files[f]) <= Len(files'[f])
             /\ \A i \in DOMAIN files[f] : files'[f][i] = files[f][i]
  <2>1. CASE f = Newest
    BY <2>1, <1>3, <1>4, <1>5
  <2>2. CASE f # Newest
    BY <2>2, <1>1, <1>5, InTexts
  <2> QED
    BY <2>1, <2>2
<1>7. /\ written \in Nat /\ written' = written + 1 /\ begun \in Nat /\ begun' \in Nat
      /\ begun <= begun' /\ id <= begun'
      /\ \A f \in DOMAIN files : InOrder(files[f]) /\ Close(files[f])
      /\ \A f \in DOMAIN files : \A i \in 1..Len(files[f]) : files[f][i].no < written /\ files[f][i].id <= begun
  <2>1. id \in Nat /\ begun \in Nat /\ written \in Nat
    BY UsageAssumption DEF TypeOK
  <2>2. begun' \in Nat /\ begun <= begun' /\ id <= begun' /\ written' = written + 1
    BY <2>1 DEF Write
  <2>3. \A f \in DOMAIN files : DOMAIN files[f] = 1..Len(files[f])
    BY <1>1, InTexts
  <2> QED
    BY <2>1, <2>2, <2>3 DEF Transcripts
<1>8. InOrder(text) /\ \A i \in DOMAIN text : text[i].no < written' /\ text[i].id <= begun'
  <2>1. \A i \in 1..Len(Transcript) : Transcript[i] \in [id : Ids, no : LineNos]
    BY <1>1, <1>3, InTexts
  <2>2. \A i \in 1..Len(Transcript) : Transcript[i].no < written /\ Transcript[i].id <= begun
    BY <1>1, <1>3, <1>7
  <2>3. InOrder(Transcript)
    BY <1>1, <1>3, <1>7
  <2>4. \A i \in DOMAIN text : text[i].no < written' /\ text[i].id <= begun'
    <3> TAKE i \in DOMAIN text
    <3>1. CASE i = Len(Transcript) + 1
      BY <3>1, <1>2, <1>4, <1>7
    <3>2. CASE i \in 1..Len(Transcript)
      BY <3>2, <2>1, <2>2, <1>4, <1>7, UsageAssumption DEF LineNos
    <3> QED
      BY <3>1, <3>2, <1>4
  <2>5. InOrder(text)
    <3> SUFFICES ASSUME NEW i \in DOMAIN text, NEW j \in DOMAIN text, i < j PROVE text[i].no < text[j].no
      BY DEF InOrder
    <3>1. i \in 1..Len(Transcript)
      BY <1>4
    <3>2. CASE j = Len(Transcript) + 1
      BY <3>1, <3>2, <2>2, <1>2, <1>4
    <3>3. CASE j \in 1..Len(Transcript)
      BY <3>1, <3>3, <2>3, <1>4 DEF InOrder
    <3> QED
      BY <3>2, <3>3, <1>4
  <2> QED
    BY <2>4, <2>5
<1>9. Close(text)
  <2>1. ASSUME id = begun + 1 PROVE \A k \in DOMAIN Transcript : Transcript[k].id # l.id
    <3> SUFFICES ASSUME NEW k \in 1..Len(Transcript) PROVE Transcript[k].id # id
      BY <1>2, <1>4
    <3>1. Transcript[k].id <= begun /\ Transcript[k].id \in Ids
      BY <1>1, <1>3, <1>4, <1>7, InTexts
    <3> QED
      BY <3>1, <2>1, <1>7, UsageAssumption
  <2>2. Continues(Transcript, l.id) \/ \A k \in DOMAIN Transcript : Transcript[k].id # l.id
    BY <2>1, <1>2 DEF Write
  <2>3. Transcript \in Texts /\ Close(Transcript)
    BY <1>1, <1>3, <1>7
  <2> QED
    BY <2>2, <2>3, <1>2, StaysClose
<1>10. ASSUME NEW f \in DOMAIN files, NEW g \in DOMAIN files, f < g
       PROVE  Descends(files'[g], files'[f])
  <2>1. f # Newest /\ files'[f] = files[f] /\ Descends(files[g], files[f])
    BY <1>1, <1>5, <1>10 DEF Transcripts
  <2>2. CASE g # Newest
    BY <2>1, <2>2, <1>5
  <2>3. CASE g = Newest
    <3> SUFFICES ASSUME NEW i \in DOMAIN text, NEW j \in DOMAIN files[f], text[i].no = files[f][j].no
                 PROVE  i <= j /\ \A k \in 1..i : text[k] = files[f][k + (j - i)]
      BY <2>1, <2>3, <1>5 DEF Descends
    <3>1. files[f][j].no < written /\ files[f][j].no \in Nat
      <4>1. files[f] \in Texts
        BY <1>1
      <4>2. j \in 1..Len(files[f]) /\ files[f][j] \in [id : Ids, no : LineNos]
        BY <4>1, InTexts
      <4> QED
        BY <4>2, <1>7, UsageAssumption DEF LineNos
    <3>2. i \in 1..Len(Transcript) /\ text[i] = Transcript[i]
      BY <3>1, <1>2, <1>4, <1>7
    <3>3. i <= j /\ \A k \in 1..i : Transcript[k] = files[f][k + (j - i)]
      BY <3>2, <2>1, <2>3, <1>3, <1>4 DEF Descends
    <3> QED
      BY <3>2, <3>3, <1>4
  <2> QED
    BY <2>2, <2>3
<1>11. Transcripts'
  <2>1. ASSUME NEW f \in DOMAIN files
        PROVE  /\ InOrder(files'[f]) /\ Close(files'[f])
               /\ \A i \in DOMAIN files'[f] : files'[f][i].no < written' /\ files'[f][i].id <= begun'
    <3>1. CASE f = Newest
      BY <3>1, <1>5, <1>8, <1>9
    <3>2. CASE f # Newest
      <4>1. \A i \in DOMAIN files[f] : files[f][i] \in [id : Ids, no : LineNos] /\ i \in 1..Len(files[f])
        BY <1>1, InTexts
      <4>2. \A i \in DOMAIN files[f] : files[f][i].no < written' /\ files[f][i].id <= begun'
        <5> TAKE i \in DOMAIN files[f]
        <5>1. files[f][i] \in [id : Ids, no : LineNos] /\ files[f][i].no < written /\ files[f][i].id <= begun
          BY <4>1, <1>7
        <5>2. files[f][i].no \in Nat /\ files[f][i].id \in Nat
          <6>1. files[f][i].no \in LineNos /\ files[f][i].id \in Ids
            BY <5>1
          <6>2. LineNos \subseteq Nat /\ Ids \subseteq Nat
            BY UsageAssumption DEF LineNos
          <6> QED
            BY <6>1, <6>2
        <5> QED
          BY <5>1, <5>2, <1>7
      <4> QED
        BY <3>2, <4>2, <1>5, <1>7
    <3> QED
      BY <3>1, <3>2
  <2> QED
    BY <2>1, <1>5, <1>10 DEF Transcripts
<1> QED
  BY <1>5, <1>6, <1>11

(* The transcript is rewritten: one file more.                             *)
LEMMA RewriteFiles ==
  ASSUME TypeOK, Transcripts, Rewrite
  PROVE  /\ DOMAIN files \subseteq DOMAIN files' /\ files' \in Seq(Texts)
         /\ \A f \in DOMAIN files : files'[f] = files[f]
         /\ Transcripts'
<1> DEFINE z == Newest + 1
<1>1. /\ DOMAIN files = 1..Newest /\ Newest \in DOMAIN files /\ Newest \in Nat
      /\ \A f \in DOMAIN files : files[f] \in Texts
  BY InFiles DEF TypeOK, Newest
<1>2. PICK part : /\ files' = Append(files, part)
                  /\ part = Tail(Transcript) \/ \E n \in 1..(Len(Transcript) - 1) : part = SubSeq(Transcript, 1, n)
  BY DEF Rewrite
<1>3. /\ Transcript = files[Newest] /\ Transcript \in Texts /\ Len(Transcript) \in Nat
      /\ Len(Transcript) > 1 /\ DOMAIN Transcript = 1..Len(Transcript)
      /\ \A i \in 1..Len(Transcript) : Transcript[i] \in [id : Ids, no : LineNos]
  BY <1>1, InTexts DEF Transcript, Rewrite
<1>4. PICK m \in Nat, n \in Nat : Part(part, Transcript, m, n)
  <2> DEFINE S == [id : Ids, no : LineNos]
  <2>0. Transcript \in Seq(S) /\ Transcript # << >>
    BY <1>3 DEF Texts
  <2>1. CASE part = Tail(Transcript)
    <3> HIDE DEF S
    <3>1. part \in Seq(S) /\ Len(part) = Len(Transcript) - 1 /\ \A i \in 1..Len(part) : part[i] = Transcript[i + 1]
      BY <2>0, <2>1, HeadTailProperties
    <3>2. Len(part) \in Nat /\ 1 + Len(part) <= Len(Transcript)
      BY <3>1, <1>3
    <3>3. part \in Texts
      BY <3>1 DEF Texts, S
    <3>4. \A i \in 1..Len(part) : part[i] = Transcript[1 + i]
      BY <3>1, <3>2
    <3>5. Part(part, Transcript, 1, Len(part))
      BY <3>2, <3>3, <3>4 DEF Part
    <3> QED
      BY <3>2, <3>5
  <2>2. ASSUME NEW n \in 1..(Len(Transcript) - 1), part = SubSeq(Transcript, 1, n)
        PROVE  Part(part, Transcript, 0, n)
    <3>0. n \in Int /\ 1 \in Int /\ \A i \in 1..n : Transcript[i] \in S
      BY <1>3
    <3> HIDE DEF S
    <3>1. part \in Seq(S) /\ Len(part) = n /\ \A i \in 1..n : part[i] = Transcript[1 + i - 1]
      BY <3>0, <2>2, SubSeqProperties
    <3> QED
      BY <3>1, <1>3 DEF Part, Texts, S
  <2> QED
    BY <2>1, <2>2, <1>2
<1>5. /\ part \in Texts /\ DOMAIN part = 1..n /\ m + n <= Len(Transcript)
      /\ \A i \in 1..n : part[i] = Transcript[m + i] /\ m + i \in DOMAIN Transcript
  BY <1>3, <1>4, InTexts DEF Part
<1>6. /\ DOMAIN files' = 1..z /\ files' \in Seq(Texts) /\ files'[z] = part
      /\ \A f \in DOMAIN files : files'[f] = files[f]
  BY <1>1, <1>2, <1>5, AppendProperties, InFiles DEF TypeOK, Newest
<1> HIDE DEF z
<1>7. UNCHANGED <<written, begun>>
  BY DEF Rewrite
<1>8. /\ InOrder(part) /\ Close(part)
      /\ \A i \in DOMAIN part : part[i].no < written /\ part[i].id <= begun
  <2>1. InOrder(Transcript) /\ Close(Transcript)
    BY <1>1, <1>3 DEF Transcripts
  <2>2. \A i \in DOMAIN Transcript : Transcript[i].no < written /\ Transcript[i].id <= begun
    BY <1>1, <1>3 DEF Transcripts
  <2> QED
    BY <2>1, <2>2, <1>3, <1>4, <1>5, PartIsText
<1>9. ASSUME NEW f \in DOMAIN files PROVE Descends(part, files[f])
  <2> SUFFICES ASSUME NEW i \in 1..n, NEW j \in DOMAIN files[f], part[i].no = files[f][j].no
               PROVE  i <= j /\ \A k \in 1..i : part[k] = files[f][k + (j - i)]
    BY <1>5 DEF Descends
  <2>1. part[i] = Transcript[m + i] /\ m + i \in DOMAIN Transcript
    BY <1>5
  <2>2. j \in Nat
    BY <1>1, InTexts
  <2>3. m + i <= j /\ \A k \in 1..(m + i) : Transcript[k] = files[f][k + (j - (m + i))]
    <3>1. CASE f < Newest
      <4>1. Descends(Transcript, files[f])
        BY <3>1, <1>1, <1>3 DEF Transcripts
      <4> QED
        BY <4>1, <2>1 DEF Descends
    <3>2. CASE f = Newest
      <4>1. files[f] = Transcript /\ j \in DOMAIN Transcript /\ Transcript[m + i].no = Transcript[j].no
        BY <3>2, <2>1, <1>3
      <4>2. Transcript[j] \in [id : Ids, no : LineNos]
        BY <4>1, <1>3
      <4>3. InOrder(Transcript)
        BY <1>1, <1>3 DEF Transcripts
      <4>4. ~(m + i < j) /\ ~(j < m + i)
        BY <4>1, <4>2, <4>3, <2>1, UsageAssumption DEF InOrder, LineNos
      <4>5. m + i = j
        BY <4>4, <2>2
      <4> QED
        BY <4>1, <4>5, <2>2
    <3> QED
      BY <3>1, <3>2, <1>1
  <2>4. i <= j
    BY <2>2, <2>3
  <2>5. ASSUME NEW k \in 1..i PROVE part[k] = files[f][k + (j - i)]
    <3>1. m + k \in 1..(m + i) /\ part[k] = Transcript[m + k]
      BY <1>5
    <3>2. Transcript[m + k] = files[f][(m + k) + (j - (m + i))]
      BY <3>1, <2>3
    <3>3. (m + k) + (j - (m + i)) = k + (j - i)
      BY <2>2
    <3> QED
      BY <3>1, <3>2, <3>3
  <2> QED
    BY <2>4, <2>5
<1>10. Transcripts'
  <2>1. ASSUME NEW f \in DOMAIN files'
        PROVE  /\ InOrder(files'[f]) /\ Close(files'[f])
               /\ \A i \in DOMAIN files'[f] : files'[f][i].no < written' /\ files'[f][i].id <= begun'
    <3>1. CASE f = z
      BY <3>1, <1>6, <1>7, <1>8
    <3>2. CASE f \in DOMAIN files
      BY <3>2, <1>6, <1>7 DEF Transcripts
    <3> QED
      BY <3>1, <3>2, <1>1, <1>6 DEF z
  <2>2. ASSUME NEW f \in DOMAIN files', NEW g \in DOMAIN files', f < g
        PROVE  Descends(files'[g], files'[f])
    <3>1. f \in DOMAIN files
      BY <2>2, <1>1, <1>6 DEF z
    <3>2. CASE g = z
      BY <3>1, <3>2, <1>6, <1>9
    <3>3. CASE g \in DOMAIN files
      BY <3>1, <3>3, <2>2, <1>6 DEF Transcripts
    <3> QED
      BY <3>2, <3>3, <1>1, <1>6 DEF z
  <2> QED
    BY <2>1, <2>2 DEF Transcripts
<1> QED
  BY <1>1, <1>6, <1>10 DEF z

---------------------------------------------------------------------------
(* The steps.                                                              *)

(* What a reader and a step of it are made of.                             *)
LEMMA InReader ==
  ASSUME TypeOK, NEW p \in Readers
  PROVE  /\ reader[p] = [pc |-> reader[p].pc, file |-> reader[p].file, size |-> reader[p].size, s |-> reader[p].s,
                         sinceCtx |-> reader[p].sinceCtx, sinceSave |-> reader[p].sinceSave]
         /\ reader[p] \in ReaderStates /\ reader[p].s \in Positions
         /\ reader[p].file \in DOMAIN files /\ files[reader[p].file] \in Texts
         /\ Reading(p) = files[reader[p].file]
  BY InFiles DEF TypeOK, ReaderStates, Reading

LEMMA ChecksumTyped ==
  ASSUME NEW text \in Texts, NEW n \in Nat, n <= Len(text)
  PROVE  Checksum(text, n) \in Nat
<1>1. CASE n = 0
  BY <1>1 DEF Checksum
<1>2. CASE n # 0
  <2>1. n \in DOMAIN text
    BY <1>2, InTexts
  <2>2. text[n].no \in LineNos
    BY <2>1, InTexts
  <2> QED
    BY <2>2, <1>2, UsageAssumption DEF Checksum, LineNos
<1> QED
  BY <1>1, <1>2

(* A reader that saves keeps what it has read.                             *)
LEMMA SaveKeeps ==
  ASSUME IInv, NEW p \in Readers, reader[p].pc = "reads", Save(p), UNCHANGED files
  PROVE  Kept' /\ state' \in Positions
<1>1. /\ reader[p].s \in Positions /\ IsReading(Reading(p), reader[p].s)
      /\ Reading(p) = files[reader[p].file] /\ reader[p].file \in DOMAIN files /\ Reading(p) \in Texts
  BY InReader DEF IInv, ReadersOK, ReaderOK
<1> PICK s, c, f : s = reader[p].s /\ c = Checksum(Reading(p), s.offset) /\ f = reader[p].file
  OBVIOUS
<1>2. state' = [s EXCEPT !.sum = c]
  BY DEF Save
<1>3. s \in Positions /\ s.offset \in Nat /\ s.offset <= Len(files[f])
  BY <1>1 DEF Positions, IsReading
<1>4. c \in Nat
  BY <1>1, <1>3, ChecksumTyped
<1>5. /\ state' \in Positions /\ state'.sum = c /\ state'.offset = s.offset
      /\ state'.recent = s.recent /\ state'.total = s.total
  BY <1>2, <1>3, <1>4 DEF Positions
<1>6. IsReading(files[f], state')
  BY <1>1, <1>5 DEF IsReading
<1>7. files' = files /\ f \in DOMAIN files' /\ state'.sum = Checksum(files'[f], state'.offset)
  BY <1>1, <1>5
<1> QED
  BY <1>5, <1>6, <1>7 DEF Kept

(* The files grow: what was read stays read.                               *)
LEMMA FilesGrow ==
  ASSUME IInv, files' \in Seq(Texts), DOMAIN files \subseteq DOMAIN files',
         \A f \in DOMAIN files : /\ Len(files[f]) <= Len(files'[f])
                                 /\ \A i \in DOMAIN files[f] : files'[f][i] = files[f][i],
         UNCHANGED <<state, reader>>
  PROVE  Kept' /\ ReadersOK'
<1>1. ASSUME NEW f \in DOMAIN files, NEW s \in Positions, IsReading(files[f], s)
      PROVE  IsReading(files'[f], s) /\ Checksum(files'[f], s.offset) = Checksum(files[f], s.offset)
  <2>1. /\ files[f] \in Texts /\ files'[f] \in Texts /\ s.offset \in Nat /\ s.offset <= Len(files[f])
    BY <1>1, InFiles DEF IInv, TypeOK, Positions, IsReading
  <2>2. /\ DOMAIN files[f] = 1..Len(files[f]) /\ Len(files[f]) \in Nat /\ Len(files'[f]) \in Nat
    BY <2>1, InTexts
  <2>3. s.offset <= Len(files'[f]) /\ \A i \in 1..s.offset : files[f][i] = files'[f][i]
    BY <2>1, <2>2
  <2>4. IsReading(files'[f], s)
    BY <2>3, <1>1, SameReading
  <2> QED
    BY <2>1, <2>3, <2>4 DEF Checksum
<1>2. Kept'
  <2>1. state \in Positions
    BY DEF IInv, TypeOK
  <2> QED
    BY <2>1, <1>1 DEF IInv, Kept
<1>3. ASSUME NEW p \in Readers PROVE ReaderOK(p)'
  <2> PICK r : r = reader[p]
    OBVIOUS
  <2>1. /\ r.s \in Positions /\ r.file \in DOMAIN files /\ r.size \in Nat
        /\ reader'[p] = r /\ Reading(p) = files[r.file] /\ Reading(p)' = files'[r.file]
    BY InReader DEF IInv, ReaderStates, Reading
  <2>2. /\ r.pc # "idle" => r.size <= Len(files[r.file])
        /\ r.pc \in {"reads", "returned"} => IsReading(files[r.file], r.s)
        /\ r.pc = "returned" => r.size <= r.s.offset
    BY <2>1 DEF IInv, ReadersOK, ReaderOK
  <2>3. Len(files[r.file]) \in Nat /\ Len(files'[r.file]) \in Nat /\ Len(files[r.file]) <= Len(files'[r.file])
    BY <2>1, InFiles, InTexts DEF IInv, TypeOK
  <2> QED
    BY <2>1, <2>2, <2>3, <1>1 DEF ReaderOK
<1> QED
  BY <1>2, <1>3 DEF ReadersOK

(* One reader moves on, the files as they are.                             *)
LEMMA ReaderMoves ==
  ASSUME IInv, NEW p \in Readers, NEW r \in ReaderStates, r.file \in DOMAIN files,
         reader' = [reader EXCEPT ![p] = r], UNCHANGED <<files, written, begun>>,
         mishaps' \in 0..Mishaps,
         UNCHANGED state \/ (Kept' /\ state' \in Positions),
         r.pc # "idle" => r.size <= Len(files[r.file]),
         r.pc \in {"reads", "returned"} => IsReading(files[r.file], r.s),
         r.pc = "returned" => r.size <= r.s.offset
  PROVE  IInv'
<1>1. TypeOK'
  BY DEF IInv, TypeOK
<1>2. Transcripts'
  BY DEF IInv, Transcripts
<1>3. Kept'
  BY DEF IInv, Kept
<1>4. ASSUME NEW q \in Readers PROVE ReaderOK(q)'
  <2>1. reader \in [Readers -> ReaderStates]
    BY DEF IInv, TypeOK
  <2>2. CASE q = p
    <3>1. reader'[q] = r
      BY <2>1, <2>2
    <3> QED
      BY <3>1 DEF ReaderOK, Reading
  <2>3. CASE q # p
    <3>1. reader'[q] = reader[q] /\ ReaderOK(q)
      BY <2>1, <2>3 DEF IInv, ReadersOK
    <3> QED
      BY <3>1 DEF ReaderOK, Reading
  <2> QED
    BY <2>2, <2>3
<1> QED
  BY <1>1, <1>2, <1>3, <1>4 DEF IInv, ReadersOK

LEMMA InitInv == Init => IInv
<1> SUFFICES ASSUME Init PROVE IInv
  OBVIOUS
<1> DEFINE text == [i \in 1..Old |-> [id |-> i, no |-> i - 1]]
<1>1. /\ Old \in Nat /\ Old <= Lines /\ Lines \in Nat /\ 1..Old \subseteq Ids /\ LineNos = 0..(Lines - 1)
      /\ RecentIDs \in Nat \ {0} /\ Mishaps \in Nat
  BY UsageAssumption DEF LineNos
<1>2. text \in Texts /\ Len(text) = Old /\ DOMAIN text = 1..Old
  <2>1. \A i \in 1..Old : [id |-> i, no |-> i - 1] \in [id : Ids, no : LineNos]
    BY <1>1
  <2> QED
    BY <2>1, <1>1, IsASeq DEF Texts
<1>3. \A i \in 1..Old : text[i].id = i /\ text[i].no = i - 1
  OBVIOUS
<1> HIDE DEF text
<1>4. /\ files = <<text>> /\ written = Old /\ begun = Old /\ state = Start
      /\ reader = [p \in Readers |-> Resting] /\ mishaps = Mishaps
  BY DEF Init, text
<1>5. files \in Seq(Texts) /\ files # << >> /\ DOMAIN files = {1} /\ files[1] = text
  BY <1>2, <1>4
<1>6. Start \in Positions /\ IsReading(text, Start) /\ Start.offset = 0 /\ Start.sum = 0
  BY <1>2, NothingRead DEF Start
<1>7. Resting \in ReaderStates /\ Resting.pc = "idle" /\ Resting.file = 1
  BY <1>6 DEF Resting, ReaderStates
<1>8. TypeOK
  <2>1. written \in 0..Lines /\ begun \in {0} \union Ids
    BY <1>1, <1>4
  <2> QED
    BY <2>1, <1>1, <1>4, <1>5, <1>6, <1>7 DEF TypeOK
<1>9. Transcripts
  <2>1. InOrder(text)
    BY <1>1, <1>2, <1>3 DEF InOrder
  <2>2. Close(text)
    BY <1>1, <1>2, <1>3 DEF Close
  <2>3. \A i \in DOMAIN text : text[i].no < written /\ text[i].id <= begun
    BY <1>1, <1>2, <1>3, <1>4
  <2> QED
    BY <2>1, <2>2, <2>3, <1>5 DEF Transcripts
<1>10. Kept
  BY <1>4, <1>5, <1>6 DEF Kept, Checksum
<1>11. ReadersOK
  BY <1>4, <1>7 DEF ReadersOK, ReaderOK
<1> QED
  BY <1>8, <1>9, <1>10, <1>11 DEF IInv

LEMMA WriteInv == ASSUME IInv, NEW id \in Ids, Write(id) PROVE IInv'
<1>1. TypeOK /\ Transcripts
  BY DEF IInv
<1>2. /\ DOMAIN files' = DOMAIN files /\ files' \in Seq(Texts)
      /\ \A f \in DOMAIN files : /\ Len(files[f]) <= Len(files'[f])
                                 /\ \A i \in DOMAIN files[f] : files'[f][i] = files[f][i]
      /\ Transcripts'
  BY <1>1, WriteFiles
<1>3. /\ written' \in 0..Lines /\ begun' \in {0} \union Ids /\ UNCHANGED <<state, reader, mishaps>>
  BY <1>1, UsageAssumption DEF TypeOK, Write
<1>4. files' # << >>
  BY <1>1, <1>2, InFiles DEF TypeOK
<1>5. TypeOK'
  BY <1>1, <1>2, <1>3, <1>4 DEF TypeOK
<1>6. Kept' /\ ReadersOK'
  BY <1>2, <1>3, FilesGrow
<1> QED
  BY <1>2, <1>5, <1>6 DEF IInv

LEMMA RewriteInv == ASSUME IInv, Rewrite PROVE IInv'
<1>1. TypeOK /\ Transcripts
  BY DEF IInv
<1>2. /\ DOMAIN files \subseteq DOMAIN files' /\ files' \in Seq(Texts)
      /\ \A f \in DOMAIN files : files'[f] = files[f]
      /\ Transcripts'
  BY <1>1, RewriteFiles
<1>3. UNCHANGED <<written, begun, state, reader, mishaps>>
  BY DEF Rewrite
<1>4. files' # << >>
  BY <1>1, <1>2, InFiles DEF TypeOK
<1>5. TypeOK'
  BY <1>1, <1>2, <1>3, <1>4 DEF TypeOK
<1>6. \A f \in DOMAIN files : Len(files[f]) <= Len(files'[f])
  BY <1>1, <1>2, InFiles, InTexts DEF TypeOK
<1>7. Kept' /\ ReadersOK'
  BY <1>2, <1>3, <1>6, FilesGrow
<1> QED
  BY <1>2, <1>5, <1>7 DEF IInv

LEMMA RestingFits == Resting \in ReaderStates /\ Resting.pc = "idle" /\ Resting.file = 1
  BY DEF Resting, ReaderStates, Start, Positions

LEMMA FirstFile == ASSUME TypeOK PROVE 1 \in DOMAIN files /\ Newest \in DOMAIN files
  BY InFiles DEF TypeOK, Newest

(* A reader is done, or ends for another reason.                           *)
LEMMA RestInv ==
  ASSUME IInv, NEW p \in Readers, reader' = [reader EXCEPT ![p] = Resting],
         UNCHANGED <<files, written, begun>>, mishaps' \in 0..Mishaps,
         UNCHANGED state \/ (Kept' /\ state' \in Positions)
  PROVE  IInv'
<1>1. TypeOK
  BY DEF IInv
<1>2. Resting.file \in DOMAIN files
  BY <1>1, RestingFits, FirstFile
<1> QED
  BY <1>2, RestingFits, ReaderMoves

LEMMA OpenInv == ASSUME IInv, NEW p \in Readers, Open(p) PROVE IInv'
<1> PICK r : r = [Resting EXCEPT !.pc = "opened", !.file = Newest, !.size = Len(Transcript)]
  OBVIOUS
<1>1. TypeOK /\ Newest \in DOMAIN files /\ Newest \in Nat /\ Transcript = files[Newest] /\ Transcript \in Texts
  BY FirstFile, InFiles DEF IInv, TypeOK, Newest, Transcript
<1>2. Len(Transcript) \in Nat
  BY <1>1, InTexts
<1>3. r \in ReaderStates /\ r.pc = "opened" /\ r.file = Newest /\ r.size = Len(Transcript)
  BY <1>1, <1>2, RestingFits DEF Resting, ReaderStates
<1>4. reader' = [reader EXCEPT ![p] = r] /\ UNCHANGED <<files, written, begun, state, mishaps>>
  BY DEF Open
<1>5. r.size <= Len(files[r.file]) /\ mishaps' \in 0..Mishaps
  BY <1>1, <1>2, <1>3, <1>4 DEF TypeOK
<1> QED
  BY <1>1, <1>3, <1>4, <1>5, ReaderMoves

LEMMA LoadInv == ASSUME IInv, NEW p \in Readers, Load(p) PROVE IInv'
<1> DEFINE g == reader[p].file
<1> PICK s, r : /\ s = IF GoesOn(p) THEN [state EXCEPT !.sum = 0] ELSE Start
                /\ r = [reader[p] EXCEPT !.pc = "reads", !.s = s]
  OBVIOUS
<1>1. /\ TypeOK /\ Transcripts /\ Kept /\ reader[p] \in ReaderStates /\ g \in DOMAIN files
      /\ files[g] \in Texts /\ Reading(p) = files[g] /\ state \in Positions
  BY InReader DEF IInv, TypeOK
<1>2. reader[p].size <= Len(files[g])
  BY <1>1 DEF IInv, ReadersOK, ReaderOK, Load
<1>3. s \in Positions /\ IsReading(files[g], s)
  <2>1. CASE GoesOn(p)
    <3>1. IsReading(files[g], state)
      BY <2>1, <1>1, <1>2, GoesOnReads
    <3>2. /\ s \in Positions /\ s.offset = state.offset /\ s.total = state.total /\ s.recent = state.recent
      BY <2>1, <1>1 DEF Positions
    <3> QED
      BY <3>1, <3>2 DEF IsReading
  <2>2. CASE ~GoesOn(p)
    BY <2>2, <1>1, NothingRead
  <2> QED
    BY <2>1, <2>2
<1>4. r \in ReaderStates /\ r.pc = "reads" /\ r.file = g /\ r.size = reader[p].size /\ r.s = s
  BY <1>1, <1>3 DEF ReaderStates
<1>5. reader' = [reader EXCEPT ![p] = r] /\ UNCHANGED <<files, written, begun, state, mishaps>>
  BY DEF Load
<1>6. mishaps' \in 0..Mishaps
  BY <1>1, <1>5 DEF TypeOK
<1> QED
  BY <1>1, <1>2, <1>3, <1>4, <1>5, <1>6, ReaderMoves

LEMMA CutOffInv == ASSUME IInv, NEW p \in Readers, CutOff(p) PROVE IInv'
<1>1. /\ reader[p].pc = "reads" /\ Save(p) /\ reader' = [reader EXCEPT ![p] = Resting]
      /\ UNCHANGED <<files, written, begun>>
  BY DEF CutOff
<1>2. mishaps' \in 0..Mishaps
  BY UsageAssumption DEF IInv, TypeOK, CutOff
<1>3. Kept' /\ state' \in Positions
  BY <1>1, SaveKeeps
<1> QED
  BY <1>1, <1>2, <1>3, RestInv

LEMMA ReadLineInv == ASSUME IInv, NEW p \in Readers, ReadLine(p) PROVE IInv'
<1> DEFINE g == reader[p].file
           n == reader[p].s.offset
           s == Taken(reader[p].s, Reading(p)[n + 1])
           due == reader[p].sinceSave >= SaveEvery
<1>0. PICK r, c, d : /\ r = [reader[p] EXCEPT !.s = s, !.sinceCtx = c, !.sinceSave = d]
                     /\ c = IF LookDue(p) THEN 1 ELSE reader[p].sinceCtx + 1
                     /\ d = IF due THEN 1 ELSE reader[p].sinceSave + 1
  OBVIOUS
<1>1. /\ TypeOK /\ reader[p] \in ReaderStates /\ g \in DOMAIN files
      /\ files[g] \in Texts /\ Reading(p) = files[g] /\ reader[p].s \in Positions
      /\ InOrder(files[g]) /\ Close(files[g])
  BY InReader DEF IInv, Transcripts
<1>2. /\ reader[p].pc = "reads" /\ n < Len(files[g]) /\ reader[p].size <= Len(files[g])
      /\ IsReading(files[g], reader[p].s)
  BY <1>1 DEF IInv, ReadersOK, ReaderOK, ReadLine
<1>3. s \in Positions /\ IsReading(files[g], s)
  BY <1>1, <1>2, TakeReads
<1>4. /\ reader' = [reader EXCEPT ![p] = r] /\ UNCHANGED <<files, written, begun, mishaps>>
      /\ IF due THEN Save(p) ELSE UNCHANGED state
  BY <1>0 DEF ReadLine, Taken
<1> HIDE DEF s, due
<1>5. r \in ReaderStates /\ r.pc = "reads" /\ r.file = g /\ r.size = reader[p].size /\ r.s = s
  <2>1. c \in Nat /\ d \in Nat
    BY <1>0, <1>1 DEF ReaderStates
  <2> QED
    BY <2>1, <1>0, <1>1, <1>2, <1>3 DEF ReaderStates
<1>6. UNCHANGED state \/ (Kept' /\ state' \in Positions)
  BY <1>2, <1>4, SaveKeeps
<1>7. mishaps' \in 0..Mishaps
  BY <1>1, <1>4 DEF TypeOK
<1> HIDE DEF g
<1> QED
  BY <1>1, <1>2, <1>3, <1>4, <1>5, <1>6, <1>7, ReaderMoves DEF g

LEMMA EndOfFileInv == ASSUME IInv, NEW p \in Readers, EndOfFile(p) PROVE IInv'
<1> DEFINE g == reader[p].file
<1> PICK r : r = [reader[p] EXCEPT !.pc = "returned"]
  OBVIOUS
<1>1. /\ TypeOK /\ reader[p] \in ReaderStates /\ g \in DOMAIN files
      /\ Reading(p) = files[g] /\ reader[p].s \in Positions
  BY InReader DEF IInv
<1>2. /\ reader[p].pc = "reads" /\ reader[p].s.offset = Len(files[g]) /\ reader[p].size <= Len(files[g])
      /\ IsReading(files[g], reader[p].s) /\ Save(p)
  BY <1>1 DEF IInv, ReadersOK, ReaderOK, EndOfFile
<1>3. reader' = [reader EXCEPT ![p] = r] /\ UNCHANGED <<files, written, begun, mishaps>>
  BY DEF EndOfFile
<1>4. r \in ReaderStates /\ r.pc = "returned" /\ r.file = g /\ r.size = reader[p].size /\ r.s = reader[p].s
  BY <1>1 DEF ReaderStates
<1>5. Kept' /\ state' \in Positions
  BY <1>2, <1>3, SaveKeeps
<1>6. mishaps' \in 0..Mishaps
  BY <1>1, <1>3 DEF TypeOK
<1>7. r.size <= Len(files[r.file]) /\ IsReading(files[r.file], r.s) /\ r.size <= r.s.offset
  BY <1>2, <1>4
<1> QED
  BY <1>1, <1>3, <1>4, <1>5, <1>6, <1>7, ReaderMoves

LEMMA ReturnInv == ASSUME IInv, NEW p \in Readers, Return(p) \/ Crash(p) PROVE IInv'
<1>1. /\ reader' = [reader EXCEPT ![p] = Resting] /\ UNCHANGED <<files, written, begun, state>>
      /\ mishaps' \in 0..Mishaps
  BY UsageAssumption DEF Return, Crash, IInv, TypeOK
<1> QED
  BY <1>1, RestInv

LEMMA NextInv == IInv /\ [Next]_vars => IInv'
<1> SUFFICES ASSUME IInv, [Next]_vars PROVE IInv'
  OBVIOUS
<1>1. CASE Rewrite
  BY <1>1, RewriteInv
<1>2. ASSUME NEW id \in Ids, Write(id) PROVE IInv'
  BY <1>2, WriteInv
<1>3. ASSUME NEW p \in Readers,
             Open(p) \/ Load(p) \/ CutOff(p) \/ ReadLine(p) \/ EndOfFile(p) \/ Return(p) \/ Crash(p)
      PROVE  IInv'
  BY <1>3, OpenInv, LoadInv, CutOffInv, ReadLineInv, EndOfFileInv, ReturnInv
<1>4. CASE UNCHANGED vars
  BY <1>4 DEF vars, IInv, TypeOK, Transcripts, Kept, ReadersOK, ReaderOK, Reading
<1> QED
  BY <1>1, <1>2, <1>3, <1>4 DEF Next

LEMMA InvCounts == IInv => EachCountedOnce
<1> SUFFICES ASSUME IInv, NEW p \in Readers, reader[p].pc = "returned"
             PROVE  /\ reader[p].s.offset >= reader[p].size
                    /\ Counted(reader[p].s) = Cost(Reading(p), reader[p].s.offset)
  BY DEF EachCountedOnce
<1>1. /\ reader[p] \in ReaderStates /\ reader[p].s \in Positions /\ reader[p].file \in DOMAIN files
      /\ Reading(p) = files[reader[p].file] /\ Reading(p) \in Texts /\ InOrder(Reading(p))
  BY InReader DEF IInv, Transcripts
<1>2. IsReading(Reading(p), reader[p].s) /\ reader[p].size <= reader[p].s.offset
  BY DEF IInv, ReadersOK, ReaderOK
<1>3. reader[p].s.offset >= reader[p].size
  BY <1>1, <1>2 DEF ReaderStates, Positions
<1> QED
  BY <1>1, <1>2, <1>3, ReadingIsCost

(* Files, the state file and the readers stay what they are.               *)
THEOREM Typed == Spec => []TypeOK
<1>1. IInv => TypeOK
  BY DEF IInv
<1> QED
  BY <1>1, InitInv, NextInv, PTL DEF Spec

(* However many processes read a transcript that the session goes on       *)
(* writing and rewrites, save late, are cut off or die: one that returns   *)
(* has counted each message of the file it read once, by its last line     *)
(* (Usage, take, SaveState).                                               *)
THEOREM EachIsCountedOnce == Spec => []EachCountedOnce
  BY InitInv, NextInv, InvCounts, PTL DEF Spec
=============================================================================
