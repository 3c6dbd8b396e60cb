---------------------------- MODULE LogTab_proofs ----------------------------
(***************************************************************************)
(* Proofs about the lines the Logs tab shows, for any sizes of the buffer, *)
(* the ring and the window, any number of lines, files and subscriptions.  *)
(*                                                                         *)
(* LInv says, of the subscription whose lines are shown, that what it sent *)
(* comes before what its file and the files after it still have (TailInv), *)
(* or before what is to be sent of the journal (PollInv).  A file is not   *)
(* lost because an event for it is pending while it was not opened         *)
(* (EventsInv) or not read to its end (PlaceInv).                          *)
(*                                                                         *)
(* BodyInv says that the body has the lines that match, kept up one by one *)
(* or composed anew: of all lines that came it is a window that moves on   *)
(* at its end with every line and at its beginning with every one that     *)
(* goes (Moves).                                                           *)
(*                                                                         *)
(* A log is only made anew when its opening and its last replacement were  *)
(* noticed (Calm): what happens otherwise is in the README.                *)
(***************************************************************************)
EXTENDS LogTab, SequenceTheorems, FiniteSetTheorems, WellFoundedInduction, TLAPS

SubFields == {"gen", "kind", "live", "ch", "failed", "at", "file", "off", "events", "prev",
              "out", "fails", "reader"}
Line == [src : {"log", "journal"}, n : Nat]
Opening == {"open", "watch"}
Reading == {"emit", "select"}
Polling == {"read", "send"}

(* What was written last has the highest number.                           *)
HostTypes == files \in Seq(Seq(Nat)) /\ files # <<>> /\ written \in Nat /\ journal \in Nat

HostInv ==
  /\ HostTypes
  /\ \A f \in DOMAIN files : \A k \in DOMAIN files[f] : files[f][k] <= written
  /\ \A f \in DOMAIN files : \A j, k \in DOMAIN files[f] : j < k => files[f][j] < files[f][k]
  /\ \A f, g \in DOMAIN files : f < g =>
       \A j \in DOMAIN files[f], k \in DOMAIN files[g] : files[f][j] < files[g][k]

Rises(ls) == \A i, k \in DOMAIN ls : i < k => ls[i].n < ls[k].n
FromOne(ls) == \A i \in DOMAIN ls : ls[i].src = target

PageInv ==
  /\ lines \in Seq(Line) /\ Len(lines) <= MaxShown /\ Rises(lines) /\ FromOne(lines)
  /\ gen \in Nat /\ target \in {"none", "log", "journal"}
  /\ target = "none" => subs = {} /\ lines = <<>>
  /\ \A s, t \in subs : s.gen = t.gen => s = t

(* What was read of the journal last, and what of it is still to be sent.  *)
ReadOK(prev, out) ==
  /\ prev # <<>> =>
       /\ Last(prev) <= journal
       /\ Len(prev) <= Window /\ Len(prev) <= Last(prev)
       /\ Len(prev) = Window \/ Len(prev) = Last(prev)
       /\ \A k \in DOMAIN prev : prev[k] + Len(prev) = Last(prev) + k
  /\ \A k \in DOMAIN out : prev # <<>> /\ out[k] <= Last(prev)
  /\ \A i, k \in DOMAIN out : i < k => out[i] < out[k]

TypedSub(s) ==
  /\ DOMAIN s = SubFields
  /\ s.gen \in 1 .. gen /\ s.kind \in {"log", "journal"} /\ s.ch \in Seq(Line)
  /\ s.live \in BOOLEAN
  /\ s.file \in Nat /\ s.off \in Nat /\ s.events \in Seq({"write", "create"})
  /\ s.prev \in Seq(Nat) /\ s.out \in Seq(Nat) /\ ReadOK(s.prev, s.out)
  /\ s.at \in Opening \cup Reading => s.kind = "log"
  /\ s.at \in Polling => s.kind = "journal"
  /\ s.at \in {"watch"} \cup Reading => s.file \in DOMAIN files
  /\ s.at \in Opening => s.ch = <<>> /\ s.events = <<>>

Sent(s) == ToSet(lines) \cup ToSet(s.ch)

(* Line n is one the file still has for the page, or one after it has.     *)
Unread(s, n) ==
  \/ \E k \in DOMAIN files[s.file] : k > s.off /\ n = files[s.file][k]
  \/ \E g \in DOMAIN files : g > s.file /\ \E k \in DOMAIN files[g] : n = files[g][k]

LastSentIs(s, n) ==
  /\ s.ch # <<>> => s.ch[Len(s.ch)].n = n
  /\ s.ch = <<>> => lines # <<>> /\ lines[Len(lines)].n = n

(* What the files still have for the page comes after all that was sent.   *)
SentBefore(s) ==
  \A x \in Sent(s) : x.n <= written /\ \A n : Unread(s, n) => x.n < n

CreatePending(s) == \E i \in DOMAIN s.events : s.events[i] = "create"

EventsInv(s) ==
  /\ \A i, k \in DOMAIN s.events : s.events[i] = "create" /\ s.events[k] = "create" => i = k
  /\ CreatePending(s) <=> s.file # Len(files)

PlaceInv(s) ==
  /\ s.off > Size(s) => Size(s) = 0 /\ s.events # <<>>
  /\ s.live /\ s.at = "select" => s.off >= Size(s) \/ s.events # <<>>
  /\ s.off = Size(s) /\ s.off > 0 => LastSentIs(s, files[s.file][s.off])

TailInv(s) == SentBefore(s) /\ EventsInv(s) /\ PlaceInv(s)

(* What is still to be sent comes after what was sent.                     *)
PollInv(s) ==
  /\ \A x \in Sent(s) : s.prev # <<>> /\ x.n <= Last(s.prev)
  /\ s.at = "send" => \A k \in DOMAIN s.out : \A x \in Sent(s) : x.n < s.out[k]

CurrentInv(s) ==
  /\ s.kind = target /\ (s.live => open)
  /\ Rises(s.ch) /\ FromOne(s.ch)
  /\ \A i \in DOMAIN lines, k \in DOMAIN s.ch : lines[i].n < s.ch[k].n
  /\ s.at \in Opening => lines = <<>>
  /\ s.at = "watch" => s.file = Len(files)
  /\ s.at \in Reading => TailInv(s)
  /\ s.at \in Polling => PollInv(s)

SubInv(s) == TypedSub(s) /\ (s.gen = gen => CurrentInv(s))
SubsInv == \A s \in subs : SubInv(s)
LInv == HostInv /\ PageInv /\ SubsInv

-----------------------------------------------------------------------------
(* Sequences. *)

LEMMA EmptyLine == <<>> \in Seq(Line) /\ Len(<<>>) = 0 /\ DOMAIN <<>> = {}
  OBVIOUS

(* A batch goes to the end of the lines, and the newest stay.              *)
LEMMA Pushed ==
  ASSUME NEW ls \in Seq(Line), NEW ch \in Seq(Line), ch # <<>>, Rises(ls), Rises(ch),
         \A i \in DOMAIN ls, k \in DOMAIN ch : ls[i].n < ch[k].n
  PROVE  LET r == Newest(ls \o ch)
         IN /\ r \in Seq(Line) /\ Len(r) <= MaxShown /\ Rises(r)
            /\ ToSet(r) \subseteq ToSet(ls) \cup ToSet(ch)
            /\ r # <<>> /\ r[Len(r)] = ch[Len(ch)]
<1> DEFINE all == ls \o ch
           from == Len(all) - MaxShown
           cut == SubSeq(all, from + 1, Len(all))
<1>0. MaxShown \in Nat /\ MaxShown > 0  BY LogTabAssumption
<1>1. /\ Len(ls) \in Nat /\ DOMAIN ls = 1 .. Len(ls)
      /\ Len(ch) \in Nat /\ DOMAIN ch = 1 .. Len(ch)
  BY LenProperties
<1>2. Len(ch) > 0  BY EmptySeq
<1>3. /\ all \in Seq(Line) /\ Len(all) = Len(ls) + Len(ch) /\ DOMAIN all = 1 .. Len(all)
      /\ \A i \in 1 .. Len(ls) : all[i] = ls[i]
      /\ \A i \in 1 .. Len(ch) : all[Len(ls) + i] = ch[i]
      /\ \A i \in 1 .. Len(all) : i > Len(ls) => i - Len(ls) \in 1 .. Len(ch) /\ all[i] = ch[i - Len(ls)]
  BY <1>1, ConcatProperties, LenProperties
<1> HIDE DEF all
<1>4. Rises(all)
  <2> SUFFICES ASSUME NEW i \in DOMAIN all, NEW k \in DOMAIN all, i < k
               PROVE  all[i].n < all[k].n
    BY DEF Rises
  <2>1. CASE k <= Len(ls)
    <3>1. i \in DOMAIN ls /\ k \in DOMAIN ls /\ all[i] = ls[i] /\ all[k] = ls[k]
      BY <2>1, <1>1, <1>3
    <3> QED  BY <3>1 DEF Rises
  <2>2. CASE i > Len(ls)
    <3> DEFINE a == i - Len(ls)
               b == k - Len(ls)
    <3>1. a \in DOMAIN ch /\ b \in DOMAIN ch /\ a < b /\ all[i] = ch[a] /\ all[k] = ch[b]
      BY <2>2, <1>1, <1>3
    <3> HIDE DEF a, b
    <3> QED  BY <3>1 DEF Rises
  <2>3. CASE i <= Len(ls) /\ k > Len(ls)
    <3> DEFINE b == k - Len(ls)
    <3>1. i \in DOMAIN ls /\ b \in DOMAIN ch /\ all[i] = ls[i] /\ all[k] = ch[b]
      BY <2>3, <1>1, <1>3
    <3> HIDE DEF b
    <3> QED  BY <3>1
  <2> QED  BY <2>1, <2>2, <2>3, <1>1, <1>3
<1>5. \A i \in DOMAIN all : all[i] \in ToSet(ls) \cup ToSet(ch)
  <2> SUFFICES ASSUME NEW i \in DOMAIN all PROVE all[i] \in ToSet(ls) \cup ToSet(ch)
    OBVIOUS
  <2>1. CASE i <= Len(ls)  BY <2>1, <1>1, <1>3 DEF ToSet
  <2>2. CASE i > Len(ls)  BY <2>2, <1>1, <1>3 DEF ToSet
  <2> QED  BY <2>1, <2>2, <1>1, <1>3
<1>6. all[Len(all)] = ch[Len(ch)] /\ Len(all) > 0
  BY <1>1, <1>2, <1>3
<1>7. CASE Len(all) > MaxShown
  <2>1. from \in Nat /\ from + MaxShown = Len(all)  BY <1>7, <1>0, <1>1, <1>3
  <2>2. /\ cut \in Seq(Line) /\ Len(cut) = MaxShown
        /\ \A i \in 1 .. MaxShown : from + i \in 1 .. Len(all) /\ cut[i] = all[from + i]
    BY <2>1, <1>0, <1>1, <1>3, <1>7, SubSeqProperties
  <2>3. DOMAIN cut = 1 .. MaxShown  BY <2>2, LenProperties
  <2>4. Newest(all) = cut  BY <1>7 DEF Newest
  <2> HIDE DEF cut, from
  <2>5. Rises(cut)
    <3> SUFFICES ASSUME NEW i \in 1 .. MaxShown, NEW k \in 1 .. MaxShown, i < k
                 PROVE  cut[i].n < cut[k].n
      BY <2>3 DEF Rises
    <3>1. /\ from + i \in DOMAIN all /\ from + k \in DOMAIN all /\ from + i < from + k
          /\ cut[i] = all[from + i] /\ cut[k] = all[from + k]
      BY <2>1, <2>2, <1>0, <1>3
    <3> QED  BY <3>1, <1>4 DEF Rises
  <2>6. ToSet(cut) \subseteq ToSet(ls) \cup ToSet(ch)
    <3> SUFFICES ASSUME NEW i \in 1 .. MaxShown PROVE cut[i] \in ToSet(ls) \cup ToSet(ch)
      BY <2>3 DEF ToSet
    <3>1. from + i \in DOMAIN all /\ cut[i] = all[from + i]  BY <2>2, <1>3
    <3> QED  BY <3>1, <1>5
  <2>7. cut[Len(cut)] = ch[Len(ch)] /\ cut # <<>>
    <3>1. MaxShown \in 1 .. MaxShown  BY <1>0
    <3>2. cut[MaxShown] = all[from + MaxShown]  BY <3>1, <2>2
    <3>3. cut[Len(cut)] = all[Len(all)]  BY <3>2, <2>1, <2>2
    <3>4. cut # <<>>  BY <3>1, <2>3
    <3> QED  BY <3>3, <3>4, <1>6
  <2> QED  BY <2>2, <2>4, <2>5, <2>6, <2>7, <1>0 DEF all
<1>8. CASE Len(all) <= MaxShown
  <2>1. Newest(all) = all  BY <1>8, <1>0, <1>1, <1>3 DEF Newest
  <2>2. ToSet(all) \subseteq ToSet(ls) \cup ToSet(ch)  BY <1>5 DEF ToSet
  <2>3. all # <<>>  BY <1>6
  <2> QED  BY <2>1, <2>2, <2>3, <1>3, <1>4, <1>6, <1>8 DEF all
<1> QED  BY <1>7, <1>8, <1>0, <1>1, <1>3

(* What is appended comes last.                                            *)
LEMMA Appended ==
  ASSUME NEW S, NEW q \in Seq(S), NEW e \in S
  PROVE  /\ Append(q, e) \in Seq(S) /\ Len(Append(q, e)) = Len(q) + 1
         /\ Append(q, e) # <<>> /\ DOMAIN Append(q, e) = 1 .. Len(q) + 1
         /\ DOMAIN q = 1 .. Len(q) /\ Len(q) \in Nat
         /\ \A i \in 1 .. Len(q) : Append(q, e)[i] = q[i]
         /\ Append(q, e)[Len(q) + 1] = e
         /\ ToSet(Append(q, e)) = ToSet(q) \cup {e}
<1>1. /\ Append(q, e) \in Seq(S) /\ Len(Append(q, e)) = Len(q) + 1
      /\ \A i \in 1 .. Len(q) : Append(q, e)[i] = q[i]
      /\ Append(q, e)[Len(q) + 1] = e
  BY AppendProperties
<1>2. DOMAIN q = 1 .. Len(q) /\ Len(q) \in Nat  BY LenProperties
<1>3. DOMAIN Append(q, e) = 1 .. Len(q) + 1  BY <1>1, LenProperties
<1> DEFINE a == Append(q, e)
<1> HIDE DEF a
<1>4. ToSet(a) = ToSet(q) \cup {e}
  <2>1. ASSUME NEW x \in ToSet(a) PROVE x \in ToSet(q) \cup {e}
    <3>1. PICK i \in 1 .. Len(q) + 1 : x = a[i]  BY <1>3 DEF ToSet, a
    <3>2. CASE i = Len(q) + 1  BY <3>1, <3>2, <1>1 DEF a
    <3>3. CASE i # Len(q) + 1
      <4>1. i \in 1 .. Len(q)  BY <3>3, <1>2
      <4> QED  BY <4>1, <3>1, <1>1, <1>2 DEF ToSet, a
    <3> QED  BY <3>2, <3>3
  <2>2. ASSUME NEW x \in ToSet(q) PROVE x \in ToSet(a)
    <3>1. PICK i \in 1 .. Len(q) : x = q[i]  BY <1>2 DEF ToSet
    <3>2. i \in 1 .. Len(q) + 1 /\ x = a[i]  BY <3>1, <1>1, <1>2 DEF a
    <3> QED  BY <3>2, <1>3 DEF ToSet, a
  <2>3. e \in ToSet(a)
    <3>1. Len(q) + 1 \in 1 .. Len(q) + 1  BY <1>2
    <3> QED  BY <3>1, <1>1, <1>3 DEF ToSet, a
  <2> QED  BY <2>1, <2>2, <2>3
<1>5. Append(q, e) # <<>>  BY AppendProperties
<1> QED  BY <1>1, <1>2, <1>3, <1>4, <1>5 DEF a

(* Without its head a sequence has the same elements, one place earlier.   *)
LEMMA Shifted ==
  ASSUME NEW S, NEW q \in Seq(S), q # <<>>
  PROVE  /\ Tail(q) \in Seq(S) /\ Len(Tail(q)) = Len(q) - 1 /\ Len(q) \in Nat /\ Len(q) > 0
         /\ DOMAIN Tail(q) = 1 .. Len(q) - 1 /\ DOMAIN q = 1 .. Len(q)
         /\ \A i \in 1 .. Len(q) - 1 : Tail(q)[i] = q[i + 1]
         /\ Head(q) = q[1] /\ Head(q) \in S
  BY HeadTailProperties, LenProperties, EmptySeq

LEMMA MinOfTwo ==
  ASSUME NEW a \in Nat, NEW b \in Nat
  PROVE  Min({a, b}) \in Nat /\ Min({a, b}) <= a /\ Min({a, b}) <= b
         /\ (Min({a, b}) = a \/ Min({a, b}) = b)
<1>1. \E x \in {a, b} : \A y \in {a, b} : x <= y
  <2>1. CASE a <= b  BY <2>1
  <2>2. CASE b <= a  BY <2>2
  <2> QED  BY <2>1, <2>2
<1>2. Min({a, b}) \in {a, b} /\ \A y \in {a, b} : Min({a, b}) <= y
  BY <1>1 DEF Min
<1> QED  BY <1>2

(* The last lines of the journal.                                          *)
LEMMA LastLinesAre ==
  ASSUME HostTypes
  PROVE  /\ LastLines \in Seq(Nat) /\ Len(LastLines) \in Nat
         /\ DOMAIN LastLines = 1 .. Len(LastLines)
         /\ Len(LastLines) <= Window /\ Len(LastLines) <= journal
         /\ Len(LastLines) = Window \/ Len(LastLines) = journal
         /\ \A k \in 1 .. Len(LastLines) : LastLines[k] + Len(LastLines) = journal + k
<1> DEFINE m == Min({journal, Window})
<1>1. journal \in Nat /\ Window \in Nat  BY LogTabAssumption DEF HostTypes
<1>2. m \in Nat /\ m <= journal /\ m <= Window /\ (m = journal \/ m = Window)
  BY <1>1, MinOfTwo
<1>3. LastLines = [k \in 1 .. m |-> journal - m + k]  BY DEF LastLines
<1> HIDE DEF m
<1>4. \A k \in 1 .. m : journal - m + k \in Nat  BY <1>1, <1>2
<1>5. LastLines \in [1 .. m -> Nat]  BY <1>3, <1>4
<1>6. LastLines \in Seq(Nat)  BY <1>5, <1>2, SeqDef
<1>7. DOMAIN LastLines = 1 .. m  BY <1>5
<1>8. Len(LastLines) = m  BY <1>6, <1>7, <1>2, LenProperties
<1>9. \A k \in 1 .. m : LastLines[k] + m = journal + k  BY <1>1, <1>2, <1>3
<1> QED  BY <1>1, <1>2, <1>6, <1>7, <1>8, <1>9

(* Lines that were the last ones of the journal up to p.                   *)
EndsAt(prev, p) ==
  /\ prev # <<>> => /\ p <= journal /\ p = prev[Len(prev)]
                    /\ Len(prev) <= Window /\ Len(prev) <= p
                    /\ Len(prev) = Window \/ Len(prev) = p
                    /\ \A k \in DOMAIN prev : prev[k] + Len(prev) = p + k
  /\ prev = <<>> => p = 0

(* The part of s from a to b.                                              *)
IsPart(s, a, b, out) ==
  /\ out \in Seq(Nat) /\ Len(out) = IF a <= b THEN b - a + 1 ELSE 0
  /\ \A k \in 1 .. b - a + 1 : out[k] = s[a + k - 1]

LEMMA PartOf ==
  ASSUME NEW s, NEW a \in Int, NEW b \in Int, \A i \in a .. b : s[i] \in Nat
  PROVE  IsPart(s, a, b, SubSeq(s, a, b))
BY SubSeqProperties DEF IsPart

(* What is left of the new lines once their overlap with the old ones is   *)
(* taken off comes after the old ones.                                     *)
LEMMA Joined ==
  ASSUME HostTypes, NEW prev \in Seq(Nat), NEW cur \in Seq(Nat), NEW p \in Nat,
         EndsAt(prev, p),
         cur \in {LastLines, <<>>},
         NEW new, new = SubSeq(cur, Overlap(prev, cur) + 1, Len(cur))
  PROVE  /\ new \in Seq(Nat)
         /\ cur = <<>> => new = <<>>
         /\ \A k \in DOMAIN new : p < new[k] /\ new[k] <= journal
         /\ \A i, k \in DOMAIN new : i < k => new[i] < new[k]
<1> DEFINE L == Len(prev)
           M == Len(cur)
           S == {n \in 0 .. Min({L, M}) : SubSeq(prev, L - n + 1, L) = SubSeq(cur, 1, n)}
           v == Overlap(prev, cur)
           out == SubSeq(cur, v + 1, M)
<1>0. Window \in Nat /\ Window > 0 /\ journal \in Nat  BY LogTabAssumption DEF HostTypes
<1> USE DEF EndsAt
<1>1. /\ L \in Nat /\ DOMAIN prev = 1 .. L /\ M \in Nat /\ DOMAIN cur = 1 .. M
  BY LenProperties
<1>2. Min({L, M}) \in Nat /\ Min({L, M}) <= L /\ Min({L, M}) <= M
      /\ (Min({L, M}) = L \/ Min({L, M}) = M)
  BY <1>1, MinOfTwo
<1>3. v = Max(S)  BY DEF Overlap
<1>4. \A k \in 1 .. L : prev[k] \in Nat  BY <1>1, ElementOfSeq
<1>5. \A k \in 1 .. M : cur[k] \in Nat  BY <1>1, ElementOfSeq
<1>6. cur # <<>> => /\ M <= Window /\ M <= journal /\ (M = Window \/ M = journal) /\ M > 0
                    /\ \A k \in 1 .. M : cur[k] + M = journal + k
  BY LastLinesAre, EmptySeq
<1>7. cur = <<>> => M = 0  OBVIOUS
<1>8. prev = <<>> => L = 0  OBVIOUS
<1>9. prev # <<>> => L > 0  BY EmptySeq
<1>a. new = out  OBVIOUS
<1> HIDE DEF L, M
<1>10. \A n \in 0 .. Min({L, M}) :
         /\ SubSeq(prev, L - n + 1, L) \in Seq(Nat) /\ Len(SubSeq(prev, L - n + 1, L)) = n
         /\ \A i \in 1 .. n : SubSeq(prev, L - n + 1, L)[i] = prev[L - n + i]
         /\ SubSeq(cur, 1, n) \in Seq(Nat) /\ Len(SubSeq(cur, 1, n)) = n
         /\ \A i \in 1 .. n : SubSeq(cur, 1, n)[i] = cur[i]
  <2> TAKE n \in 0 .. Min({L, M})
  <2> DEFINE a == L - n + 1
             sp == SubSeq(prev, a, L)
             sc == SubSeq(cur, 1, n)
  <2>1. n \in Nat /\ a \in Int /\ L \in Int /\ L - a + 1 = n /\ n <= L /\ n <= M /\ 1 \in Int /\ n \in Int
        /\ n - 1 + 1 = n
    BY <1>1, <1>2
  <2>2. (\A i \in a .. L : prev[i] \in Nat) /\ (\A i \in 1 .. n : cur[i] \in Nat)
    <3>1. a >= 1  BY <2>1, <1>1
    <3>2. a .. L \subseteq 1 .. L /\ 1 .. n \subseteq 1 .. M
      <4> HIDE DEF a, EndsAt, S
      <4> QED  BY <3>1, <2>1, <1>1
    <3> QED  BY ONLY <3>2, <1>4, <1>5
  <2>3. /\ sp \in Seq(Nat) /\ Len(sp) = (IF a <= L THEN L - a + 1 ELSE 0)
        /\ \A i \in 1 .. L - a + 1 : sp[i] = prev[a + i - 1]
    BY <2>1, <2>2, SubSeqProperties
  <2>4. /\ sc \in Seq(Nat) /\ Len(sc) = (IF 1 <= n THEN n - 1 + 1 ELSE 0)
        /\ \A i \in 1 .. n - 1 + 1 : sc[i] = cur[1 + i - 1]
    BY <2>1, <2>2, SubSeqProperties
  <2> HIDE DEF sp, sc
  <2>5. Len(sp) = n /\ \A i \in 1 .. n : sp[i] = prev[L - n + i]
    BY <2>1, <2>3, <1>1
  <2>6. Len(sc) = n /\ \A i \in 1 .. n : sc[i] = cur[i]
    BY <2>1, <2>4
  <2> QED  BY <2>3, <2>4, <2>5, <2>6 DEF sp, sc
(* Where the old lines end in the new ones.                                *)
<1> DEFINE i0 == p - journal + M
<1>11. i0 \in Int /\ i0 <= M  
  BY <1>0, <1>1, <1>8
<1>12. 0 \in S
  <2>1. 0 \in 0 .. Min({L, M})  BY <1>2
  <2>2. SubSeq(prev, L - 0 + 1, L) = <<>> /\ SubSeq(cur, 1, 0) = <<>>
    <3>1. L - 0 + 1 \in Int /\ L \in Int /\ L < L - 0 + 1 /\ 1 \in Int /\ 0 \in Int /\ 0 < 1
      BY <1>1
    <3> QED  BY <3>1, SubSeqEmpty
  <2> QED  BY <2>1, <2>2
<1>13. \A n \in S : n = 0 \/ n = i0
  <2> SUFFICES ASSUME NEW n \in S, n # 0 PROVE n = i0
    OBVIOUS
  <2>1. n \in 1 .. L /\ n \in 1 .. M /\ n \in 0 .. Min({L, M}) /\ 1 \in 1 .. n /\ L - n + 1 \in 1 .. L
    BY <1>1, <1>2
  <2>2. prev[L - n + 1] = cur[1]
    <3>1. SubSeq(prev, L - n + 1, L)[1] = prev[L - n + 1] /\ SubSeq(cur, 1, n)[1] = cur[1]
      BY <2>1, <1>10
    <3> QED  BY <3>1
  <2>3. prev # <<>> /\ cur # <<>>  BY <2>1, <1>7, <1>8
  <2>4. prev[L - n + 1] + L = p + (L - n + 1)  BY <2>1, <2>3, <1>1 DEF L
  <2>5. cur[1] + M = journal + 1  BY <2>1, <2>3, <1>6, <1>1
  <2>6. cur[1] \in Nat  BY <2>1, <1>5, <1>1
  <2> DEFINE x == cur[1]
  <2>7. x \in Nat /\ x + L = p + (L - n + 1) /\ x + M = journal + 1 /\ n \in Nat
    BY <2>1, <2>2, <2>4, <2>5, <2>6
  <2> HIDE DEF x, S, EndsAt
  <2> QED  BY <2>7, <1>0, <1>1
<1>14. i0 > 0 /\ prev # <<>> /\ cur # <<>> => i0 \in S
  <2> SUFFICES ASSUME i0 > 0, prev # <<>>, cur # <<>> PROVE i0 \in S
    OBVIOUS
  <2>0. p <= journal /\ L <= Window /\ L <= p /\ (L = Window \/ L = p)  BY DEF L
  <2>1. i0 \in Nat /\ i0 <= L /\ i0 <= M /\ i0 \in 0 .. Min({L, M})
    <3>1. M <= Window /\ M <= journal  BY <1>6
    <3>2. i0 <= L
      <4>1. CASE L = Window  BY <4>1, <3>1, <2>0, <1>0, <1>1
      <4>2. CASE L = p  BY <4>2, <3>1, <1>0, <1>1
      <4> QED  BY <4>1, <4>2, <2>0
    <3>3. i0 \in Nat /\ i0 <= M  BY <1>11
    <3> HIDE DEF i0
    <3> QED  BY <3>2, <3>3, <1>1, <1>2
  <2> DEFINE sp == SubSeq(prev, L - i0 + 1, L)
             sc == SubSeq(cur, 1, i0)
  <2>2. /\ sp \in Seq(Nat) /\ Len(sp) = i0 /\ sc \in Seq(Nat) /\ Len(sc) = i0
        /\ \A k \in 1 .. i0 : sp[k] = prev[L - i0 + k] /\ sc[k] = cur[k]
    BY <2>1, <1>10
  <2> HIDE DEF sp, sc
  <2>3. \A k \in 1 .. i0 : sp[k] = sc[k]
    <3> TAKE k \in 1 .. i0
    <3>1. L - i0 + k \in 1 .. L /\ k \in 1 .. M  BY <2>1, <1>1
    <3>2. prev[L - i0 + k] + L = p + (L - i0 + k)  BY <3>1, <1>1 DEF L
    <3>3. cur[k] + M = journal + k  BY <3>1, <1>6
    <3>4. cur[k] \in Nat /\ prev[L - i0 + k] \in Nat  BY <3>1, <1>4, <1>5
    <3>5. prev[L - i0 + k] = cur[k]
      <4> DEFINE a == prev[L - i0 + k]
                 b == cur[k]
      <4>1. a \in Nat /\ b \in Nat /\ a + L = p + (L - i0 + k) /\ b + M = journal + k
            /\ k \in Nat /\ i0 = p - journal + M
        BY <3>1, <3>2, <3>3, <3>4
      <4> HIDE DEF a, b, i0
      <4>2. a = b  BY <4>1, <2>1, <1>0, <1>1
      <4> QED  BY <4>2 DEF a, b
    <3> QED  BY <3>5, <2>2
  <2>4. sp = sc  BY <2>2, <2>3, SeqEqual
  <2> QED  BY <2>1, <2>4 DEF sp, sc
<1> HIDE DEF S, i0
<1>15. v \in S /\ \A y \in S : v >= y
  <2>1. S \subseteq Int  BY <1>13, <1>11
  <2>2. \E x \in S : \A y \in S : x >= y
    <3>1. CASE i0 \in S /\ i0 > 0  BY <3>1, <1>13, <1>11
    <3>2. CASE ~(i0 \in S /\ i0 > 0)
      <4>1. ASSUME NEW y \in S PROVE 0 >= y
        <5>1. CASE y = 0  BY <5>1
        <5>2. CASE y = i0  BY <5>2, <3>2, <1>11
        <5> QED  BY <5>1, <5>2, <1>13
      <4> QED  BY <4>1, <1>12
    <3> QED  BY <3>1, <3>2
  <2> QED  BY <2>2, <1>3 DEF Max
<1>16. v \in Nat /\ v <= M /\ v >= 0
  <2>1. v \in 0 .. Min({L, M})  BY <1>15 DEF S
  <2> QED  BY <2>1, <1>1, <1>2
<1> HIDE DEF v
<1>17. cur # <<>> /\ prev # <<>> => v >= i0
  BY <1>11, <1>14, <1>15, <1>16
<1>18. /\ out \in Seq(Nat) /\ DOMAIN out = 1 .. M - v
       /\ \A k \in 1 .. M - v : v + k \in 1 .. M /\ out[k] = cur[v + k]
  <2>1. v + 1 \in Int /\ M \in Int /\ M - (v + 1) + 1 = M - v /\ M - v \in Nat /\ \A i \in v + 1 .. M : cur[i] \in Nat
    BY <1>1, <1>5, <1>16
  <2>2. /\ out \in Seq(Nat) /\ Len(out) = (IF v + 1 <= M THEN M - (v + 1) + 1 ELSE 0)
        /\ \A k \in 1 .. M - (v + 1) + 1 : out[k] = cur[v + 1 + k - 1]
    <3>1. PICK a \in Int, b \in Int : a = v + 1 /\ b = M
      BY <2>1
    <3>2. \A i \in a .. b : cur[i] \in Nat
      BY <2>1, <3>1
    <3>3. IsPart(cur, a, b, SubSeq(cur, a, b))
      BY <3>2, PartOf
    <3>4. out = SubSeq(cur, a, b)
      BY <3>1
    <3> HIDE DEF out
    <3>5. IsPart(cur, a, b, out)
      BY <3>3, <3>4
    <3> QED  BY <3>1, <3>5 DEF IsPart
  <2> HIDE DEF out
  <2>3. Len(out) = M - v  BY <2>1, <2>2, <1>1, <1>16
  <2>4. DOMAIN out = 1 .. M - v  BY <2>2, <2>3, LenProperties
  <2>5. \A k \in 1 .. M - v : v + k \in 1 .. M /\ out[k] = cur[v + k]
    BY <2>1, <2>2, <1>1, <1>16
  <2> QED  BY <2>2, <2>4, <2>5
<1> HIDE DEF out
<1>19. cur = <<>> => out = <<>>
  <2> SUFFICES ASSUME cur = <<>> PROVE out = <<>>
    OBVIOUS
  <2>1. v + 1 \in Int /\ M \in Int /\ M < v + 1  BY <1>7, <1>16
  <2> QED  BY <2>1, SubSeqEmpty DEF out
<1>20. ASSUME NEW k \in 1 .. M - v PROVE cur[v + k] + M = journal + (v + k) /\ cur[v + k] \in Nat /\ cur # <<>>
  <2> HIDE DEF EndsAt
  <2>1. M > 0 /\ v + k \in 1 .. M  BY <1>1, <1>16
  <2>2. cur # <<>>  BY <2>1, <1>7
  <2>3. cur[v + k] + M = journal + (v + k)  BY ONLY <2>1, <2>2, <1>6
  <2>4. cur[v + k] \in Nat  BY ONLY <2>1, <1>5
  <2> QED  BY <2>2, <2>3, <2>4
<1>21. \A k \in DOMAIN out : p < out[k] /\ out[k] <= journal
  <2> SUFFICES ASSUME NEW k \in 1 .. M - v PROVE p < out[k] /\ out[k] <= journal
    BY <1>18
  <2>1. out[k] + M = journal + (v + k) /\ out[k] \in Nat /\ cur # <<>>  BY <1>18, <1>20
  <2>2. out[k] <= journal  BY <2>1, <1>0, <1>1, <1>16
  <2>3. CASE prev # <<>>
    <3>1. v >= p - journal + M  BY <2>1, <2>3, <1>17 DEF i0
    <3> QED  BY <3>1, <2>1, <2>2, <1>0, <1>1, <1>16
  <2>4. CASE prev = <<>>
    <3>1. p = 0 /\ M <= journal  BY <2>1, <2>4, <1>6
    <3> QED  BY <3>1, <2>1, <2>2, <1>0, <1>1, <1>16
  <2> QED  BY <2>3, <2>4
<1>22. \A i, k \in DOMAIN out : i < k => out[i] < out[k]
  <2> SUFFICES ASSUME NEW i \in 1 .. M - v, NEW k \in 1 .. M - v, i < k PROVE out[i] < out[k]
    BY <1>18
  <2>1. out[i] + M = journal + (v + i) /\ out[i] \in Nat  BY <1>18, <1>20
  <2>2. out[k] + M = journal + (v + k) /\ out[k] \in Nat  BY <1>18, <1>20
  <2>3. PICK x \in Nat, y \in Nat : /\ x = out[i] /\ x + M = journal + (v + i)
                                  /\ y = out[k] /\ y + M = journal + (v + k)
    BY <2>1, <2>2
  <2>4. i \in Nat /\ k \in Nat  BY <1>1, <1>16
  <2> HIDE DEF EndsAt
  <2>5. x < y
    BY ONLY x \in Nat, y \in Nat, i < k, <2>3, <2>4, <1>0, <1>1, <1>16
  <2> QED  BY <2>3, <2>5
<1> QED  BY <1>a, <1>18, <1>19, <1>21, <1>22

-----------------------------------------------------------------------------
(* What a step leaves alone. *)

LEMMA HostStays ==
  ASSUME HostInv, UNCHANGED hostVars
  PROVE  HostInv'
  BY DEF HostInv, HostTypes, hostVars

LEMMA TypeStays ==
  ASSUME NEW s, TypedSub(s), DOMAIN files \subseteq DOMAIN files', gen' \in Nat, gen \in Nat, gen' >= gen,
         journal' \in Nat, journal \in Nat, journal' >= journal
  PROVE  TypedSub(s)'
<1>1. s.gen \in 1 .. gen'  BY DEF TypedSub
<1>2. ReadOK(s.prev, s.out)'
  <2>1. ASSUME s.prev # <<>> PROVE Last(s.prev) \in Nat
    <3>1. s.prev \in Seq(Nat)  BY DEF TypedSub
    <3>2. Len(s.prev) \in 1 .. Len(s.prev)  BY <3>1, <2>1, EmptySeq
    <3> QED  BY <3>1, <3>2, ElementOfSeq DEF Last
  <2>2. s.prev # <<>> => Last(s.prev) <= journal  BY DEF TypedSub, ReadOK
  <2>3. s.prev # <<>> => Last(s.prev) <= journal'  BY <2>1, <2>2
  <2> QED  BY <2>3 DEF TypedSub, ReadOK
<1> QED  BY <1>1, <1>2 DEF TypedSub

(* All that the invariant says of a subscription is of the files, the      *)
(* lines and the target.                                                   *)
LEMMA SubStays ==
  ASSUME NEW s, SubInv(s), PageInv, HostTypes,
         UNCHANGED <<files, written, journal, lines, target, gen>>,
         s.live => open'
  PROVE  SubInv(s)'
<1>1. TypedSub(s)'
  <2>1. gen \in Nat /\ gen' \in Nat /\ gen' >= gen  BY DEF PageInv
  <2>2. journal \in Nat /\ journal' \in Nat /\ journal' >= journal  BY DEF HostTypes
  <2> QED  BY <2>1, <2>2, TypeStays DEF SubInv
<1>2. TailInv(s)' <=> TailInv(s)
  <2>1. Sent(s)' = Sent(s)  BY DEF Sent
  <2>2. \A n : Unread(s, n)' <=> Unread(s, n)  BY DEF Unread
  <2>3. SentBefore(s)' <=> SentBefore(s)  BY <2>1, <2>2 DEF SentBefore
  <2>4. EventsInv(s)' <=> EventsInv(s)  BY DEF EventsInv, CreatePending
  <2>5. PlaceInv(s)' <=> PlaceInv(s)  BY DEF PlaceInv, LastSentIs, Size
  <2> QED  BY <2>3, <2>4, <2>5 DEF TailInv
<1>3. PollInv(s)' <=> PollInv(s)
  <2>1. Sent(s)' = Sent(s)  BY DEF Sent
  <2> QED  BY <2>1 DEF PollInv
<1>4. s.gen = gen => CurrentInv(s)'
  <2> SUFFICES ASSUME CurrentInv(s) PROVE CurrentInv(s)'
    BY DEF SubInv
  <2>1. Rises(s.ch)' /\ FromOne(s.ch)'  BY DEF CurrentInv, Rises, FromOne
  <2>2. (s.at \in Reading => TailInv(s)')  BY <1>2 DEF CurrentInv
  <2>3. (s.at \in Polling => PollInv(s)')  BY <1>3 DEF CurrentInv
  <2> QED  BY <2>1, <2>2, <2>3 DEF CurrentInv
<1> QED  BY <1>1, <1>4 DEF SubInv

(* A step of one subscription only.                                        *)
LEMMA Goes ==
  ASSUME LInv, NEW s \in subs, NEW t, Becomes(s, t), GoroutineOnly,
         t.gen = s.gen, TypedSub(t), s.gen = gen => CurrentInv(t)
  PROVE  LInv'
<1>1. subs' \subseteq (subs \ {s}) \cup {t}  BY DEF Becomes
<1>2. UNCHANGED <<hostVars, target, lines, styled, gen, open>>  BY DEF GoroutineOnly, bodyVars
<1>3. HostInv'  BY <1>2, HostStays DEF LInv
<1>4. PageInv'
  <2>1. target # "none"  BY DEF LInv, PageInv
  <2>2. \A r, q \in subs' : r.gen = q.gen => r = q
    BY <1>1 DEF LInv, PageInv
  <2> QED  BY <1>2, <2>1, <2>2 DEF LInv, PageInv, Rises, FromOne
<1>5. SubsInv'
  <2> SUFFICES ASSUME NEW r \in subs' PROVE SubInv(r)'
    BY DEF SubsInv
  <2>1. SubInv(r)
    <3>1. CASE r = t  BY <3>1 DEF SubInv
    <3>2. CASE r # t  BY <3>2, <1>1 DEF LInv, SubsInv
    <3> QED  BY <3>1, <3>2
  <2>2. PageInv /\ HostTypes  BY DEF LInv, HostInv
  <2>3. UNCHANGED <<files, written, journal, lines, target, gen>>  BY <1>2 DEF hostVars
  <2>4. CASE r.gen = gen
    <3>1. r.live => open'  BY <2>1, <2>4, <1>2 DEF SubInv, CurrentInv
    <3> QED  BY <3>1, <2>1, <2>2, <2>3, SubStays
  <2>5. CASE r.gen # gen
    <3>1. /\ gen \in Nat /\ gen' \in Nat /\ gen' >= gen
          /\ journal \in Nat /\ journal' \in Nat /\ journal' >= journal
      BY <2>2, <2>3 DEF PageInv, HostTypes
    <3>2. TypedSub(r)'  BY <3>1, <2>1, <2>3, TypeStays DEF SubInv
    <3> QED  BY <3>2, <2>3, <2>5 DEF SubInv
  <2> QED  BY <2>4, <2>5
<1> QED  BY <1>3, <1>4, <1>5 DEF LInv

-----------------------------------------------------------------------------
(* Tail. *)

(* t is s but for the fields F.                                            *)
SameBut(s, t, F) == DOMAIN t = SubFields /\ \A f \in SubFields \ F : t[f] = s[f]

LEMMA SameFields ==
  ASSUME NEW s, NEW t, NEW F, SameBut(s, t, F)
  PROVE  /\ "gen" \notin F => t.gen = s.gen
         /\ "kind" \notin F => t.kind = s.kind
         /\ "live" \notin F => t.live = s.live
         /\ "ch" \notin F => t.ch = s.ch
         /\ "file" \notin F => t.file = s.file
         /\ "off" \notin F => t.off = s.off
         /\ "events" \notin F => t.events = s.events
         /\ "prev" \notin F => t.prev = s.prev
         /\ "out" \notin F => t.out = s.out
         /\ "at" \notin F => t.at = s.at
  BY DEF SameBut, SubFields

LEMMA EndKeeps ==
  ASSUME LInv, NEW s \in subs, NEW t, Becomes(s, t), GoroutineOnly,
         SameBut(s, t, {"at", "failed"}), t.at = "end"
  PROVE  LInv'
<1>1. /\ t.gen = s.gen /\ t.kind = s.kind /\ t.live = s.live /\ t.ch = s.ch
      /\ t.file = s.file /\ t.off = s.off /\ t.events = s.events
      /\ t.prev = s.prev /\ t.out = s.out
  BY SameFields
<1>2. SubInv(s)  BY DEF LInv, SubsInv
<1>3. TypedSub(t)
  BY <1>1, <1>2 DEF SubInv, TypedSub, SameBut, Opening, Reading, Polling
<1>4. s.gen = gen => CurrentInv(t)
  BY <1>1, <1>2 DEF SubInv, CurrentInv, Opening, Reading, Polling
<1> QED  BY <1>1, <1>3, <1>4, Goes

LEMMA ReturnsKeep ==
  ASSUME LInv, NEW s \in subs, Fails(s) \/ Returns(s), GoroutineOnly
  PROVE  LInv'
<1>1. DOMAIN s = SubFields  BY DEF LInv, SubsInv, SubInv, TypedSub
<1>2. CASE Fails(s)
  <2> DEFINE t == [s EXCEPT !.at = "end", !.failed = TRUE]
  <2>1. SameBut(s, t, {"at", "failed"}) /\ t.at = "end"  BY <1>1 DEF SameBut, SubFields
  <2>2. Becomes(s, t)  BY <1>2 DEF Fails
  <2> QED  BY <2>1, <2>2, EndKeeps
<1>3. CASE Returns(s)
  <2> DEFINE t == [s EXCEPT !.at = "end"]
  <2>1. SameBut(s, t, {"at", "failed"}) /\ t.at = "end"  BY <1>1 DEF SameBut, SubFields
  <2>2. Becomes(s, t)  BY <1>3 DEF Returns
  <2> QED  BY <2>1, <2>2, EndKeeps
<1> QED  BY <1>2, <1>3

(* The place to begin at is in the file, and before its end but for an     *)
(* empty one.                                                              *)
LEMMA SeekTailIs ==
  ASSUME HostTypes, NEW f \in DOMAIN files
  PROVE  /\ SeekTail(f) \in Nat /\ SeekTail(f) <= Len(files[f])
         /\ SeekTail(f) = Len(files[f]) => SeekTail(f) = 0
         /\ files[f] \in Seq(Nat) /\ Len(files[f]) \in Nat
         /\ DOMAIN files[f] = 1 .. Len(files[f])
<1>1. files[f] \in Seq(Nat)  BY ElementOfSeq, LenProperties DEF HostTypes
<1>2. Len(files[f]) \in Nat /\ DOMAIN files[f] = 1 .. Len(files[f])
  BY <1>1, LenProperties
<1> DEFINE n == Len(files[f])
<1> HIDE DEF n
<1>3. Window \in Nat /\ Window > 0  BY LogTabAssumption
<1>a. n \in Nat  BY <1>2 DEF n
<1>4. SeekTail(f) = IF n > Window THEN n - Window ELSE 0  BY DEF SeekTail, n
<1>5. SeekTail(f) \in Nat /\ SeekTail(f) <= n /\ (SeekTail(f) = n => SeekTail(f) = 0)
  BY <1>a, <1>3, <1>4
<1> QED  BY <1>1, <1>2, <1>5 DEF n

LEMMA FilesAre ==
  ASSUME HostTypes
  PROVE  /\ Len(files) \in Nat /\ Len(files) > 0 /\ DOMAIN files = 1 .. Len(files)
         /\ Len(files) \in DOMAIN files
         /\ \A f \in DOMAIN files : /\ files[f] \in Seq(Nat) /\ Len(files[f]) \in Nat
                                    /\ DOMAIN files[f] = 1 .. Len(files[f])
<1>1. Len(files) \in Nat /\ DOMAIN files = 1 .. Len(files) /\ Len(files) > 0
  BY LenProperties, EmptySeq DEF HostTypes
<1>2. Len(files) \in DOMAIN files  BY <1>1
<1> QED  BY <1>1, <1>2, SeekTailIs

LEMMA TailOpensKeeps ==
  ASSUME LInv, NEW s \in subs, TailOpens(s)
  PROVE  LInv'
<1>0. GoroutineOnly  BY DEF TailOpens
<1>1. SubInv(s) /\ TypedSub(s) /\ DOMAIN s = SubFields /\ HostTypes
  BY DEF LInv, SubsInv, SubInv, TypedSub, HostInv
<1>2. CASE s.at = "open" /\ Becomes(s, [s EXCEPT !.file = Len(files), !.at = "watch"])
  <2> DEFINE t == [s EXCEPT !.file = Len(files), !.at = "watch"]
  <2>1. SameBut(s, t, {"file", "at"}) /\ t.file = Len(files) /\ t.at = "watch"
    BY <1>1 DEF SameBut, SubFields
  <2>2. Becomes(s, t)  BY <1>2
  <2> HIDE DEF t
  <2>3. /\ t.gen = s.gen /\ t.kind = s.kind /\ t.live = s.live /\ t.ch = s.ch
        /\ t.off = s.off /\ t.events = s.events /\ t.prev = s.prev /\ t.out = s.out
    BY <2>1, SameFields
  <2>4. TypedSub(t)
    BY <1>1, <1>2, <2>1, <2>3, FilesAre DEF TypedSub, SameBut, Opening, Reading, Polling
  <2>5. s.gen = gen => CurrentInv(t)
    BY <1>1, <1>2, <2>1, <2>3 DEF SubInv, CurrentInv, Opening, Reading, Polling
  <2> QED  BY <1>0, <2>2, <2>3, <2>4, <2>5, Goes
<1>3. CASE s.at = "watch" /\ Becomes(s, [s EXCEPT !.off = SeekTail(s.file), !.at = "emit"])
  <2> DEFINE t == [s EXCEPT !.off = SeekTail(s.file), !.at = "emit"]
  <2>1. SameBut(s, t, {"off", "at"}) /\ t.off = SeekTail(s.file) /\ t.at = "emit"
    BY <1>1 DEF SameBut, SubFields
  <2>2. Becomes(s, t)  BY <1>3
  <2> HIDE DEF t
  <2>3. /\ t.gen = s.gen /\ t.kind = s.kind /\ t.live = s.live /\ t.ch = s.ch
        /\ t.file = s.file /\ t.events = s.events /\ t.prev = s.prev /\ t.out = s.out
    BY <2>1, SameFields
  <2>4. s.file \in DOMAIN files  BY <1>1, <1>3 DEF TypedSub
  <2>5. TypedSub(t)
    BY <1>1, <1>3, <2>1, <2>3, <2>4, SeekTailIs DEF TypedSub, SameBut, Opening, Reading, Polling
  <2>6. ASSUME s.gen = gen PROVE CurrentInv(t)
    <3>1. lines = <<>> /\ t.ch = <<>> /\ t.events = <<>> /\ t.file = Len(files)
      BY <1>1, <1>3, <2>3, <2>6 DEF SubInv, CurrentInv, TypedSub, Opening
    <3>2. SentBefore(t)  BY <3>1 DEF SentBefore, Sent, ToSet
    <3>3. EventsInv(t)  BY <3>1 DEF EventsInv, CreatePending
    <3>4. PlaceInv(t)
      <4>1. t.off \in Nat /\ Size(t) \in Nat /\ t.off <= Size(t) /\ (t.off = Size(t) => t.off = 0)
        BY <1>1, <2>1, <2>3, <2>4, SeekTailIs DEF Size
      <4> QED  BY <4>1, <2>1 DEF PlaceInv
    <3> QED  BY <1>1, <1>3, <2>1, <2>3, <2>6, <3>1, <3>2, <3>3, <3>4
             DEF SubInv, CurrentInv, TailInv, Opening, Reading, Polling
  <2> QED  BY <1>0, <2>2, <2>3, <2>5, <2>6, Goes
<1>4. CASE Fails(s)  BY <1>0, <1>4, ReturnsKeep
<1> QED  BY <1>2, <1>3, <1>4 DEF TailOpens

(* A line that comes after all that was sent keeps the order.              *)
LEMMA SendsInOrder ==
  ASSUME NEW s, s.ch \in Seq(Line), CurrentInv(s), lines \in Seq(Line),
         NEW x \in Line, x.src = target, \A y \in Sent(s) : y.n < x.n,
         NEW c, c = Append(s.ch, x)
  PROVE  /\ c \in Seq(Line) /\ Rises(c) /\ FromOne(c)
         /\ c # <<>> /\ c[Len(c)] = x
         /\ \A i \in DOMAIN lines, k \in DOMAIN c : lines[i].n < c[k].n
         /\ ToSet(lines) \cup ToSet(c) = Sent(s) \cup {x}
<1> DEFINE q == s.ch
           m == Len(q)
<1>1. /\ c \in Seq(Line) /\ Len(c) = m + 1 /\ c # <<>> /\ DOMAIN c = 1 .. m + 1
      /\ DOMAIN q = 1 .. m /\ m \in Nat
      /\ \A i \in 1 .. m : c[i] = q[i]
      /\ c[m + 1] = x /\ ToSet(c) = ToSet(q) \cup {x}
  BY Appended
<1>2. Rises(q) /\ FromOne(q) /\ \A i \in DOMAIN lines, k \in DOMAIN q : lines[i].n < q[k].n
  BY DEF CurrentInv
<1>3. Sent(s) = ToSet(lines) \cup ToSet(q)  BY DEF Sent
<1> HIDE DEF q, m
<1>4. \A i \in 1 .. m : q[i].n < x.n  BY <1>1, <1>3 DEF ToSet
<1>5. \A i \in DOMAIN lines : lines[i].n < x.n  BY <1>3 DEF ToSet
<1>6. Rises(c)
  <2> SUFFICES ASSUME NEW i \in 1 .. m + 1, NEW k \in 1 .. m + 1, i < k
               PROVE  c[i].n < c[k].n
    BY <1>1 DEF Rises
  <2>1. i \in 1 .. m  BY <1>1
  <2>2. CASE k = m + 1  BY <2>1, <2>2, <1>1, <1>4
  <2>3. CASE k # m + 1
    <3>1. k \in 1 .. m  BY <2>3, <1>1
    <3> QED  BY <2>1, <3>1, <1>1, <1>2 DEF Rises
  <2> QED  BY <2>2, <2>3
<1>7. ASSUME NEW k \in 1 .. m + 1
      PROVE  c[k].src = target /\ \A i \in DOMAIN lines : lines[i].n < c[k].n
  <2>1. CASE k = m + 1  BY <2>1, <1>1, <1>5
  <2>2. CASE k # m + 1
    <3>1. k \in 1 .. m  BY <2>2, <1>1
    <3> QED  BY <3>1, <1>1, <1>2 DEF FromOne
  <2> QED  BY <2>1, <2>2
<1>8. FromOne(c) /\ \A i \in DOMAIN lines, k \in DOMAIN c : lines[i].n < c[k].n
  BY <1>1, <1>7 DEF FromOne
<1> QED  BY <1>1, <1>3, <1>6, <1>8

LEMMA EmitSends ==
  ASSUME LInv, NEW s \in subs, s.at = "emit", s.off < Size(s), GoroutineOnly,
         Becomes(s, [s EXCEPT !.off = @ + 1,
                       !.ch = Append(@, [src |-> "log", n |-> files[s.file][s.off + 1]])])
  PROVE  LInv'
<1> DEFINE m == files[s.file][s.off + 1]
           x == [src |-> "log", n |-> m]
           c == Append(s.ch, x)
           t == [s EXCEPT !.off = s.off + 1, !.ch = c]
<1>1. SubInv(s) /\ TypedSub(s) /\ DOMAIN s = SubFields /\ HostTypes /\ PageInv
  BY DEF LInv, SubsInv, SubInv, TypedSub, HostInv
<1>2. s.file \in DOMAIN files /\ s.off \in Nat /\ s.ch \in Seq(Line)
  BY <1>1 DEF TypedSub, Reading
<1>3. /\ files[s.file] \in Seq(Nat) /\ Size(s) \in Nat /\ DOMAIN files[s.file] = 1 .. Size(s)
  BY <1>1, <1>2, FilesAre DEF Size
<1>4. s.off + 1 \in DOMAIN files[s.file]  BY <1>2, <1>3
<1>5. m \in Nat  BY <1>3, <1>4, ElementOfSeq
<1>6. x \in Line /\ x.n = m /\ x.src = "log"  BY <1>5 DEF Line
<1>7. SameBut(s, t, {"off", "ch"}) /\ t.off = s.off + 1 /\ t.ch = c
  BY <1>1 DEF SameBut, SubFields
<1>8. Becomes(s, t)  OBVIOUS
<1>a. m = files[s.file][s.off + 1]  OBVIOUS
<1> HIDE DEF x, m
<1>b. c = Append(s.ch, x) OBVIOUS
<1> HIDE DEF c, t
<1>9. /\ t.gen = s.gen /\ t.kind = s.kind /\ t.live = s.live /\ t.at = s.at
      /\ t.file = s.file /\ t.events = s.events /\ t.prev = s.prev /\ t.out = s.out
  BY <1>7, SameFields
<1>10. c \in Seq(Line)  BY <1>b, <1>2, <1>6, Appended
<1>11. TypedSub(t)
  BY <1>1, <1>2, <1>7, <1>9, <1>10 DEF TypedSub, SameBut, Opening, Reading, Polling
<1>12. ASSUME s.gen = gen PROVE CurrentInv(t)
  <2>1. CurrentInv(s) /\ TailInv(s)  BY <1>1, <1>12 DEF SubInv, CurrentInv, Reading
  <2>2. target = "log"  BY <1>1, <2>1 DEF CurrentInv, TypedSub, Reading
  <2>3. Unread(s, m)  
    <3>1. s.off + 1 > s.off  BY <1>2
    <3> QED  BY <3>1, <1>4, <1>a DEF Unread
  <2>4. \A y \in Sent(s) : y.n < x.n  BY <2>1, <2>3, <1>6 DEF TailInv, SentBefore
  <2>5. lines \in Seq(Line)  BY <1>1 DEF PageInv
  <2>6. /\ Rises(c) /\ FromOne(c) /\ c # <<>> /\ c[Len(c)] = x
        /\ \A i \in DOMAIN lines, k \in DOMAIN c : lines[i].n < c[k].n
        /\ ToSet(lines) \cup ToSet(c) = Sent(s) \cup {x}
    BY <1>2, <1>6, <1>b, <2>1, <2>2, <2>4, <2>5, SendsInOrder
  <2>7. SentBefore(t)
    <3>1. Sent(t) = Sent(s) \cup {x}  BY <2>6, <1>7 DEF Sent
    <3>2. ASSUME NEW n, Unread(t, n) PROVE Unread(s, n) /\ m < n
      <4>1. CASE \E k \in DOMAIN files[s.file] : k > s.off + 1 /\ n = files[s.file][k]
        <5>1. PICK k \in DOMAIN files[s.file] : k > s.off + 1 /\ n = files[s.file][k]
          BY <4>1
        <5>2. k > s.off  BY <5>1, <1>2, <1>3
        <5>3. m < n  BY <5>1, <1>4, <1>2, <1>a DEF LInv, HostInv
        <5> QED  BY <5>1, <5>2, <5>3 DEF Unread
      <4>2. CASE \E g \in DOMAIN files : g > s.file /\ \E k \in DOMAIN files[g] : n = files[g][k]
        <5>1. PICK g \in DOMAIN files : g > s.file /\ \E k \in DOMAIN files[g] : n = files[g][k]
          BY <4>2
        <5>2. PICK k \in DOMAIN files[g] : n = files[g][k]  BY <5>1
        <5>3. s.file < g  BY <5>1, <1>1, <1>2, FilesAre
        <5>4. m < n  BY <5>2, <5>3, <1>2, <1>4, <1>a DEF LInv, HostInv
        <5> QED  BY <5>1, <5>4 DEF Unread
      <4> QED  BY <3>2, <4>1, <4>2, <1>7, <1>9 DEF Unread
    <3>3. m <= written  BY <1>2, <1>4, <1>a DEF LInv, HostInv
    <3> QED  BY <3>1, <3>2, <3>3, <2>1, <1>6 DEF TailInv, SentBefore
  <2>8. EventsInv(t)  BY <2>1, <1>9 DEF TailInv, EventsInv, CreatePending
  <2>9. PlaceInv(t)
    <3>1. Size(t) = Size(s) /\ t.off <= Size(t)  BY <1>2, <1>3, <1>7, <1>9 DEF Size
    <3>2. LastSentIs(t, files[t.file][t.off])
      BY <2>6, <1>6, <1>7, <1>9, <1>a DEF LastSentIs
    <3> QED  BY <3>1, <3>2, <1>2, <1>3, <1>7, <1>9 DEF PlaceInv
  <2> QED  BY <2>1, <2>6, <2>7, <2>8, <2>9, <1>7, <1>9 DEF CurrentInv, TailInv, Opening, Reading, Polling
<1> QED  BY <1>8, <1>9, <1>11, <1>12, Goes

LEMMA TailEmitsKeeps ==
  ASSUME LInv, NEW s \in subs, TailEmits(s)
  PROVE  LInv'
<1>0. GoroutineOnly /\ s.at = "emit"  BY DEF TailEmits
<1>1. SubInv(s) /\ TypedSub(s) /\ DOMAIN s = SubFields /\ HostTypes
  BY DEF LInv, SubsInv, SubInv, TypedSub, HostInv
<1>2. CASE /\ s.off < Size(s) /\ Len(s.ch) < Buffer
           /\ Becomes(s, [s EXCEPT !.off = @ + 1,
                !.ch = Append(@, [src |-> "log", n |-> files[s.file][s.off + 1]])])
  BY <1>0, <1>2, EmitSends
<1>3. CASE /\ s.off >= Size(s) \/ GivesUp(s)
           /\ Becomes(s, [s EXCEPT !.at = "select"])
  <2> DEFINE t == [s EXCEPT !.at = "select"]
  <2>1. SameBut(s, t, {"at"}) /\ t.at = "select"  BY <1>1 DEF SameBut, SubFields
  <2>2. Becomes(s, t)  BY <1>3
  <2> HIDE DEF t
  <2>3. /\ t.gen = s.gen /\ t.kind = s.kind /\ t.live = s.live /\ t.ch = s.ch /\ t.off = s.off
        /\ t.file = s.file /\ t.events = s.events /\ t.prev = s.prev /\ t.out = s.out
    BY <2>1, SameFields
  <2>4. TypedSub(t)
    BY <1>0, <1>1, <2>1, <2>3 DEF TypedSub, SameBut, Opening, Reading, Polling
  <2>5. ASSUME s.gen = gen PROVE CurrentInv(t)
    <3>1. CurrentInv(s) /\ TailInv(s)
      BY <1>0, <1>1, <2>5 DEF SubInv, CurrentInv, Reading
    <3>2. SentBefore(t)  BY <3>1, <2>3 DEF TailInv, SentBefore, Sent, Unread
    <3>3. EventsInv(t)  BY <3>1, <2>3 DEF TailInv, EventsInv, CreatePending
    <3>4. PlaceInv(t)
      BY <1>3, <3>1, <2>3 DEF TailInv, PlaceInv, Size, LastSentIs, GivesUp
    <3> QED  BY <2>1, <2>3, <3>1, <3>2, <3>3, <3>4
             DEF CurrentInv, TailInv, Opening, Reading, Polling
  <2> QED  BY <1>0, <2>2, <2>3, <2>4, <2>5, Goes
<1> QED  BY <1>2, <1>3 DEF TailEmits

(* Without the event that was taken there is no other creation.            *)
LEMMA EventTaken ==
  ASSUME NEW s, s.events \in Seq({"write", "create"}), s.events # <<>>, EventsInv(s),
         NEW t, t.events = Tail(s.events),
         Head(s.events) = "create" => t.file = Len(files),
         Head(s.events) # "create" => t.file = s.file
  PROVE  EventsInv(t) /\ (Head(s.events) = "create" => s.file # Len(files))
<1> DEFINE q == s.events
           r == Tail(q)
           m == Len(q)
<1>1. /\ m \in Nat /\ m > 0 /\ DOMAIN q = 1 .. m /\ DOMAIN r = 1 .. m - 1
      /\ \A i \in 1 .. m - 1 : r[i] = q[i + 1]
      /\ Head(q) = q[1]
  BY Shifted
<1>2. /\ \A i, k \in 1 .. m : q[i] = "create" /\ q[k] = "create" => i = k
      /\ (\E i \in 1 .. m : q[i] = "create") <=> s.file # Len(files)
  BY <1>1 DEF EventsInv, CreatePending
<1> HIDE DEF q, r, m
<1>3. ASSUME NEW i \in 1 .. m - 1 PROVE i + 1 \in 1 .. m /\ r[i] = q[i + 1] /\ i + 1 # 1
  BY <1>1
<1>4. \A i, k \in 1 .. m - 1 : r[i] = "create" /\ r[k] = "create" => i = k
  <2> SUFFICES ASSUME NEW i \in 1 .. m - 1, NEW k \in 1 .. m - 1,
                      r[i] = "create", r[k] = "create"
               PROVE  i = k
    OBVIOUS
  <2>1. i + 1 = k + 1  BY <1>2, <1>3
  <2> QED  BY <2>1
<1>5. 1 \in 1 .. m  BY <1>1
<1>6. CASE q[1] = "create"
  <2>1. \A i \in 1 .. m - 1 : r[i] # "create"  BY <1>2, <1>3, <1>5, <1>6
  <2>2. s.file # Len(files)  BY <1>2, <1>5, <1>6
  <2>3. t.file = Len(files)  BY <1>1, <1>6 DEF q
  <2> QED  BY <1>1, <1>4, <2>1, <2>2, <2>3 DEF EventsInv, CreatePending, q, r
<1>7. CASE q[1] # "create"
  <2>1. t.file = s.file  BY <1>1, <1>7 DEF q
  <2>2. (\E i \in 1 .. m - 1 : r[i] = "create") <=> (\E i \in 1 .. m : q[i] = "create")
    <3>1. ASSUME NEW i \in 1 .. m, q[i] = "create" PROVE \E k \in 1 .. m - 1 : r[k] = "create"
      <4>1. i # 1  BY <1>7, <3>1
      <4>2. i - 1 \in 1 .. m - 1 /\ (i - 1) + 1 = i  BY <4>1, <1>1
      <4> QED  BY <4>2, <3>1, <1>1
    <3>2. ASSUME NEW i \in 1 .. m - 1, r[i] = "create" PROVE \E k \in 1 .. m : q[k] = "create"
      BY <3>2, <1>3
    <3> QED  BY <3>1, <3>2
  <2> QED  BY <1>1, <1>2, <1>4, <1>7, <2>1, <2>2 DEF EventsInv, CreatePending, q, r
<1> QED  BY <1>6, <1>7

(* What a file that takes the place of another one has comes after what    *)
(* was sent of that one.                                                   *)
LEMMA ReopenKeeps ==
  ASSUME LInv, NEW s \in subs, s.at = "select", GoroutineOnly,
         s.events # <<>>, Head(s.events) = "create",
         Becomes(s, [Reopened(s) EXCEPT !.events = Tail(@), !.at = "emit"])
  PROVE  LInv'
<1> DEFINE u == Reopened(s)
           t == [u EXCEPT !.events = Tail(@), !.at = "emit"]
<1>1. SubInv(s) /\ TypedSub(s) /\ DOMAIN s = SubFields /\ HostTypes
  BY DEF LInv, SubsInv, SubInv, TypedSub, HostInv
<1>2. /\ SameBut(s, t, {"file", "off", "events", "at"})
      /\ t.file = Len(files) /\ t.off = SeekTail(Len(files))
      /\ t.events = Tail(s.events) /\ t.at = "emit"
  <2>1. /\ DOMAIN u = SubFields /\ u.file = Len(files) /\ u.off = SeekTail(Len(files))
        /\ u.events = s.events /\ \A f \in SubFields \ {"file", "off"} : u[f] = s[f]
    BY <1>1 DEF Reopened, SubFields
  <2> HIDE DEF u
  <2> QED  BY <2>1 DEF SameBut, SubFields
<1>3. Becomes(s, t)  OBVIOUS
<1> HIDE DEF t, u
<1>4. /\ t.gen = s.gen /\ t.kind = s.kind /\ t.live = s.live /\ t.ch = s.ch
      /\ t.prev = s.prev /\ t.out = s.out
  BY <1>2, SameFields
<1>5. s.events \in Seq({"write", "create"}) /\ s.file \in DOMAIN files
  BY <1>1 DEF TypedSub, Reading
<1>6. t.events \in Seq({"write", "create"})  BY <1>2, <1>5, Shifted
<1>7. t.file \in DOMAIN files /\ t.file \in Nat /\ t.off \in Nat
  BY <1>1, <1>2, FilesAre, SeekTailIs
<1>8. TypedSub(t)
  BY <1>1, <1>2, <1>4, <1>6, <1>7 DEF TypedSub, SameBut, Opening, Reading, Polling
<1>9. ASSUME s.gen = gen PROVE CurrentInv(t)
  <2>1. CurrentInv(s) /\ TailInv(s)  BY <1>1, <1>9 DEF SubInv, CurrentInv, Reading
  <2>2. EventsInv(t) /\ s.file # Len(files)
    BY <1>2, <1>5, <2>1, EventTaken DEF TailInv
  <2>3. s.file < Len(files)  BY <1>1, <1>5, <2>2, FilesAre
  <2>4. SentBefore(t)
    <3>1. Sent(t) = Sent(s)  BY <1>4 DEF Sent
    <3>2. ASSUME NEW n, Unread(t, n) PROVE Unread(s, n)
      <4>1. \A g \in DOMAIN files : ~ g > Len(files)  BY <1>1, FilesAre
      <4>2. \E k \in DOMAIN files[t.file] : n = files[t.file][k]
        BY <3>2, <4>1, <1>2 DEF Unread
      <4>3. t.file > s.file  BY <1>2, <1>5, <1>1, <2>3, FilesAre
      <4> QED  BY <4>2, <4>3, <1>7 DEF Unread
    <3> QED  BY <2>1, <3>1, <3>2 DEF TailInv, SentBefore
  <2>5. PlaceInv(t)
    <3>1. t.off \in Nat /\ Size(t) \in Nat /\ t.off <= Size(t) /\ (t.off = Size(t) => t.off = 0)
      BY <1>1, <1>2, <1>7, SeekTailIs DEF Size
    <3> QED  BY <3>1, <1>2 DEF PlaceInv
  <2> QED  BY <1>2, <1>4, <2>1, <2>2, <2>4, <2>5
           DEF CurrentInv, TailInv, Opening, Reading, Polling
<1> QED  BY <1>3, <1>4, <1>8, <1>9, Goes

LEMMA RestartKeeps ==
  ASSUME LInv, NEW s \in subs, s.at = "select", GoroutineOnly,
         s.events # <<>>, Head(s.events) # "create",
         Becomes(s, [Restarted(s) EXCEPT !.events = Tail(@), !.at = "emit"])
  PROVE  LInv'
<1> DEFINE o == IF Size(s) < s.off THEN 0 ELSE s.off
           u == Restarted(s)
           t == [u EXCEPT !.events = Tail(@), !.at = "emit"]
<1>1. SubInv(s) /\ TypedSub(s) /\ DOMAIN s = SubFields /\ HostTypes
  BY DEF LInv, SubsInv, SubInv, TypedSub, HostInv
<1>2. /\ SameBut(s, t, {"off", "events", "at"})
      /\ t.off = o /\ t.events = Tail(s.events) /\ t.at = "emit"
  <2>1. /\ DOMAIN u = SubFields /\ u.off = o
        /\ u.events = s.events /\ \A f \in SubFields \ {"off"} : u[f] = s[f]
    BY <1>1 DEF Restarted, SubFields
  <2> HIDE DEF u, o
  <2> QED  BY <2>1 DEF SameBut, SubFields
<1>3. Becomes(s, t)  OBVIOUS
<1> HIDE DEF t, u, o
<1>4. /\ t.gen = s.gen /\ t.kind = s.kind /\ t.live = s.live /\ t.ch = s.ch
      /\ t.file = s.file /\ t.prev = s.prev /\ t.out = s.out
  BY <1>2, SameFields
<1>5. s.events \in Seq({"write", "create"}) /\ s.file \in DOMAIN files /\ s.off \in Nat
  BY <1>1 DEF TypedSub, Reading
<1>6. t.events \in Seq({"write", "create"})  BY <1>2, <1>5, Shifted
<1>7. /\ Size(s) \in Nat /\ DOMAIN files[s.file] = 1 .. Size(s) /\ o \in Nat
      /\ o <= Size(s) /\ (o = s.off \/ (o = 0 /\ s.off > Size(s)))
  BY <1>1, <1>5, FilesAre DEF Size, o
<1>8. TypedSub(t)
  BY <1>1, <1>2, <1>4, <1>6, <1>7 DEF TypedSub, SameBut, Opening, Reading, Polling
<1>9. ASSUME s.gen = gen PROVE CurrentInv(t)
  <2>1. CurrentInv(s) /\ TailInv(s)  BY <1>1, <1>9 DEF SubInv, CurrentInv, Reading
  <2>2. EventsInv(t)  BY <1>2, <1>4, <1>5, <2>1, EventTaken DEF TailInv
  <2>3. SentBefore(t)
    <3>1. Sent(t) = Sent(s)  BY <1>4 DEF Sent
    <3>2. ASSUME NEW n, Unread(t, n) PROVE Unread(s, n)
      <4>1. CASE o = s.off  BY <3>2, <4>1, <1>2, <1>4 DEF Unread
      <4>2. CASE o = 0 /\ s.off > Size(s)
        <5>1. Size(s) = 0  BY <2>1, <4>2 DEF TailInv, PlaceInv
        <5>2. DOMAIN files[s.file] = {}  BY <5>1, <1>7
        <5> QED  BY <3>2, <5>2, <1>4 DEF Unread
      <4> QED  BY <4>1, <4>2, <1>7
    <3> QED  BY <2>1, <3>1, <3>2 DEF TailInv, SentBefore
  <2>4. PlaceInv(t)
    <3>1. Size(t) = Size(s)  BY <1>4 DEF Size
    <3>2. o = Size(s) /\ o > 0 => LastSentIs(t, files[t.file][t.off])
      <4> SUFFICES ASSUME o = Size(s), o > 0 PROVE LastSentIs(t, files[t.file][t.off])
        OBVIOUS
      <4>1. o = s.off  BY <1>7
      <4> QED  BY <4>1, <1>2, <1>4, <2>1 DEF TailInv, PlaceInv, LastSentIs
    <3> QED  BY <3>1, <3>2, <1>2, <1>7 DEF PlaceInv
  <2> QED  BY <1>2, <1>4, <2>1, <2>2, <2>3, <2>4
           DEF CurrentInv, TailInv, Opening, Reading, Polling
<1> QED  BY <1>3, <1>4, <1>8, <1>9, Goes

LEMMA TailSelectsKeeps ==
  ASSUME Calm, LInv, NEW s \in subs, TailSelects(s)
  PROVE  LInv'
<1>0. GoroutineOnly /\ s.at = "select"  BY DEF TailSelects
<1>1. CASE Returns(s)  BY <1>0, <1>1, ReturnsKeep
<1>2. CASE /\ s.events # <<>>
           /\ \E t \in IF Head(s.events) = "create" THEN Reopen(s) ELSE {Restarted(s)} :
                Becomes(s, [t EXCEPT !.events = Tail(@), !.at = "emit"])
  <2>1. CASE Head(s.events) = "create"
    <3>1. Reopen(s) = {Reopened(s)}  BY DEF Reopen
    <3>2. Becomes(s, [Reopened(s) EXCEPT !.events = Tail(@), !.at = "emit"])
      BY <1>2, <2>1, <3>1
    <3> QED  BY <1>0, <1>2, <2>1, <3>2, ReopenKeeps
  <2>2. CASE Head(s.events) # "create"
    <3>1. Becomes(s, [Restarted(s) EXCEPT !.events = Tail(@), !.at = "emit"])
      BY <1>2, <2>2
    <3> QED  BY <1>0, <1>2, <2>2, <3>1, RestartKeeps
  <2> QED  BY <2>1, <2>2
<1> QED  BY <1>1, <1>2 DEF TailSelects

LEMMA WatchFailsKeeps ==
  ASSUME LInv, WatchFails
  PROVE  LInv'
  BY ReturnsKeep DEF WatchFails

-----------------------------------------------------------------------------
(* Journal. *)

LEMMA SentIsLine ==
  ASSUME LInv, NEW s, TypedSub(s), NEW x \in Sent(s)
  PROVE  x.n \in Nat
<1>1. lines \in Seq(Line) /\ s.ch \in Seq(Line)  BY DEF LInv, PageInv, TypedSub
<1>2. \A i \in DOMAIN lines : lines[i] \in Line  BY <1>1, ElementOfSeq, LenProperties
<1>3. \A i \in DOMAIN s.ch : s.ch[i] \in Line  BY <1>1, ElementOfSeq, LenProperties
<1>4. x \in Line  BY <1>2, <1>3 DEF Sent, ToSet
<1> QED  BY <1>4 DEF Line

LEMMA JournalAnswered ==
  ASSUME LInv, NEW s \in subs, s.at = "read", GoroutineOnly, NEW cur \in {LastLines, <<>>},
         Becomes(s, [s EXCEPT !.fails = 0, !.prev = Remember(@, cur), !.at = "send",
                       !.out = SubSeq(cur, Overlap(s.prev, cur) + 1, Len(cur))])
  PROVE  LInv'
<1> DEFINE o == SubSeq(cur, Overlap(s.prev, cur) + 1, Len(cur))
           r == Remember(s.prev, cur)
           t == [s EXCEPT !.fails = 0, !.prev = r, !.at = "send", !.out = o]
           p == IF s.prev = <<>> THEN 0 ELSE s.prev[Len(s.prev)]
<1>1. SubInv(s) /\ TypedSub(s) /\ DOMAIN s = SubFields /\ HostTypes /\ s.prev \in Seq(Nat)
      /\ ReadOK(s.prev, s.out) /\ journal \in Nat
  BY DEF LInv, SubsInv, SubInv, TypedSub, HostInv, HostTypes
<1>2. SameBut(s, t, {"fails", "prev", "at", "out"}) /\ t.prev = r /\ t.at = "send" /\ t.out = o
  BY <1>1 DEF SameBut, SubFields
<1>3. Becomes(s, t)  OBVIOUS
<1> HIDE DEF t
<1>4. /\ t.gen = s.gen /\ t.kind = s.kind /\ t.live = s.live /\ t.ch = s.ch
      /\ t.file = s.file /\ t.off = s.off /\ t.events = s.events
  BY <1>2, SameFields
<1>5. /\ LastLines \in Seq(Nat) /\ Len(LastLines) \in Nat
      /\ DOMAIN LastLines = 1 .. Len(LastLines)
      /\ Len(LastLines) <= Window /\ Len(LastLines) <= journal
      /\ Len(LastLines) = Window \/ Len(LastLines) = journal
      /\ \A k \in 1 .. Len(LastLines) : LastLines[k] + Len(LastLines) = journal + k
  BY <1>1, LastLinesAre
<1>6. cur \in Seq(Nat)  BY <1>5, EmptySeq
<1>7. p \in Nat /\ (s.prev = <<>> => p = 0) /\ (s.prev # <<>> => p = s.prev[Len(s.prev)])
  <2>1. CASE s.prev = <<>>  BY <2>1
  <2>2. CASE s.prev # <<>>
    <3>1. Len(s.prev) \in 1 .. Len(s.prev)  BY <1>1, <2>2, EmptySeq
    <3>2. s.prev[Len(s.prev)] \in Nat  BY <3>1, <1>1, ElementOfSeq
    <3> QED  BY <2>2, <3>2
  <2> QED  BY <2>1, <2>2
<1> HIDE DEF p
<1>8. EndsAt(s.prev, p)  BY <1>1, <1>7 DEF ReadOK, Last, EndsAt
<1>a. o = SubSeq(cur, Overlap(s.prev, cur) + 1, Len(cur))  OBVIOUS
<1> HIDE DEF o
<1>9. /\ o \in Seq(Nat) /\ (cur = <<>> => o = <<>>)
      /\ \A k \in DOMAIN o : p < o[k] /\ o[k] <= journal
      /\ \A i, k \in DOMAIN o : i < k => o[i] < o[k]
  <2>1. HostTypes /\ s.prev \in Seq(Nat) /\ p \in Nat  BY <1>1, <1>7
  <2>2. cur \in {LastLines, <<>>}  OBVIOUS
  <2> QED  BY <2>1, <2>2, <1>6, <1>8, <1>a, Joined, ZenonT(60)
<1>10. r = IF cur = <<>> THEN s.prev ELSE cur  BY DEF Remember
<1> HIDE DEF r
<1>11. r \in Seq(Nat)  BY <1>1, <1>6, <1>10
<1>12. cur # <<>> => cur = LastLines /\ Last(LastLines) = journal
  <2> SUFFICES ASSUME cur # <<>> PROVE Last(LastLines) = journal
    OBVIOUS
  <2> DEFINE m == Len(LastLines)
  <2>1. m \in 1 .. m  BY <1>5, <1>6, EmptySeq
  <2>2. LastLines[m] + m = journal + m  BY <2>1, <1>5
  <2>3. LastLines[m] \in Nat /\ m \in Nat  BY <2>1, <1>5, ElementOfSeq
  <2>4. LastLines[m] = journal
    <3> DEFINE e == LastLines[m]
    <3>1. e \in Nat /\ m \in Nat /\ e + m = journal + m  BY <2>2, <2>3
    <3> HIDE DEF e, m
    <3> QED  BY <3>1, <1>1 DEF e
  <2> QED  BY <2>4 DEF Last
<1>13. ReadOK(r, o)
  <2>1. CASE cur = <<>>
    <3>1. r = s.prev /\ o = <<>>  BY <2>1, <1>9, <1>10
    <3> QED  BY <3>1, <1>1 DEF ReadOK
  <2>2. CASE cur # <<>>
    <3>1. r = LastLines /\ r # <<>> /\ Last(r) = journal  BY <2>2, <1>10, <1>12
    <3>2. /\ DOMAIN r = 1 .. Len(r) /\ Len(r) <= Window /\ Len(r) <= Last(r)
          /\ Len(r) = Window \/ Len(r) = Last(r)
          /\ \A k \in DOMAIN r : r[k] + Len(r) = Last(r) + k
      BY <3>1, <1>5
    <3>3. \A k \in DOMAIN o : r # <<>> /\ o[k] <= Last(r)  BY <3>1, <1>9
    <3>4. Last(r) <= journal  BY <3>1, <1>1
    <3> QED  BY <3>2, <3>3, <3>4, <1>9 DEF ReadOK
  <2> QED  BY <2>1, <2>2
<1>14. TypedSub(t)
  BY <1>1, <1>2, <1>4, <1>9, <1>11, <1>13 DEF TypedSub, SameBut, Opening, Reading, Polling
<1>15. ASSUME s.gen = gen PROVE CurrentInv(t)
  <2>1. CurrentInv(s) /\ PollInv(s) /\ Sent(t) = Sent(s)
    BY <1>1, <1>4, <1>15 DEF SubInv, CurrentInv, Polling, Sent
  <2>2. ASSUME NEW x \in Sent(s)
        PROVE  r # <<>> /\ x.n <= Last(r) /\ \A k \in DOMAIN o : x.n < o[k]
    <3>1. s.prev # <<>> /\ x.n <= p  BY <2>1, <1>7 DEF PollInv, Last
    <3>2. x.n \in Nat  BY <1>1, SentIsLine
    <3>3. \A k \in DOMAIN o : o[k] \in Nat  BY <1>9, ElementOfSeq, LenProperties
    <3>4. \A k \in DOMAIN o : x.n < o[k]  BY <3>1, <3>2, <3>3, <1>7, <1>9
    <3>5. CASE cur = <<>>
      BY <3>5, <3>1, <3>4, <1>7, <1>10 DEF Last
    <3>6. CASE cur # <<>>
      <4>1. r # <<>> /\ Last(r) = journal  BY <3>6, <1>10, <1>12
      <4>2. x.n <= journal  BY <3>1, <3>2, <1>1, <1>7, <1>8 DEF EndsAt
      <4> QED  BY <4>1, <4>2, <3>4
    <3> QED  BY <3>5, <3>6
  <2>3. PollInv(t)  BY <2>1, <2>2, <1>2 DEF PollInv
  <2> QED  BY <1>2, <1>4, <2>1, <2>3 DEF CurrentInv, Opening, Reading, Polling
<1> QED  BY <1>3, <1>4, <1>14, <1>15, Goes

(* Of a polling subscription only its counter or its place changes.        *)
LEMMA PollingGoesOn ==
  ASSUME LInv, NEW s \in subs, s.at \in Polling, GoroutineOnly,
         NEW t, Becomes(s, t), SameBut(s, t, {"fails", "at"}), t.at = "read"
  PROVE  LInv'
<1>1. SubInv(s) /\ TypedSub(s)  BY DEF LInv, SubsInv, SubInv
<1>2. /\ t.gen = s.gen /\ t.kind = s.kind /\ t.live = s.live /\ t.ch = s.ch
      /\ t.file = s.file /\ t.off = s.off /\ t.events = s.events
      /\ t.prev = s.prev /\ t.out = s.out
  BY SameFields
<1>3. TypedSub(t)
  BY <1>1, <1>2 DEF TypedSub, SameBut, Opening, Reading, Polling
<1>4. ASSUME s.gen = gen PROVE CurrentInv(t)
  <2>1. CurrentInv(s) /\ PollInv(s)  BY <1>1, <1>4 DEF SubInv, CurrentInv
  <2>2. PollInv(t)  BY <2>1, <1>2 DEF PollInv, Sent
  <2> QED  BY <1>2, <2>1, <2>2 DEF CurrentInv, Opening, Reading, Polling
<1> QED  BY <1>2, <1>3, <1>4, Goes

LEMMA JournalReadsKeeps ==
  ASSUME LInv, NEW s \in subs, JournalReads(s)
  PROVE  LInv'
<1>0. GoroutineOnly /\ s.at = "read"  BY DEF JournalReads
<1>1. DOMAIN s = SubFields  BY DEF LInv, SubsInv, SubInv, TypedSub
<1>2. CASE \E cur \in {LastLines, <<>>} :
             /\ s.live
             /\ Becomes(s, [s EXCEPT !.fails = 0, !.prev = Remember(@, cur), !.at = "send",
                              !.out = SubSeq(cur, Overlap(s.prev, cur) + 1, Len(cur))])
  BY <1>0, <1>2, JournalAnswered
<1>3. CASE Becomes(s, [s EXCEPT !.fails = @ + 1])
  <2> DEFINE t == [s EXCEPT !.fails = s.fails + 1]
  <2>1. SameBut(s, t, {"fails", "at"}) /\ t.at = "read"
    BY <1>0, <1>1 DEF SameBut, SubFields
  <2>2. Becomes(s, t)  BY <1>3
  <2> QED  BY <1>0, <2>1, <2>2, PollingGoesOn DEF Polling
<1>4. CASE Fails(s) \/ Returns(s)  BY <1>0, <1>4, ReturnsKeep
<1> QED  BY <1>2, <1>3, <1>4 DEF JournalReads

LEMMA JournalSent ==
  ASSUME LInv, NEW s \in subs, s.at = "send", GoroutineOnly, s.out # <<>>,
         Becomes(s, [s EXCEPT !.out = Tail(@),
                       !.ch = Append(@, [src |-> "journal", n |-> Head(s.out)])])
  PROVE  LInv'
<1> DEFINE x == [src |-> "journal", n |-> Head(s.out)]
           c == Append(s.ch, x)
           o == s.out
           r == Tail(s.out)
           t == [s EXCEPT !.out = r, !.ch = c]
<1>1. /\ SubInv(s) /\ TypedSub(s) /\ DOMAIN s = SubFields /\ o \in Seq(Nat)
      /\ ReadOK(s.prev, o) /\ s.ch \in Seq(Line) /\ PageInv
  BY DEF LInv, SubsInv, SubInv, TypedSub
<1>2. SameBut(s, t, {"out", "ch"}) /\ t.out = r /\ t.ch = c
  BY <1>1 DEF SameBut, SubFields
<1>3. Becomes(s, t)  OBVIOUS
<1>4. /\ r \in Seq(Nat) /\ Len(o) \in Nat /\ Len(o) > 0
      /\ DOMAIN r = 1 .. Len(o) - 1 /\ DOMAIN o = 1 .. Len(o)
      /\ \A i \in 1 .. Len(o) - 1 : r[i] = o[i + 1]
      /\ Head(o) = o[1] /\ Head(o) \in Nat
  BY <1>1, Shifted
<1>5. x \in Line /\ x.n = o[1] /\ x.src = "journal"  BY <1>4 DEF Line
<1>6. c = Append(s.ch, x)  OBVIOUS
<1> HIDE DEF t, x
<1> HIDE DEF c
<1>7. c \in Seq(Line)  BY <1>1, <1>5, <1>6, Appended
<1>8. /\ t.gen = s.gen /\ t.kind = s.kind /\ t.live = s.live /\ t.at = s.at
      /\ t.file = s.file /\ t.off = s.off /\ t.events = s.events /\ t.prev = s.prev
  BY <1>2, SameFields
<1> DEFINE m == Len(o)
<1>9. m \in Nat /\ m > 0 /\ DOMAIN r = 1 .. m - 1 /\ DOMAIN o = 1 .. m /\ 1 \in 1 .. m
  BY <1>4
<1>10. ASSUME NEW k \in 1 .. m - 1
       PROVE  k + 1 \in 1 .. m /\ r[k] = o[k + 1] /\ o[1] < r[k] /\ 1 < k + 1
  <2>1. k + 1 \in 1 .. m /\ 1 < k + 1 /\ r[k] = o[k + 1]  BY <1>4
  <2> QED  BY <2>1, <1>1, <1>9 DEF ReadOK
<1> HIDE DEF o, r, m
<1>11. ReadOK(s.prev, r)
  <2>1. \A k \in 1 .. m - 1 : s.prev # <<>> /\ r[k] <= Last(s.prev)
    BY <1>1, <1>9, <1>10 DEF ReadOK
  <2>2. ASSUME NEW i \in 1 .. m - 1, NEW k \in 1 .. m - 1, i < k PROVE r[i] < r[k]
    <3>1. i + 1 < k + 1 /\ i + 1 \in 1 .. m /\ k + 1 \in 1 .. m /\ r[i] = o[i + 1] /\ r[k] = o[k + 1]
      BY <2>2, <1>9, <1>10
    <3> QED  BY <3>1, <1>1, <1>9 DEF ReadOK
  <2> QED  BY <2>1, <2>2, <1>1, <1>9 DEF ReadOK
<1>12. TypedSub(t)
  BY <1>1, <1>2, <1>4, <1>7, <1>8, <1>11 DEF TypedSub, SameBut, Opening, Reading, Polling
<1>13. ASSUME s.gen = gen PROVE CurrentInv(t)
  <2>1. CurrentInv(s) /\ PollInv(s)  BY <1>1, <1>13 DEF SubInv, CurrentInv, Polling
  <2>2. target = "journal"  BY <1>1, <2>1 DEF CurrentInv, TypedSub, Polling
  <2>3. \A y \in Sent(s) : y.n < x.n  BY <2>1, <1>5, <1>9 DEF PollInv, o
  <2>4. lines \in Seq(Line)  BY <1>1 DEF PageInv
  <2>5. /\ Rises(c) /\ FromOne(c) /\ c # <<>>
        /\ \A i \in DOMAIN lines, k \in DOMAIN c : lines[i].n < c[k].n
        /\ ToSet(lines) \cup ToSet(c) = Sent(s) \cup {x}
    <3>1. s.ch \in Seq(Line) /\ CurrentInv(s) /\ x \in Line /\ x.src = target
      BY <1>1, <1>5, <2>1, <2>2
    <3> QED  BY <3>1, <1>6, <2>3, <2>4, SendsInOrder
  <2>6. Sent(t) = Sent(s) \cup {x}  BY <2>5, <1>2 DEF Sent
  <2>7. s.prev # <<>> /\ x.n <= Last(s.prev)  BY <1>1, <1>5, <1>9 DEF ReadOK
  <2>8. \A k \in 1 .. m - 1 : x.n < r[k]  BY <1>5, <1>10
  <2>9. \A k \in 1 .. m - 1 : \A y \in Sent(s) : y.n < r[k]
    BY <2>1, <1>9, <1>10 DEF PollInv, o
  <2>10. PollInv(t)  BY <2>1, <2>6, <2>7, <2>8, <2>9, <1>2, <1>8, <1>9 DEF PollInv
  <2> QED  BY <1>2, <1>8, <2>1, <2>5, <2>10 DEF CurrentInv, Opening, Reading, Polling
<1> QED  BY <1>3, <1>8, <1>12, <1>13, Goes

LEMMA JournalSendsKeeps ==
  ASSUME LInv, NEW s \in subs, JournalSends(s)
  PROVE  LInv'
<1>0. GoroutineOnly /\ s.at = "send"  BY DEF JournalSends
<1>1. DOMAIN s = SubFields  BY DEF LInv, SubsInv, SubInv, TypedSub
<1>2. CASE /\ s.out # <<>> /\ Len(s.ch) < Buffer
           /\ Becomes(s, [s EXCEPT !.out = Tail(@),
                !.ch = Append(@, [src |-> "journal", n |-> Head(s.out)])])
  BY <1>0, <1>2, JournalSent
<1>3. CASE Returns(s)  BY <1>0, <1>3, ReturnsKeep
<1>4. CASE Becomes(s, [s EXCEPT !.at = "read"])
  <2> DEFINE t == [s EXCEPT !.at = "read"]
  <2>1. SameBut(s, t, {"fails", "at"}) /\ t.at = "read"
    BY <1>1 DEF SameBut, SubFields
  <2>2. Becomes(s, t)  BY <1>4
  <2> QED  BY <1>0, <2>1, <2>2, PollingGoesOn DEF Polling
<1> QED  BY <1>2, <1>3, <1>4 DEF JournalSends

-----------------------------------------------------------------------------
(* Lines arrive. *)

LEMMA TypesStay ==
  ASSUME LInv, UNCHANGED <<files, journal, gen>>, NEW r, TypedSub(r)
  PROVE  TypedSub(r)'
<1>1. gen \in Nat /\ gen' \in Nat /\ gen' >= gen  BY DEF LInv, PageInv
<1>2. journal \in Nat /\ journal' \in Nat /\ journal' >= journal
  BY DEF LInv, HostInv, HostTypes
<1> QED  BY <1>1, <1>2, TypeStays

(* Lines of the subscription that is open are shown.                       *)
LEMMA LinesShown ==
  ASSUME LInv, NEW s \in subs, s.ch # <<>>, s.gen = gen,
         lines' = Newest(lines \o s.ch),
         Becomes(s, [s EXCEPT !.ch = <<>>, !.reader = open]),
         UNCHANGED <<hostVars, target, gen, open>>
  PROVE  LInv'
<1>b. PICK t : t = [s EXCEPT !.ch = <<>>, !.reader = open]  OBVIOUS
<1>1. /\ SubInv(s) /\ TypedSub(s) /\ CurrentInv(s) /\ DOMAIN s = SubFields /\ s.ch \in Seq(Line)
      /\ PageInv /\ lines \in Seq(Line) /\ HostInv
  BY DEF LInv, SubsInv, SubInv, TypedSub, PageInv
<1>2. SameBut(s, t, {"ch", "reader"}) /\ t.ch = <<>>  BY <1>1, <1>b DEF SameBut, SubFields
<1>3. subs' \subseteq (subs \ {s}) \cup {t}  BY <1>b DEF Becomes
<1>4. /\ t.gen = s.gen /\ t.kind = s.kind /\ t.live = s.live /\ t.at = s.at
      /\ t.file = s.file /\ t.off = s.off /\ t.events = s.events
      /\ t.prev = s.prev /\ t.out = s.out
  BY <1>2, SameFields
<1>5. UNCHANGED <<files, written, journal>>  BY DEF hostVars
<1> DEFINE ch == s.ch
<1>6. /\ Rises(lines) /\ FromOne(lines) /\ Rises(ch) /\ FromOne(ch)
      /\ \A i \in DOMAIN lines, k \in DOMAIN ch : lines[i].n < ch[k].n
      /\ ch \in Seq(Line) /\ ch # <<>>
  BY <1>1 DEF PageInv, CurrentInv
<1>a. lines' = Newest(lines \o ch)  OBVIOUS
<1> HIDE DEF ch
<1>7. /\ lines' \in Seq(Line) /\ Len(lines') <= MaxShown /\ Rises(lines')
      /\ ToSet(lines') \subseteq ToSet(lines) \cup ToSet(ch)
      /\ lines' # <<>> /\ lines'[Len(lines')] = ch[Len(ch)]
  BY <1>1, <1>6, <1>a, Pushed
<1>8. FromOne(lines)'
  <2> SUFFICES ASSUME NEW i \in DOMAIN lines' PROVE lines'[i].src = target
    BY DEF FromOne
  <2>1. lines'[i] \in ToSet(lines) \cup ToSet(ch)  BY <1>7 DEF ToSet
  <2> QED  BY <2>1, <1>6 DEF FromOne, ToSet
<1>9. HostInv'  BY <1>1, HostStays
<1>10. target # "none"  BY <1>1 DEF PageInv
<1>11. PageInv'
  <2>1. \A r, q \in subs' : r.gen = q.gen => r = q
    BY <1>3, <1>4, <1>1 DEF PageInv
  <2>2. Rises(lines)'  BY <1>7 DEF Rises
  <2> QED  BY <1>1, <1>7, <1>8, <1>10, <2>1, <2>2 DEF PageInv
<1>12. TypedSub(t)'
  <2>1. <<>> \in Seq(Line)  BY EmptyLine
  <2>2. TypedSub(t)
    BY <1>1, <1>2, <1>4, <2>1 DEF TypedSub, SameBut, Opening, Reading, Polling
  <2> QED  BY <2>2, <1>5, TypesStay
<1>13. CurrentInv(t)'
  <2>1. Sent(t)' \subseteq Sent(s)
    BY <1>2, <1>7 DEF Sent, ToSet, ch
  <2>2. s.at \in Reading => TailInv(t)'
    <3> SUFFICES ASSUME TailInv(s) PROVE TailInv(t)'
      BY <1>1 DEF CurrentInv
    <3>1. \A n : Unread(t, n)' <=> Unread(s, n)  BY <1>4, <1>5 DEF Unread
    <3>2. SentBefore(t)'  BY <2>1, <3>1, <1>5 DEF TailInv, SentBefore
    <3>3. EventsInv(t)'  BY <1>4, <1>5 DEF TailInv, EventsInv, CreatePending
    <3>4. Size(t)' = Size(s)  BY <1>4, <1>5 DEF Size
    <3>5. \A n : LastSentIs(s, n) => LastSentIs(t, n)'
      BY <1>2, <1>7 DEF LastSentIs, ch
    <3>6. PlaceInv(t)'  BY <3>4, <3>5, <1>4, <1>5 DEF TailInv, PlaceInv
    <3> QED  BY <3>2, <3>3, <3>6 DEF TailInv
  <2>3. s.at \in Polling => PollInv(t)'
    BY <1>1, <1>4, <2>1 DEF CurrentInv, PollInv
  <2>4. s.at \notin Opening  BY <1>1 DEF TypedSub
  <2>5. Rises(t.ch)' /\ FromOne(t.ch)' /\ \A k \in DOMAIN t.ch : FALSE
    BY <1>2, EmptyLine DEF Rises, FromOne
  <2> QED  BY <1>1, <1>4, <2>2, <2>3, <2>4, <2>5 DEF CurrentInv, Opening
<1>14. SubsInv'
  <2> SUFFICES ASSUME NEW r \in subs' PROVE SubInv(r)'
    BY DEF SubsInv
  <2>1. CASE r = t  BY <2>1, <1>12, <1>13 DEF SubInv
  <2>2. CASE r # t
    <3>1. r \in subs /\ r # s  BY <2>2, <1>3
    <3>2. r.gen # gen  BY <3>1, <1>1 DEF PageInv
    <3>3. TypedSub(r)'  BY <3>1, <1>5, TypesStay DEF LInv, SubsInv, SubInv
    <3> QED  BY <3>2, <3>3 DEF SubInv
  <2> QED  BY <2>1, <2>2
<1> QED  BY <1>9, <1>11, <1>14 DEF LInv

LEMMA OnLinesKeeps ==
  ASSUME LInv, NEW s \in subs, OnLines(s)
  PROVE  LInv'
<1>1. s.ch # <<>> /\ UNCHANGED <<hostVars, target, filter, gen, open, err, listing, active>>
  BY DEF OnLines
<1>2. CASE IsCurrent(s)
  <2>1. lines' = Newest(lines \o s.ch)  BY <1>2 DEF OnLines, PushLines
  <2>2. Becomes(s, [s EXCEPT !.ch = <<>>, !.reader = open])  BY <1>2 DEF OnLines
  <2> QED  BY <1>1, <1>2, <2>1, <2>2, LinesShown DEF IsCurrent
<1>3. CASE ~IsCurrent(s)
  <2> DEFINE t == [s EXCEPT !.ch = <<>>, !.reader = FALSE]
  <2>1. TypedSub(s) /\ DOMAIN s = SubFields  BY DEF LInv, SubsInv, SubInv, TypedSub
  <2>2. SameBut(s, t, {"ch", "reader"}) /\ t.ch = <<>>  BY <2>1 DEF SameBut, SubFields
  <2>3. Becomes(s, t) /\ UNCHANGED bodyVars  BY <1>3 DEF OnLines
  <2> HIDE DEF t
  <2>4. /\ t.gen = s.gen /\ t.kind = s.kind /\ t.live = s.live /\ t.at = s.at
        /\ t.file = s.file /\ t.off = s.off /\ t.events = s.events
        /\ t.prev = s.prev /\ t.out = s.out
    BY <2>2, SameFields
  <2>5. <<>> \in Seq(Line)  BY EmptyLine
  <2>6. TypedSub(t)
    BY <2>1, <2>2, <2>4, <2>5 DEF TypedSub, SameBut, Opening, Reading, Polling
  <2>7. GoroutineOnly  BY <1>1, <2>3 DEF GoroutineOnly
  <2>8. s.gen # gen  BY <1>3 DEF IsCurrent
  <2> QED  BY <2>3, <2>4, <2>6, <2>7, <2>8, Goes
<1> QED  BY <1>2, <1>3

LEMMA OnEndKeeps ==
  ASSUME LInv, NEW s \in subs, OnEnd(s)
  PROVE  LInv'
<1>1. /\ subs' \subseteq subs
      /\ UNCHANGED <<hostVars, target, lines, gen, open>>
  BY DEF OnEnd, bodyVars
<1>2. HostInv'  BY <1>1, HostStays DEF LInv
<1>3. PageInv'
  <2>1. target # "none"  BY DEF LInv, PageInv
  <2> QED  BY <1>1, <2>1 DEF LInv, PageInv, Rises, FromOne
<1>4. SubsInv'
  <2> SUFFICES ASSUME NEW r \in subs' PROVE SubInv(r)'
    BY DEF SubsInv
  <2>1. SubInv(r) /\ PageInv /\ HostTypes  BY <1>1 DEF LInv, SubsInv, HostInv
  <2>2. UNCHANGED <<files, written, journal, lines, target, gen>>  BY <1>1 DEF hostVars
  <2>3. CASE r.gen = gen
    <3>1. r.live => open'  BY <2>1, <2>3, <1>1 DEF SubInv, CurrentInv
    <3> QED  BY <3>1, <2>1, <2>2, SubStays
  <2>4. CASE r.gen # gen
    <3>1. TypedSub(r)'  BY <2>1, <2>2, TypesStay DEF SubInv
    <3> QED  BY <3>1, <2>2, <2>4 DEF SubInv
  <2> QED  BY <2>3, <2>4
<1> QED  BY <1>2, <1>3, <1>4 DEF LInv

-----------------------------------------------------------------------------
(* The page. *)

LEMMA NothingChanges ==
  ASSUME LInv, UNCHANGED <<hostVars, subs, target, lines, gen, open>>
  PROVE  LInv'
<1>1. HostInv'  BY HostStays DEF LInv
<1>2. PageInv'  BY DEF LInv, PageInv, Rises, FromOne
<1>3. SubsInv'
  <2> SUFFICES ASSUME NEW r \in subs PROVE SubInv(r)'
    BY DEF SubsInv
  <2>1. SubInv(r) /\ PageInv /\ HostTypes  BY DEF LInv, SubsInv, HostInv
  <2>2. UNCHANGED <<files, written, journal, lines, target, gen>>  BY DEF hostVars
  <2>3. CASE r.gen = gen
    <3>1. r.live => open'  BY <2>1, <2>3 DEF SubInv, CurrentInv
    <3> QED  BY <3>1, <2>1, <2>2, SubStays
  <2>4. CASE r.gen # gen
    <3>1. TypedSub(r)'  BY <2>1, <2>2, TypesStay DEF SubInv
    <3> QED  BY <3>1, <2>2, <2>4 DEF SubInv
  <2> QED  BY <2>3, <2>4
<1> QED  BY <1>1, <1>2, <1>3 DEF LInv

(* Stopped subscriptions are as they were, but for being live.             *)
LEMMA StoppedAre ==
  ASSUME LInv, NEW q \in Stopped(subs)
  PROVE  /\ TypedSub(q) /\ (q.gen = gen => ~q.live /\ CurrentInv(q))
         /\ \A p \in Stopped(subs) : p.gen = q.gen => p = q
<1>1. \A r \in subs : DOMAIN r = SubFields /\ r.live \in BOOLEAN
  BY DEF LInv, SubsInv, SubInv, TypedSub
<1>2. ASSUME NEW r \in subs
      PROVE  LET p == [r EXCEPT !.live = @ /\ ~(open /\ r.gen = gen)]
             IN p.gen = r.gen
  <2>1. DOMAIN r = SubFields  BY <1>1
  <2> QED  BY <2>1 DEF SubFields
<1>3. PICK r \in subs : q = [r EXCEPT !.live = @ /\ ~(open /\ r.gen = gen)]
  BY DEF Stopped
<1>4. SameBut(r, q, {"live"}) /\ q.live = (r.live /\ ~(open /\ r.gen = gen))
  BY <1>1, <1>3 DEF SameBut, SubFields
<1>5. /\ q.gen = r.gen /\ q.kind = r.kind /\ q.ch = r.ch /\ q.at = r.at
      /\ q.file = r.file /\ q.off = r.off /\ q.events = r.events
      /\ q.prev = r.prev /\ q.out = r.out
  BY <1>4, SameFields
<1>6. SubInv(r) /\ TypedSub(r)  BY DEF LInv, SubsInv, SubInv
<1>7. q.live \in BOOLEAN
  <2>1. CASE r.live /\ ~(open /\ r.gen = gen)  BY <2>1, <1>4
  <2>2. CASE ~(r.live /\ ~(open /\ r.gen = gen))  BY <2>2, <1>4
  <2> QED  BY <2>1, <2>2
<1>8. TypedSub(q)
  BY <1>4, <1>5, <1>6, <1>7 DEF TypedSub, SameBut, Opening, Reading, Polling
<1>9. ASSUME q.gen = gen PROVE ~q.live /\ CurrentInv(q)
  <2>1. CurrentInv(r)  BY <1>5, <1>6, <1>9 DEF SubInv
  <2>2. ~q.live  BY <2>1, <1>4, <1>5, <1>9 DEF CurrentInv
  <2>3. r.at \in Reading => TailInv(q)
    <3> SUFFICES ASSUME TailInv(r) PROVE TailInv(q)
      BY <2>1 DEF CurrentInv
    <3>1. SentBefore(q)  BY <1>5 DEF TailInv, SentBefore, Sent, Unread
    <3>2. EventsInv(q)  BY <1>5 DEF TailInv, EventsInv, CreatePending
    <3>3. PlaceInv(q)  BY <2>2, <1>5 DEF TailInv, PlaceInv, Size, LastSentIs
    <3> QED  BY <3>1, <3>2, <3>3 DEF TailInv
  <2>4. r.at \in Polling => PollInv(q)  BY <2>1, <1>5 DEF CurrentInv, PollInv, Sent
  <2> QED  BY <2>1, <2>2, <2>3, <2>4, <1>5 DEF CurrentInv
<1>10. ASSUME NEW p \in Stopped(subs), p.gen = q.gen PROVE p = q
  <2>1. PICK u \in subs : p = [u EXCEPT !.live = @ /\ ~(open /\ u.gen = gen)]
    BY DEF Stopped
  <2>2. p.gen = u.gen  BY <2>1, <1>2
  <2>3. u = r  BY <2>2, <1>5, <1>10 DEF LInv, PageInv
  <2> QED  BY <2>1, <2>3, <1>3
<1> QED  BY <1>8, <1>9, <1>10

LEMMA StopKeeps ==
  ASSUME LInv, Stop, UNCHANGED <<hostVars, target, lines>>
  PROVE  LInv'
<1>0. UNCHANGED gen /\ subs' = Stopped(subs)  BY DEF Stop
<1>1. HostInv'  BY HostStays DEF LInv
<1>2. PageInv'
  <2>1. target = "none" => subs' = {}  BY <1>0 DEF LInv, PageInv, Stopped
  <2>2. \A p, q \in subs' : p.gen = q.gen => p = q  BY <1>0, StoppedAre
  <2> QED  BY <1>0, <2>1, <2>2 DEF LInv, PageInv, Rises, FromOne
<1>3. SubsInv'
  <2> SUFFICES ASSUME NEW q \in subs' PROVE SubInv(q)'
    BY DEF SubsInv
  <2>1. TypedSub(q) /\ (q.gen = gen => ~q.live /\ CurrentInv(q))  BY <1>0, StoppedAre
  <2>2. SubInv(q) /\ PageInv /\ HostTypes  BY <2>1 DEF LInv, HostInv, SubInv
  <2>3. UNCHANGED <<files, written, journal, lines, target, gen>>  BY <1>0 DEF hostVars
  <2>4. CASE q.gen = gen  BY <2>1, <2>2, <2>3, <2>4, SubStays
  <2>5. CASE q.gen # gen
    <3>1. TypedSub(q)'  BY <2>1, <2>3, TypesStay
    <3> QED  BY <3>1, <2>3, <2>5 DEF SubInv
  <2> QED  BY <2>4, <2>5
<1> QED  BY <1>1, <1>2, <1>3 DEF LInv

LEMMA OpenKeeps ==
  ASSUME LInv, NEW k \in {"log", "journal"}, Open(k), UNCHANGED hostVars
  PROVE  LInv'
<1>0. /\ target' = k /\ lines' = <<>> /\ gen' = gen + 1 /\ open' = TRUE
      /\ subs' = Stopped(subs) \cup {NewSub(k)}
  BY DEF Open
<1>1. HostInv'  BY HostStays DEF LInv
<1>2. gen \in Nat /\ journal \in Nat /\ HostTypes /\ UNCHANGED <<files, journal>>
  BY DEF LInv, PageInv, HostInv, HostTypes, hostVars
<1>3. PICK n : n = NewSub(k)  OBVIOUS
<1>4. /\ DOMAIN n = SubFields /\ n.gen = gen + 1 /\ n.kind = k /\ n.live = TRUE
      /\ n.ch = <<>> /\ n.at = (IF k = "log" THEN "open" ELSE "read") /\ n.file = 0
      /\ n.off = 0 /\ n.events = <<>> /\ n.prev = <<>> /\ n.out = <<>>
  BY <1>3 DEF NewSub, SubFields
<1>5. \A q \in Stopped(subs) : TypedSub(q)' /\ q.gen < gen'
  <2> TAKE q \in Stopped(subs)
  <2>1. TypedSub(q)  BY StoppedAre
  <2>2. q.gen < gen + 1  BY <2>1, <1>2 DEF TypedSub
  <2>3. gen' \in Nat /\ gen' >= gen  BY <1>0, <1>2
  <2> QED  BY <2>1, <2>2, <2>3, <1>0, <1>2, TypeStays
<1>6. TypedSub(n)'
  <2>1. n.gen \in 1 .. gen'  BY <1>0, <1>2, <1>4
  <2>2. <<>> \in Seq(Line) /\ <<>> \in Seq(Nat) /\ <<>> \in Seq({"write", "create"})
        /\ DOMAIN <<>> = {}
    BY EmptySeq
  <2>3. ReadOK(n.prev, n.out)'  BY <2>2, <1>4 DEF ReadOK
  <2>4. /\ n.at \in Opening \cup Reading => n.kind = "log"
        /\ n.at \in Polling => n.kind = "journal"
        /\ n.at \notin {"watch"} \cup Reading
    BY <1>4 DEF Opening, Reading, Polling
  <2>5. /\ n.kind \in {"log", "journal"} /\ n.ch \in Seq(Line) /\ n.live \in BOOLEAN
        /\ n.file \in Nat /\ n.off \in Nat /\ n.events \in Seq({"write", "create"})
        /\ n.prev \in Seq(Nat) /\ n.out \in Seq(Nat)
        /\ n.ch = <<>> /\ n.events = <<>> /\ DOMAIN n = SubFields
    <3>1. n.ch = <<>> /\ n.events = <<>> /\ n.prev = <<>> /\ n.out = <<>>  BY <1>4
    <3>2. n.ch \in Seq(Line) /\ n.events \in Seq({"write", "create"})
      BY <3>1, <2>2, Zenon
    <3>3. n.prev \in Seq(Nat) /\ n.out \in Seq(Nat)  BY <3>1, <2>2, Zenon
    <3>4. n.live \in BOOLEAN  BY <1>4, Zenon
    <3>5. /\ n.kind \in {"log", "journal"} /\ DOMAIN n = SubFields
          /\ n.file \in Nat /\ n.off \in Nat
      BY <1>4
    <3> QED  BY <3>1, <3>2, <3>3, <3>4, <3>5, Zenon
  <2> QED  BY <2>1, <2>3, <2>4, <2>5 DEF TypedSub
<1>7. CurrentInv(n)'
  <2>1. Sent(n)' = {}  BY <1>0, <1>4 DEF Sent, ToSet
  <2>2. PollInv(n)'  BY <2>1 DEF PollInv
  <2>3. Rises(n.ch)' /\ FromOne(n.ch)' /\ \A i \in DOMAIN n.ch : FALSE
    BY <1>4 DEF Rises, FromOne
  <2> QED  BY <1>0, <1>4, <2>2, <2>3 DEF CurrentInv, Opening, Reading, Polling
<1>8. PageInv'
  <2>1. \A p, q \in subs' : p.gen = q.gen => p = q
    <3> SUFFICES ASSUME NEW p \in subs', NEW q \in subs', p.gen = q.gen PROVE p = q
      OBVIOUS
    <3>1. n.gen = gen' /\ gen' \in Nat  BY <1>0, <1>2, <1>4
    <3>2. \A r \in Stopped(subs) : r.gen \in Nat
      BY StoppedAre DEF TypedSub
    <3>3. \A r \in Stopped(subs) : r.gen # n.gen  BY <3>1, <3>2, <1>5
    <3>4. CASE p \in Stopped(subs) /\ q \in Stopped(subs)  BY <3>4, StoppedAre
    <3> QED  BY <3>3, <3>4, <1>0, <1>3
  <2>2. lines' \in Seq(Line) /\ Len(lines') = 0 /\ DOMAIN lines' = {}
    BY <1>0, EmptyLine
  <2>3. Rises(lines)' /\ FromOne(lines)'  BY <2>2 DEF Rises, FromOne
  <2>4. MaxShown \in Nat  BY LogTabAssumption
  <2> QED  BY <1>0, <1>2, <2>1, <2>2, <2>3, <2>4 DEF PageInv
<1>9. SubsInv'
  <2> SUFFICES ASSUME NEW q \in subs' PROVE SubInv(q)'
    BY DEF SubsInv
  <2>1. CASE q = n  BY <2>1, <1>6, <1>7 DEF SubInv
  <2>2. CASE q \in Stopped(subs)
    <3>1. TypedSub(q)' /\ q.gen < gen'  BY <2>2, <1>5
    <3>2. q.gen # gen'  BY <3>1, <1>0, <1>2 DEF TypedSub
    <3> QED  BY <3>1, <3>2 DEF SubInv
  <2> QED  BY <2>1, <2>2, <1>0, <1>3
<1> QED  BY <1>1, <1>8, <1>9 DEF LInv

LEMMA PageStepKeeps ==
  ASSUME LInv, PageStep
  PROVE  LInv'
<1>0. target \in {"none", "log", "journal"} /\ (target = "none" => lines = <<>>)
  BY DEF LInv, PageInv
<1>1. CASE Activate
  <2>1. UNCHANGED hostVars  BY <1>1 DEF Activate
  <2>2. CASE target = "none"
    <3>1. Stop /\ lines' = <<>> /\ UNCHANGED target  BY <1>1, <2>2 DEF Activate
    <3> QED  BY <2>1, <2>2, <3>1, <1>0, StopKeeps
  <2>3. CASE target # "none"
    <3>1. Open(target)  BY <1>1, <2>3 DEF Activate
    <3> QED  BY <2>1, <2>3, <3>1, <1>0, OpenKeeps
  <2> QED  BY <2>2, <2>3
<1>2. CASE Deactivate  BY <1>2, StopKeeps DEF Deactivate, bodyVars
<1>3. CASE SetState  BY <1>3, NothingChanges DEF SetState, bodyVars
<1>4. CASE OpenSelected  BY <1>4, OpenKeeps DEF OpenSelected
<1>5. CASE ToggleJournal
  <2>1. UNCHANGED hostVars  BY <1>5 DEF ToggleJournal
  <2>2. \E k \in {"log", "journal"} : Open(k)  BY <1>5 DEF ToggleJournal
  <2> QED  BY <2>1, <2>2, OpenKeeps
<1>6. CASE ShowLatestWorker
  <2>1. UNCHANGED hostVars  BY <1>6 DEF ShowLatestWorker
  <2>2. CASE Open("log")  BY <2>1, <2>2, OpenKeeps
  <2>3. CASE UNCHANGED <<subs, target, bodyVars, gen, open>>
    BY <2>1, <2>3, NothingChanges DEF bodyVars
  <2> QED  BY <1>6, <2>2, <2>3 DEF ShowLatestWorker
<1>7. CASE SetFilter  BY <1>7, NothingChanges DEF SetFilter
<1> QED  BY <1>1, <1>2, <1>3, <1>4, <1>5, <1>6, <1>7 DEF PageStep

LEMMA OnFilesKeeps ==
  ASSUME LInv, OnFiles
  PROVE  LInv'
<1>1. CASE target = "none"  BY <1>1, OpenKeeps DEF OnFiles
<1>2. CASE target # "none"  BY <1>2, NothingChanges DEF OnFiles, bodyVars
<1> QED  BY <1>1, <1>2

-----------------------------------------------------------------------------
(* The host. *)

(* What a subscription is after an event reached it or did not.            *)
WithEvent(r, q, what) ==
  /\ SameBut(r, q, {"events"}) /\ TypedSub(q)
  /\ r.events \in Seq({"write", "create"})
  /\ q.events = r.events \/ q.events = Append(r.events, what)
  /\ r.at \in Reading => q.events # <<>> /\ q.events[Len(q.events)] = what

LEMMA NotifiedAre ==
  ASSUME LInv, NEW what \in {"write", "create"}, Notified(what), NEW q \in subs'
  PROVE  /\ \E r \in subs : q.gen = r.gen /\ WithEvent(r, q, what)
         /\ \A p \in subs' : p.gen = q.gen => p = q
<1> DEFINE Event(r) == IF r.at \in {"emit", "select"} /\ r.kind = "log"
                          /\ (r.events = <<>> \/ Last(r.events) # what)
                       THEN [r EXCEPT !.events = Append(@, what)] ELSE r
<1>1. subs' = {Event(r) : r \in subs}  BY DEF Notified
<1>2. ASSUME NEW r \in subs PROVE Event(r).gen = r.gen
  <2>1. DOMAIN r = SubFields  BY DEF LInv, SubsInv, SubInv, TypedSub
  <2> QED  BY <2>1 DEF SubFields
<1>3. PICK r \in subs : q = Event(r)  BY <1>1
<1>4. q.gen = r.gen  BY <1>2, <1>3
<1>5. TypedSub(r) /\ DOMAIN r = SubFields /\ r.events \in Seq({"write", "create"})
  BY DEF LInv, SubsInv, SubInv, TypedSub
<1>6. ASSUME r.at \in {"emit", "select"} /\ r.kind = "log"
             /\ (r.events = <<>> \/ Last(r.events) # what)
      PROVE  WithEvent(r, q, what)
  <2>1. q = [r EXCEPT !.events = Append(@, what)]  BY <1>3, <1>6
  <2>2. SameBut(r, q, {"events"}) /\ q.events = Append(r.events, what)
    BY <2>1, <1>5 DEF SameBut, SubFields
  <2> DEFINE e == r.events
             a == Append(e, what)
  <2>3. a \in Seq({"write", "create"}) /\ a # <<>> /\ a[Len(a)] = what
    BY <1>5, Appended
  <2>4. q.events \in Seq({"write", "create"}) /\ q.events # <<>> /\ q.events[Len(q.events)] = what
    BY <2>2, <2>3
  <2>5. /\ q.kind = r.kind /\ q.live = r.live /\ q.ch = r.ch /\ q.at = r.at
        /\ q.file = r.file /\ q.off = r.off /\ q.prev = r.prev /\ q.out = r.out
    BY <2>2, SameFields
  <2>6. TypedSub(q)
    BY <1>4, <1>5, <1>6, <2>2, <2>4, <2>5 DEF TypedSub, SameBut, Opening, Reading, Polling
  <2> QED  BY <1>5, <2>2, <2>4, <2>6 DEF WithEvent
<1>7. ASSUME ~ (r.at \in {"emit", "select"} /\ r.kind = "log"
                /\ (r.events = <<>> \/ Last(r.events) # what))
      PROVE  WithEvent(r, q, what)
  <2>1. q = r  BY <1>3, <1>7
  <2>2. r.at \in Reading => q.events # <<>> /\ q.events[Len(q.events)] = what
    BY <2>1, <1>5, <1>7 DEF TypedSub, Reading, Last
  <2> QED  BY <2>1, <2>2, <1>5 DEF WithEvent, SameBut
<1>8. ASSUME NEW p \in subs', p.gen = q.gen PROVE p = q
  <2>1. PICK u \in subs : p = Event(u)  BY <1>1
  <2>2. u.gen = r.gen  BY <2>1, <1>2, <1>4, <1>8
  <2>3. u = r  BY <2>2 DEF LInv, PageInv
  <2> QED  BY <2>1, <2>3, <1>3
<1> QED  BY <1>4, <1>6, <1>7, <1>8

(* An event was added, or was there already.                               *)
LEMMA Creations ==
  ASSUME NEW r, NEW q, NEW what \in {"write", "create"}, WithEvent(r, q, what),
         EventsInv(r), r.at \in Reading
  PROVE  /\ CreatePending(q) <=> CreatePending(r) \/ what = "create"
         /\ what = "write" \/ ~CreatePending(r) =>
              \A i, k \in DOMAIN q.events :
                q.events[i] = "create" /\ q.events[k] = "create" => i = k
<1> DEFINE e == r.events
           d == q.events
           m == Len(e)
<1>1. e \in Seq({"write", "create"}) /\ DOMAIN e = 1 .. m /\ m \in Nat
      /\ (d = e \/ d = Append(e, what)) /\ d # <<>> /\ d[Len(d)] = what
  BY LenProperties DEF WithEvent
<1>2. \A i, k \in DOMAIN e : e[i] = "create" /\ e[k] = "create" => i = k
  BY DEF EventsInv
<1>3. (CreatePending(q) <=> \E i \in DOMAIN d : d[i] = "create")
      /\ (CreatePending(r) <=> \E i \in DOMAIN e : e[i] = "create")
  BY DEF CreatePending
<1> HIDE DEF e, d, m
<1>4. CASE d = e
  <2>1. Len(d) \in DOMAIN d
    <3>1. d \in Seq({"write", "create"})  BY <1>1, <1>4
    <3> QED  BY <3>1, <1>1, EmptySeq, LenProperties
  <2> QED  BY <2>1, <1>1, <1>2, <1>3, <1>4 DEF d
<1>5. CASE d = Append(e, what)
  <2>1. /\ DOMAIN d = 1 .. m + 1 /\ \A i \in 1 .. m : d[i] = e[i]
        /\ d[m + 1] = what
    BY <1>1, <1>5, Appended DEF m
  <2>2. \A i \in 1 .. m : i \in 1 .. m + 1 /\ i # m + 1  BY <1>1
  <2>3. \A i \in 1 .. m + 1 : i # m + 1 => i \in 1 .. m  BY <1>1
  <2>4. m + 1 \in 1 .. m + 1  BY <1>1
  <2>5. CreatePending(q) <=> CreatePending(r) \/ what = "create"
    BY <2>1, <2>2, <2>3, <2>4, <1>1, <1>3, Zenon
  <2>6. ASSUME what = "write" \/ ~CreatePending(r),
               NEW i \in 1 .. m + 1, NEW k \in 1 .. m + 1, d[i] = "create", d[k] = "create"
        PROVE  i = k
    <3>1. CASE what = "write"
      <4>1. i # m + 1 /\ k # m + 1  BY <3>1, <2>1, <2>6
      <4>2. i \in DOMAIN e /\ k \in DOMAIN e /\ e[i] = "create" /\ e[k] = "create"
        BY <4>1, <2>1, <2>3, <2>6, <1>1
      <4> QED  BY <4>2, <1>2
    <3>2. CASE ~CreatePending(r)
      <4>1. i = m + 1 /\ k = m + 1  BY <3>2, <2>1, <2>3, <2>6, <1>1, <1>3
      <4> QED  BY <4>1
    <3> QED  BY <3>1, <3>2, <2>6
  <2> QED  BY <2>1, <2>5, <2>6 DEF d
<1> QED  BY <1>1, <1>4, <1>5

(* A step of the host concerns the page only through the files.            *)
LEMMA HostEvent ==
  ASSUME LInv, NEW what \in {"write", "create"}, Notified(what), HostInv',
         UNCHANGED <<journal, target, lines, gen, open>>,
         DOMAIN files \subseteq DOMAIN files',
         \A r \in subs : r.gen = gen /\ r.at = "watch" => Len(files') = Len(files),
         \A r \in subs, q \in subs' :
           WithEvent(r, q, what) /\ r.gen = gen /\ r.at \in Reading /\ TailInv(r)
             => TailInv(q)'
  PROVE  LInv'
<1>1. PageInv'
  <2>1. target = "none" => subs' = {}  BY DEF LInv, PageInv, Notified
  <2>2. \A p, q \in subs' : p.gen = q.gen => p = q  BY NotifiedAre
  <2> QED  BY <2>1, <2>2 DEF LInv, PageInv, Rises, FromOne
<1>2. SubsInv'
  <2> SUFFICES ASSUME NEW q \in subs' PROVE SubInv(q)'
    BY DEF SubsInv
  <2>1. PICK r \in subs : q.gen = r.gen /\ WithEvent(r, q, what)  BY NotifiedAre
  <2>2. TypedSub(q) /\ SameBut(r, q, {"events"})  BY <2>1 DEF WithEvent
  <2>3. gen \in Nat /\ gen' >= gen /\ gen' \in Nat /\ journal \in Nat /\ journal' \in Nat /\ journal' >= journal
    BY DEF LInv, PageInv, HostInv, HostTypes
  <2>4. TypedSub(q)'  BY <2>2, <2>3, TypeStays
  <2>5. ASSUME q.gen = gen' PROVE CurrentInv(q)'
    <3>1. CurrentInv(r) /\ r.gen = gen  BY <2>1, <2>5 DEF LInv, SubsInv, SubInv
    <3>2. /\ q.kind = r.kind /\ q.live = r.live /\ q.ch = r.ch /\ q.at = r.at
          /\ q.file = r.file /\ q.off = r.off /\ q.prev = r.prev /\ q.out = r.out
      BY <2>2, SameFields
    <3>3. q.at \in Reading => TailInv(q)'  BY <2>1, <3>1, <3>2 DEF CurrentInv
    <3>4. q.at \in Polling => PollInv(q)'  BY <3>1, <3>2 DEF CurrentInv, PollInv, Sent
    <3>5. q.at = "watch" => q.file = Len(files')  BY <3>1, <3>2 DEF CurrentInv
    <3>6. Rises(q.ch)' /\ FromOne(q.ch)'  BY <3>1, <3>2 DEF CurrentInv, Rises, FromOne
    <3> QED  BY <3>1, <3>2, <3>3, <3>4, <3>5, <3>6 DEF CurrentInv
  <2> QED  BY <2>4, <2>5 DEF SubInv
<1> QED  BY <1>1, <1>2 DEF LInv

(* A line is added to the last file.                                       *)
LEMMA FileGrows ==
  ASSUME HostInv, files' = [files EXCEPT ![Len(files)] = Append(@, written + 1)],
         written' = written + 1, UNCHANGED journal
  PROVE  /\ HostInv' /\ Len(files') = Len(files) /\ DOMAIN files' = DOMAIN files
         /\ \A f \in DOMAIN files : f # Len(files) => files'[f] = files[f]
         /\ DOMAIN files'[Len(files)] = 1 .. Len(files[Len(files)]) + 1
         /\ Len(files'[Len(files)]) = Len(files[Len(files)]) + 1
         /\ \A k \in 1 .. Len(files[Len(files)]) : files'[Len(files)][k] = files[Len(files)][k]
         /\ files'[Len(files)][Len(files[Len(files)]) + 1] = written + 1
<1> DEFINE L == Len(files)
           old == files[L]
           new == Append(old, written + 1)
           m == Len(old)
<1>1. /\ L \in Nat /\ DOMAIN files = 1 .. L /\ L \in DOMAIN files
      /\ \A f \in DOMAIN files : files[f] \in Seq(Nat) /\ Len(files[f]) \in Nat
                                 /\ DOMAIN files[f] = 1 .. Len(files[f])
  BY FilesAre DEF HostInv
<1>2. written \in Nat /\ written + 1 \in Nat  BY DEF HostInv, HostTypes
<1>3. /\ new \in Seq(Nat) /\ Len(new) = m + 1 /\ DOMAIN new = 1 .. m + 1
      /\ \A k \in 1 .. m : new[k] = old[k]
      /\ new[m + 1] = written + 1
  BY <1>1, <1>2, Appended
<1>4. files \in Seq(Seq(Nat))  BY DEF HostInv, HostTypes
<1>a. old = files[L] /\ m = Len(old)  OBVIOUS
<1> HIDE DEF new, old, m
<1>5. files' = [files EXCEPT ![L] = new]  BY DEF new, old
<1>6. /\ files' \in Seq(Seq(Nat)) /\ Len(files') = L
      /\ \A j \in 1 .. L : files'[j] = IF j = L THEN new ELSE files[j]
  <2> DEFINE S == Seq(Nat)
             fs == [files EXCEPT ![L] = new]
  <2>1. files \in Seq(S) /\ L \in 1 .. Len(files) /\ new \in S  BY <1>1, <1>3, <1>4
  <2>2. /\ fs \in Seq(S) /\ Len(fs) = Len(files)
        /\ \A j \in 1 .. Len(files) : fs[j] = IF j = L THEN new ELSE files[j]
    <3> HIDE DEF S, L
    <3> QED  BY <2>1, ExceptSeq
  <2> HIDE DEF S
  <2>3. files' = fs  BY <1>5
  <2> HIDE DEF fs
  <2> QED  BY <2>2, <2>3 DEF S
<1>7. DOMAIN files' = 1 .. L  BY <1>6, LenProperties
<1>8. files'[L] = new  BY <1>1, <1>6
<1>9. \A f \in DOMAIN files : f # L => files'[f] = files[f]  BY <1>1, <1>6
<1> HIDE DEF L
<1>10. m \in Nat /\ DOMAIN old = 1 .. m  BY <1>1, <1>a
<1>11. \A f \in DOMAIN files : \A k \in DOMAIN files[f] : files[f][k] <= written /\ files[f][k] \in Nat
  BY <1>1, ElementOfSeq DEF HostInv
<1>12. \A k \in 1 .. m + 1 : k # m + 1 => k \in 1 .. m  BY <1>10
<1>13. \A k \in 1 .. m : new[k] <= written /\ new[k] \in Nat
  BY <1>1, <1>3, <1>10, <1>11, <1>a
<1>14. \A f \in DOMAIN files' : \A k \in DOMAIN files'[f] : files'[f][k] <= written + 1
  <2> SUFFICES ASSUME NEW f \in DOMAIN files', NEW k \in DOMAIN files'[f]
               PROVE  files'[f][k] <= written + 1
    OBVIOUS
  <2>1. CASE f = L
    <3>1. k \in 1 .. m + 1  BY <2>1, <1>3, <1>8
    <3>2. CASE k = m + 1  BY <2>1, <3>2, <1>2, <1>3, <1>8
    <3>3. CASE k # m + 1
      <4>1. new[k] <= written /\ new[k] \in Nat  BY <3>1, <3>3, <1>12, <1>13
      <4>2. new[k] <= written + 1  BY <4>1, <1>2
      <4> QED  BY <4>2, <2>1, <1>8
    <3> QED  BY <3>2, <3>3
  <2>2. CASE f # L
    <3>1. f \in DOMAIN files /\ files'[f] = files[f]  BY <2>2, <1>1, <1>7, <1>9
    <3>2. files[f][k] <= written /\ files[f][k] \in Nat  BY <3>1, <1>11
    <3>3. files[f][k] <= written + 1  BY <3>2, <1>2
    <3> QED  BY <3>1, <3>3
  <2> QED  BY <2>1, <2>2
<1>15. \A f \in DOMAIN files' : \A j, k \in DOMAIN files'[f] : j < k => files'[f][j] < files'[f][k]
  <2> SUFFICES ASSUME NEW f \in DOMAIN files', NEW j \in DOMAIN files'[f],
                      NEW k \in DOMAIN files'[f], j < k
               PROVE  files'[f][j] < files'[f][k]
    OBVIOUS
  <2>1. CASE f = L
    <3>1. j \in 1 .. m + 1 /\ k \in 1 .. m + 1  BY <2>1, <1>3, <1>8
    <3>2. j \in 1 .. m  BY <3>1, <1>10
    <3>3. CASE k = m + 1
      <4>1. new[j] <= written /\ new[j] \in Nat  BY <3>2, <1>13
      <4>2. new[j] < written + 1  BY <4>1, <1>2
      <4> QED  BY <4>2, <2>1, <3>3, <1>3, <1>8
    <3>4. CASE k # m + 1
      <4>1. k \in 1 .. m  BY <3>1, <3>4, <1>12
      <4>2. old[j] < old[k]  BY <4>1, <3>2, <1>1, <1>10, <1>a DEF HostInv
      <4> QED  BY <4>1, <4>2, <2>1, <3>2, <1>3, <1>8
    <3> QED  BY <3>3, <3>4
  <2>2. CASE f # L
    <3>1. f \in DOMAIN files /\ files'[f] = files[f]  BY <2>2, <1>1, <1>7, <1>9
    <3> QED  BY <3>1 DEF HostInv
  <2> QED  BY <2>1, <2>2
<1>16. \A f, g \in DOMAIN files' : f < g =>
         \A j \in DOMAIN files'[f], k \in DOMAIN files'[g] : files'[f][j] < files'[g][k]
  <2> SUFFICES ASSUME NEW f \in DOMAIN files', NEW g \in DOMAIN files', f < g,
                      NEW j \in DOMAIN files'[f], NEW k \in DOMAIN files'[g]
               PROVE  files'[f][j] < files'[g][k]
    OBVIOUS
  <2>1. f # L /\ f \in DOMAIN files /\ g \in DOMAIN files /\ files'[f] = files[f]
    BY <1>1, <1>7, <1>9
  <2>2. files[f][j] <= written /\ files[f][j] \in Nat  BY <2>1, <1>11
  <2>3. CASE g = L
    <3>1. k \in 1 .. m + 1  BY <2>3, <1>3, <1>8
    <3>2. CASE k = m + 1
      <4>1. files[f][j] < written + 1  BY <2>2, <1>2
      <4> QED  BY <4>1, <2>1, <2>3, <3>2, <1>3, <1>8
    <3>3. CASE k # m + 1
      <4>1. k \in 1 .. m  BY <3>1, <3>3, <1>12
      <4>2. files[f][j] < old[k]  BY <4>1, <2>1, <2>3, <1>10, <1>a DEF HostInv
      <4> QED  BY <4>1, <4>2, <2>1, <2>3, <1>3, <1>8
    <3> QED  BY <3>2, <3>3
  <2>4. CASE g # L
    <3>1. files'[g] = files[g]  BY <2>1, <2>4, <1>9
    <3> QED  BY <3>1, <2>1 DEF HostInv
  <2> QED  BY <2>3, <2>4
<1>17. HostInv'
  <2>1. files' # <<>>  BY <1>1, <1>7
  <2>2. HostTypes'  BY <2>1, <1>2, <1>6 DEF HostInv, HostTypes
  <2> QED  BY <2>2, <1>14, <1>15, <1>16 DEF HostInv
<1> QED  BY <1>1, <1>3, <1>6, <1>7, <1>8, <1>9, <1>17, <1>a DEF L

LEMMA Append1Keeps ==
  ASSUME LInv, Append1
  PROVE  LInv'
<1> DEFINE L == Len(files)
<1>1. /\ Noticed /\ written' = written + 1 /\ Notified("write")
      /\ files' = [files EXCEPT ![Len(files)] = Append(@, written + 1)]
      /\ UNCHANGED <<journal, target, lines, gen, open>>
  BY DEF Append1, bodyVars
<1>2. HostInv /\ HostTypes  BY DEF LInv, HostInv
<1>3. /\ HostInv' /\ Len(files') = L /\ DOMAIN files' = DOMAIN files
      /\ \A f \in DOMAIN files : f # L => files'[f] = files[f]
      /\ DOMAIN files'[L] = 1 .. Len(files[L]) + 1
      /\ Len(files'[L]) = Len(files[L]) + 1
      /\ \A k \in 1 .. Len(files[L]) : files'[L][k] = files[L][k]
      /\ files'[L][Len(files[L]) + 1] = written + 1
  BY <1>1, <1>2, FileGrows
<1>4. /\ L \in Nat /\ DOMAIN files = 1 .. L /\ L \in DOMAIN files
      /\ \A f \in DOMAIN files : Len(files[f]) \in Nat /\ DOMAIN files[f] = 1 .. Len(files[f])
  BY <1>2, FilesAre
<1> HIDE DEF L
<1>5. ASSUME NEW r \in subs, NEW q \in subs', WithEvent(r, q, "write"), r.gen = gen,
             r.at \in Reading, TailInv(r)
      PROVE  TailInv(q)'
  <2>1. TypedSub(q) /\ SameBut(r, q, {"events"}) /\ q.events # <<>>  BY <1>5 DEF WithEvent
  <2>2. /\ q.gen = r.gen /\ q.live = r.live /\ q.ch = r.ch /\ q.at = r.at
        /\ q.file = r.file /\ q.off = r.off
    BY <2>1, SameFields
  <2>3. /\ r.file \in DOMAIN files /\ r.off \in Nat /\ TypedSub(r) /\ r.off <= Size(r)
        /\ Size(r) \in Nat /\ Size(r) = Len(files[r.file])
    BY <1>1, <1>4, <1>5 DEF LInv, SubsInv, SubInv, TypedSub, Noticed, Reading, Size
  <2>4. Sent(q)' = Sent(r)  BY <1>1, <2>2 DEF Sent
  <2>5. SentBefore(q)'
    <3> SUFFICES ASSUME NEW x \in Sent(r)
                 PROVE  x.n <= written' /\ \A n : Unread(q, n)' => x.n < n
      BY <2>4 DEF SentBefore
    <3>1. x.n \in Nat /\ x.n <= written /\ \A n : Unread(r, n) => x.n < n
      BY <1>5, <2>3, SentIsLine DEF TailInv, SentBefore
    <3>2. x.n < written + 1 /\ x.n <= written'  BY <3>1, <1>1, <1>2 DEF HostTypes
    <3>3. ASSUME NEW n, Unread(q, n)' PROVE Unread(r, n) \/ n = written + 1
      <4>1. CASE \E k \in DOMAIN files'[r.file] : k > r.off /\ n = files'[r.file][k]
        <5>1. PICK k \in DOMAIN files'[r.file] : k > r.off /\ n = files'[r.file][k]
          BY <4>1
        <5>2. CASE r.file = L
          <6>1. CASE k = Len(files[L]) + 1  BY <5>1, <5>2, <6>1, <1>3
          <6>2. CASE k # Len(files[L]) + 1
            <7>1. k \in 1 .. Len(files[L])  BY <5>1, <5>2, <6>2, <1>3, <1>4
            <7> QED  BY <5>1, <5>2, <7>1, <1>3, <1>4 DEF Unread
          <6> QED  BY <6>1, <6>2
        <5>3. CASE r.file # L  BY <5>1, <5>3, <2>3, <1>3 DEF Unread
        <5> QED  BY <5>2, <5>3
      <4>2. CASE \E g \in DOMAIN files' : g > r.file /\ \E k \in DOMAIN files'[g] : n = files'[g][k]
        <5>1. PICK g \in DOMAIN files' : g > r.file /\ \E k \in DOMAIN files'[g] : n = files'[g][k]
          BY <4>2
        <5>2. PICK k \in DOMAIN files'[g] : n = files'[g][k]  BY <5>1
        <5>3. CASE g = L
          <6>1. CASE k = Len(files[L]) + 1  BY <5>2, <5>3, <6>1, <1>3
          <6>2. CASE k # Len(files[L]) + 1
            <7>1. k \in 1 .. Len(files[L])  BY <5>2, <5>3, <6>2, <1>3, <1>4
            <7>2. n = files[L][k] /\ k \in DOMAIN files[L] /\ L > r.file
              BY <5>1, <5>2, <5>3, <7>1, <1>3, <1>4
            <7> QED  BY <7>2, <1>4 DEF Unread
          <6> QED  BY <6>1, <6>2
        <5>4. CASE g # L
          <6>1. g \in DOMAIN files /\ files'[g] = files[g]  BY <5>1, <5>4, <1>3
          <6> QED  BY <5>1, <5>2, <6>1 DEF Unread
        <5> QED  BY <5>3, <5>4
      <4> QED  BY <3>3, <4>1, <4>2, <2>2 DEF Unread
    <3> QED  BY <3>1, <3>2, <3>3
  <2>6. EventsInv(q)'
    <3>1. CreatePending(q) <=> CreatePending(r)  BY <1>5, Creations DEF TailInv
    <3>2. \A i, k \in DOMAIN q.events :
            q.events[i] = "create" /\ q.events[k] = "create" => i = k
      BY <1>5, Creations DEF TailInv
    <3>3. CreatePending(r) <=> r.file # L  BY <1>5 DEF TailInv, EventsInv, L
    <3> QED  BY <3>1, <3>2, <3>3, <2>2, <1>3 DEF EventsInv, CreatePending
  <2>7. PlaceInv(q)'
    <3>1. Size(q)' = Len(files'[r.file])  BY <2>2 DEF Size
    <3>2. CASE r.file = L
      <4>1. Size(q)' = Size(r) + 1  BY <3>1, <3>2, <2>3, <1>3
      <4>2. ~ q.off > Size(q)' /\ q.off # Size(q)'  BY <4>1, <2>2, <2>3
      <4> QED  BY <4>2, <2>1 DEF PlaceInv
    <3>3. CASE r.file # L
      <4>1. files'[r.file] = files[r.file]  BY <3>3, <2>3, <1>3
      <4>2. Size(q)' = Size(r)  BY <4>1, <3>1, <2>3
      <4>3. \A n : LastSentIs(q, n)' <=> LastSentIs(r, n)  BY <2>2, <1>1 DEF LastSentIs
      <4>4. ~ q.off > Size(q)'  BY <4>2, <2>2, <2>3
      <4> QED  BY <4>1, <4>2, <4>3, <4>4, <1>5, <2>1, <2>2 DEF PlaceInv, TailInv
    <3> QED  BY <3>2, <3>3
  <2> QED  BY <2>5, <2>6, <2>7 DEF TailInv
<1> QED  BY <1>1, <1>3, <1>5, HostEvent DEF L

(* The files that there are become empty, or are as they were, and those   *)
(* that are new are empty.                                                 *)
LEMMA FilesShrink ==
  ASSUME HostInv, files' \in Seq(Seq(Nat)), UNCHANGED <<written, journal>>,
         DOMAIN files \subseteq DOMAIN files',
         \A f \in DOMAIN files' : \/ f \in DOMAIN files /\ files'[f] = files[f]
                                  \/ DOMAIN files'[f] = {}
  PROVE  HostInv'
<1>1. HostTypes'
  <2>1. DOMAIN files' # {}
    <3>1. DOMAIN files # {}  BY FilesAre DEF HostInv
    <3> QED  BY <3>1
  <2>2. files' # <<>>  BY <2>1
  <2> QED  BY <2>2 DEF HostInv, HostTypes
<1>2. \A f \in DOMAIN files' : \A k \in DOMAIN files'[f] :
        f \in DOMAIN files /\ files'[f] = files[f]
  OBVIOUS
<1> QED  BY <1>1, <1>2 DEF HostInv

LEMMA TruncateKeeps ==
  ASSUME LInv, Truncate
  PROVE  LInv'
<1> DEFINE L == Len(files)
<1>1. /\ Notified("write") /\ files' = [files EXCEPT ![Len(files)] = <<>>]
      /\ UNCHANGED <<written, journal, target, lines, gen, open>>
  BY DEF Truncate, bodyVars
<1>2. HostInv /\ HostTypes /\ files \in Seq(Seq(Nat))  BY DEF LInv, HostInv, HostTypes
<1>3. /\ L \in Nat /\ DOMAIN files = 1 .. L /\ L \in DOMAIN files
      /\ \A f \in DOMAIN files : Len(files[f]) \in Nat /\ DOMAIN files[f] = 1 .. Len(files[f])
  BY <1>2, FilesAre
<1>4. /\ files' \in Seq(Seq(Nat)) /\ Len(files') = L
      /\ \A j \in 1 .. L : files'[j] = IF j = L THEN <<>> ELSE files[j]
  <2> DEFINE S == Seq(Nat)
             none == <<>>
             fs == [files EXCEPT ![L] = none]
  <2>1. files \in Seq(S) /\ L \in 1 .. Len(files) /\ none \in S
    BY <1>2, <1>3, EmptySeq
  <2>2. /\ fs \in Seq(S) /\ Len(fs) = Len(files)
        /\ \A j \in 1 .. Len(files) : fs[j] = IF j = L THEN none ELSE files[j]
    <3> HIDE DEF S, L, none
    <3> QED  BY <2>1, ExceptSeq
  <2> HIDE DEF S
  <2>3. files' = fs  BY <1>1
  <2> HIDE DEF fs
  <2> QED  BY <2>2, <2>3 DEF S
<1>5. DOMAIN files' = 1 .. L  BY <1>4, LenProperties
<1>6. files'[L] = <<>>  BY <1>3, <1>4
<1>7. \A f \in DOMAIN files : f # L => files'[f] = files[f]  BY <1>3, <1>4
<1>8. DOMAIN files'[L] = {} /\ Len(files'[L]) = 0  BY <1>6, EmptyLine
<1> HIDE DEF L
<1>9. HostInv'
  <2>1. \A f \in DOMAIN files' : \/ f \in DOMAIN files /\ files'[f] = files[f]
                                 \/ DOMAIN files'[f] = {}
    BY <1>3, <1>5, <1>7, <1>8
  <2> QED  BY <2>1, <1>1, <1>2, <1>3, <1>4, <1>5, FilesShrink
<1>10. ASSUME NEW r \in subs, NEW q \in subs', WithEvent(r, q, "write"), r.gen = gen,
              r.at \in Reading, TailInv(r)
       PROVE  TailInv(q)'
  <2>1. TypedSub(q) /\ SameBut(r, q, {"events"}) /\ q.events # <<>>  BY <1>10 DEF WithEvent
  <2>2. /\ q.gen = r.gen /\ q.live = r.live /\ q.ch = r.ch /\ q.at = r.at
        /\ q.file = r.file /\ q.off = r.off
    BY <2>1, SameFields
  <2>3. r.file \in DOMAIN files /\ r.off \in Nat
    BY <1>10 DEF LInv, SubsInv, SubInv, TypedSub, Reading
  <2>4. Sent(q)' = Sent(r)  BY <1>1, <2>2 DEF Sent
  <2>5. \A n : Unread(q, n)' => Unread(r, n)
    <3>1. \A f \in DOMAIN files' : \A k \in DOMAIN files'[f] :
            f \in DOMAIN files /\ files'[f] = files[f]
      BY <1>3, <1>5, <1>7, <1>8
    <3>2. r.file \in DOMAIN files'  BY <2>3, <1>3, <1>5
    <3> QED  BY <3>1, <3>2, <2>2 DEF Unread
  <2>6. SentBefore(q)'  BY <2>4, <2>5, <1>1, <1>10 DEF TailInv, SentBefore
  <2>7. EventsInv(q)'
    <3>1. CreatePending(q) <=> CreatePending(r)  BY <1>10, Creations DEF TailInv
    <3>2. \A i, k \in DOMAIN q.events :
            q.events[i] = "create" /\ q.events[k] = "create" => i = k
      BY <1>10, Creations DEF TailInv
    <3>3. CreatePending(r) <=> r.file # L  BY <1>10 DEF TailInv, EventsInv, L
    <3> QED  BY <3>1, <3>2, <3>3, <2>2, <1>4 DEF EventsInv, CreatePending
  <2>8. PlaceInv(q)'
    <3>1. Size(q)' = Len(files'[r.file])  BY <2>2 DEF Size
    <3>2. CASE r.file = L
      <4>1. Size(q)' = 0  BY <3>1, <3>2, <1>8
      <4>2. ~ (q.off = 0 /\ q.off > 0)  BY <2>2, <2>3
      <4> QED  BY <4>1, <4>2, <2>1 DEF PlaceInv
    <3>3. CASE r.file # L
      <4>1. files'[r.file] = files[r.file]  BY <3>3, <2>3, <1>7
      <4>2. Size(q)' = Size(r)  BY <4>1, <3>1 DEF Size
      <4>3. \A n : LastSentIs(q, n)' <=> LastSentIs(r, n)  BY <2>2, <1>1 DEF LastSentIs
      <4> QED  BY <4>1, <4>2, <4>3, <1>10, <2>1, <2>2 DEF PlaceInv, TailInv
    <3> QED  BY <3>2, <3>3
  <2> QED  BY <2>6, <2>7, <2>8 DEF TailInv
<1> QED  BY <1>1, <1>3, <1>4, <1>5, <1>9, <1>10, HostEvent DEF L

LEMMA RecreateKeeps ==
  ASSUME Calm, LInv, Recreate
  PROVE  LInv'
<1> DEFINE L == Len(files)
<1>1. /\ Settled /\ Notified("create") /\ files' = Append(files, <<>>)
      /\ UNCHANGED <<written, journal, target, lines, gen, open>>
  BY DEF Recreate, bodyVars
<1>2. HostInv /\ HostTypes /\ files \in Seq(Seq(Nat))  BY DEF LInv, HostInv, HostTypes
<1>3. L \in Nat /\ DOMAIN files = 1 .. L /\ L \in DOMAIN files
  BY <1>2, FilesAre
<1>4. /\ files' \in Seq(Seq(Nat)) /\ Len(files') = L + 1 /\ DOMAIN files' = 1 .. L + 1
      /\ \A j \in 1 .. L : files'[j] = files[j]
      /\ files'[L + 1] = <<>>
  <2> DEFINE S == Seq(Nat)
             none == <<>>
             fs == Append(files, none)
  <2>1. files \in Seq(S) /\ none \in S  BY <1>2, EmptySeq
  <2>2. /\ fs \in Seq(S) /\ Len(fs) = L + 1 /\ DOMAIN fs = 1 .. L + 1
        /\ \A j \in 1 .. L : fs[j] = files[j]
        /\ fs[L + 1] = none
    <3> HIDE DEF S, none
    <3> QED  BY <2>1, Appended
  <2> HIDE DEF S
  <2>3. files' = fs  BY <1>1
  <2> HIDE DEF fs
  <2> QED  BY <2>2, <2>3 DEF S
<1>5. DOMAIN files'[L + 1] = {}  BY <1>4, EmptyLine
<1> HIDE DEF L
<1>6. \A f \in DOMAIN files' : f # L + 1 => f \in DOMAIN files  BY <1>3, <1>4
<1>7. DOMAIN files \subseteq DOMAIN files'  BY <1>3, <1>4
<1>8. HostInv'
  <2>1. \A f \in DOMAIN files' : \/ f \in DOMAIN files /\ files'[f] = files[f]
                                 \/ DOMAIN files'[f] = {}
    BY <1>3, <1>4, <1>5, <1>6
  <2> QED  BY <2>1, <1>1, <1>2, <1>4, <1>7, FilesShrink
<1>9. \A r \in subs : r.gen = gen => r.at # "watch" /\ ~CreatePending(r)
  BY <1>1 DEF Settled, ToSet, CreatePending
<1>10. ASSUME NEW r \in subs, NEW q \in subs', WithEvent(r, q, "create"), r.gen = gen,
              r.at \in Reading, TailInv(r)
       PROVE  TailInv(q)'
  <2>1. TypedSub(q) /\ SameBut(r, q, {"events"}) /\ q.events # <<>>  BY <1>10 DEF WithEvent
  <2>2. /\ q.gen = r.gen /\ q.live = r.live /\ q.ch = r.ch /\ q.at = r.at
        /\ q.file = r.file /\ q.off = r.off
    BY <2>1, SameFields
  <2>3. r.file \in DOMAIN files /\ files'[r.file] = files[r.file] /\ r.file \in DOMAIN files'
    BY <1>3, <1>4, <1>7, <1>10 DEF LInv, SubsInv, SubInv, TypedSub, Reading
  <2>4. Sent(q)' = Sent(r)  BY <1>1, <2>2 DEF Sent
  <2>5. \A n : Unread(q, n)' => Unread(r, n)
    <3>1. \A f \in DOMAIN files' : \A k \in DOMAIN files'[f] :
            f \in DOMAIN files /\ files'[f] = files[f]
      BY <1>3, <1>4, <1>5, <1>6
    <3> QED  BY <3>1, <2>2, <2>3 DEF Unread
  <2>6. SentBefore(q)'  BY <2>4, <2>5, <1>1, <1>10 DEF TailInv, SentBefore
  <2>7. EventsInv(q)'
    <3>1. ~CreatePending(r)  BY <1>9, <1>10
    <3>2. CreatePending(q)  BY <1>10, Creations DEF TailInv
    <3>3. \A i, k \in DOMAIN q.events :
            q.events[i] = "create" /\ q.events[k] = "create" => i = k
      BY <3>1, <1>10, Creations DEF TailInv
    <3>4. q.file # Len(files')  BY <2>2, <2>3, <1>3, <1>4
    <3> QED  BY <3>2, <3>3, <3>4 DEF EventsInv, CreatePending
  <2>8. PlaceInv(q)'
    <3>1. Size(q)' = Size(r)  BY <2>2, <2>3 DEF Size
    <3>2. \A n : LastSentIs(q, n)' <=> LastSentIs(r, n)  BY <2>2, <1>1 DEF LastSentIs
    <3> QED  BY <3>1, <3>2, <1>10, <2>1, <2>2, <2>3 DEF PlaceInv, TailInv
  <2> QED  BY <2>6, <2>7, <2>8 DEF TailInv
<1> QED  BY <1>1, <1>7, <1>8, <1>9, <1>10, HostEvent

LEMMA UnitWritesKeeps ==
  ASSUME LInv, UnitWrites
  PROVE  LInv'
<1>1. /\ journal' = journal + 1 /\ UNCHANGED <<files, written, subs, target, lines, gen, open>>
  BY DEF UnitWrites, bodyVars
<1>2. journal \in Nat /\ journal' \in Nat /\ journal' >= journal
  BY <1>1 DEF LInv, HostInv, HostTypes
<1>3. HostInv'  BY <1>1, <1>2 DEF LInv, HostInv, HostTypes
<1>4. PageInv'  BY <1>1 DEF LInv, PageInv, Rises, FromOne
<1>5. SubsInv'
  <2> SUFFICES ASSUME NEW r \in subs PROVE SubInv(r)'
    BY <1>1 DEF SubsInv
  <2>1. SubInv(r)  BY DEF LInv, SubsInv
  <2>2. TypedSub(r)'
    <3>1. gen \in Nat /\ gen' \in Nat /\ gen' >= gen  BY <1>1 DEF LInv, PageInv
    <3> QED  BY <3>1, <2>1, <1>1, <1>2, TypeStays DEF SubInv
  <2>3. ASSUME r.gen = gen PROVE CurrentInv(r)'
    <3>1. CurrentInv(r)  BY <2>1, <2>3 DEF SubInv
    <3>2. r.at \in Reading => TailInv(r)'
      <4> SUFFICES ASSUME TailInv(r) PROVE TailInv(r)'
        BY <3>1 DEF CurrentInv
      <4>1. SentBefore(r)'  BY <1>1 DEF TailInv, SentBefore, Sent, Unread
      <4>2. EventsInv(r)'  BY <1>1 DEF TailInv, EventsInv, CreatePending
      <4>3. PlaceInv(r)'  BY <1>1 DEF TailInv, PlaceInv, Size, LastSentIs
      <4> QED  BY <4>1, <4>2, <4>3 DEF TailInv
    <3>3. r.at \in Polling => PollInv(r)'  BY <3>1, <1>1 DEF CurrentInv, PollInv, Sent
    <3>4. Rises(r.ch)' /\ FromOne(r.ch)'  BY <3>1, <1>1 DEF CurrentInv, Rises, FromOne
    <3> QED  BY <1>1, <3>1, <3>2, <3>3, <3>4 DEF CurrentInv
  <2> QED  BY <2>2, <2>3, <1>1 DEF SubInv
<1> QED  BY <1>3, <1>4, <1>5 DEF LInv

-----------------------------------------------------------------------------
LEMMA InitHolds == Init => LInv
<1> SUFFICES ASSUME Init PROVE LInv
  OBVIOUS
<1>1. DOMAIN files = {1} /\ DOMAIN files[1] = {} /\ DOMAIN lines = {}
  BY DEF Init
<1>2. files \in Seq(Seq(Nat)) /\ files # <<>>
  <2>1. <<>> \in Seq(Nat)  BY EmptySeq
  <2>2. files = [i \in 1 .. 1 |-> <<>>]  BY DEF Init
  <2>3. files \in Seq(Seq(Nat))
    <3> DEFINE S == Seq(Nat)
    <3>1. <<>> \in S  BY <2>1
    <3> HIDE DEF S
    <3>2. files \in [1 .. 1 -> S]  BY <3>1, <2>2
    <3>3. files \in Seq(S)  BY <3>2, SeqDef
    <3> QED  BY <3>3 DEF S
  <2> QED  BY <2>3, <1>1
<1>3. HostInv  BY <1>1, <1>2 DEF HostInv, HostTypes, Init
<1>4. PageInv
  <2>1. lines \in Seq(Line) /\ Len(lines) = 0  BY EmptyLine DEF Init
  <2>2. MaxShown \in Nat  BY LogTabAssumption
  <2> QED  BY <1>1, <2>1, <2>2 DEF PageInv, Rises, FromOne, Init
<1>5. SubsInv  BY DEF SubsInv, Init
<1> QED  BY <1>3, <1>4, <1>5 DEF LInv

LEMMA NextKeeps ==
  ASSUME Calm, LInv, [Next]_vars
  PROVE  LInv'
<1>1. CASE PageStep  BY <1>1, PageStepKeeps
<1>2. CASE OnFiles  BY <1>2, OnFilesKeeps
<1>3. CASE HostStep
  BY <1>3, WatchFailsKeeps, Append1Keeps, TruncateKeeps, RecreateKeeps, UnitWritesKeeps
  DEF HostStep
<1>4. ASSUME NEW g \in 1 .. MaxGen, Arrives(g) PROVE LInv'
  BY <1>4, OnLinesKeeps, OnEndKeeps DEF Arrives
<1>5. ASSUME NEW g \in 1 .. MaxGen, SubStep(g) PROVE LInv'
  BY <1>5, TailOpensKeeps, TailEmitsKeeps, TailSelectsKeeps, JournalReadsKeeps,
     JournalSendsKeeps
  DEF SubStep, TailStep, JournalStep
<1>6. CASE UNCHANGED vars  BY <1>6, NothingChanges DEF vars, bodyVars
<1> QED  BY <1>1, <1>2, <1>3, <1>4, <1>5, <1>6 DEF Next

-----------------------------------------------------------------------------
(* What is shown of the lines.                                             *)

(* A set of numbers that is not empty has a least one: the intervals up to *)
(* its members are ordered as they are.                                    *)
LEMMA LeastNumber ==
  ASSUME NEW S, S \subseteq Nat, S # {}
  PROVE  \E x \in S : \A y \in S : x <= y
<1>1. PICK m \in S : TRUE
  OBVIOUS
<1> DEFINE I == 1 .. m
           L == {s \in S : s <= m}
           T == {1 .. x : x \in L}
           R == StrictSubsetOrdering(I)
<1>2. IsWellFoundedOn(R, SUBSET I)
  <2>1. IsFiniteSet(I)
    BY FS_Interval
  <2>2. FiniteSubsetsOf(I) = SUBSET I
    BY <2>1, FS_FiniteSubsetsOfFinite
  <2> QED  BY <2>2, FS_StrictSubsetOrderingWellFounded
<1>3. T \subseteq SUBSET I /\ T # {}
  BY <1>1
<1>4. \A A, B \in SUBSET I : A \subseteq B /\ A # B => <<A, B>> \in R
  BY DEF StrictSubsetOrdering
<1> HIDE DEF R, T
<1>5. PICK A \in T : \A B \in T : ~ (<<B, A>> \in R)
  BY <1>2, <1>3, WFMin
<1>6. PICK x \in L : A = 1 .. x
  BY <1>5 DEF T
<1>7. ASSUME NEW y \in S  PROVE  x <= y
  <2>1. SUFFICES ASSUME y < x  PROVE FALSE
    BY <1>6
  <2>2. y \in L /\ 1 .. y \in T
    BY <1>1, <1>6, <2>1 DEF T
  <2>3. 1 .. y \subseteq 1 .. x /\ 1 .. y # 1 .. x
    BY <1>6, <2>1
  <2> QED
    BY <1>3, <1>4, <1>5, <1>6, <2>2, <2>3
<1> QED
  BY <1>6, <1>7

(* Of what holds of 0 and of a number's successor, no number is the first  *)
(* to be an exception.                                                     *)
LEMMA NoFirstException ==
  ASSUME NEW n \in Nat, NEW B, B \subseteq 0 .. n, 0 \notin B,
         \A k \in 0 .. n : k # 0 /\ k - 1 \notin B => k \notin B
  PROVE  B = {}
<1> SUFFICES ASSUME B # {} PROVE FALSE
  OBVIOUS
<1>1. PICK k \in B : \A j \in B : k <= j
  <2>1. B \subseteq Nat
    OBVIOUS
  <2> QED  BY <2>1, LeastNumber
<1>2. k \in 0 .. n /\ k # 0
  BY <1>1
<1>3. k - 1 \notin B
  BY <1>1, <1>2
<1> QED  BY <1>1, <1>2, <1>3

(* Of the first lines, those that match, one line more at a time.          *)
Filters(f, q, g, n) ==
  /\ g[0] = <<>>
  /\ \A i \in 1 .. n : g[i] = IF Matches(f, q[i]) THEN Append(g[i - 1], q[i]) ELSE g[i - 1]

LEMMA FiltersExist ==
  ASSUME NEW f, NEW q, NEW l \in Nat
  PROVE  \E g : Filters(f, q, g, l)
<1> DEFINE B == {k \in 0 .. l : ~ \E g : Filters(f, q, g, k)}
<1>1. 0 \notin B
  <2> DEFINE g == [i \in {0} |-> <<>>]
  <2>1. Filters(f, q, g, 0)
    BY DEF Filters
  <2> QED  BY <2>1
<1>2. ASSUME NEW k \in 0 .. l, k # 0, k - 1 \notin B PROVE k \notin B
  <2>1. PICK g : Filters(f, q, g, k - 1)
    BY <1>2
  <2> DEFINE h == [i \in 0 .. k |->
                     IF i = k THEN IF Matches(f, q[k]) THEN Append(g[k - 1], q[k]) ELSE g[k - 1]
                     ELSE g[i]]
  <2>2. Filters(f, q, h, k)
    <3>1. h[0] = <<>> /\ h[k - 1] = g[k - 1]
          /\ h[k] = IF Matches(f, q[k]) THEN Append(g[k - 1], q[k]) ELSE g[k - 1]
      BY <1>2, <2>1 DEF Filters
    <3>2. ASSUME NEW i \in 1 .. k - 1
          PROVE  h[i] = IF Matches(f, q[i]) THEN Append(h[i - 1], q[i]) ELSE h[i - 1]
      <4>1. h[i] = g[i] /\ h[i - 1] = g[i - 1]
        BY <1>2
      <4> QED  BY <2>1, <4>1 DEF Filters
    <3> HIDE DEF h
    <3> QED  BY <1>2, <3>1, <3>2 DEF Filters
  <2> QED  BY <1>2, <2>2
<1> HIDE DEF B
<1>3. B = {}
  <2>1. B \subseteq 0 .. l
    BY DEF B
  <2> QED  BY <1>1, <1>2, <2>1, NoFirstException
<1>4. l \notin B
  BY <1>3
<1> QED  BY <1>4 DEF B

LEMMA StyledFilters ==
  ASSUME NEW f, NEW q, Len(q) \in Nat
  PROVE  \E g : Filters(f, q, g, Len(q)) /\ Styled(f, q) = g[Len(q)]
<1>1. PICK g : Filters(f, q, g, Len(q))
  BY FiltersExist
<1> DEFINE Def(u) == [k \in 0 .. Len(q) |->
                        IF k = 0 THEN <<>>
                        ELSE IF Matches(f, q[k]) THEN Append(u[k - 1], q[k]) ELSE u[k - 1]]
           h == [k \in 0 .. Len(q) |-> g[k]]
           s == CHOOSE u : u = Def(u)
<1>2. h = Def(h)
  <2>1. ASSUME NEW k \in 0 .. Len(q), k # 0
        PROVE  h[k - 1] = g[k - 1]
               /\ g[k] = IF Matches(f, q[k]) THEN Append(g[k - 1], q[k]) ELSE g[k - 1]
    BY <1>1, <2>1 DEF Filters
  <2>2. g[0] = <<>>
    BY <1>1 DEF Filters
  <2>3. \A k \in 0 .. Len(q) : h[k] = Def(h)[k]
    BY <2>1, <2>2
  <2> QED  BY <2>3
<1>3. Styled(f, q) = s[Len(q)]
  BY DEF Styled
<1> HIDE DEF h
<1>4. s = Def(s)
  <2> HIDE DEF Def
  <2> QED  BY <1>2
<1> HIDE DEF s
<1>5. \A k \in 0 .. Len(q) : s[k] = Def(s)[k]
  BY <1>4
<1>6. Filters(f, q, s, Len(q))
  BY <1>5 DEF Filters
<1> QED  BY <1>3, <1>6

LEMMA FiltersGrow ==
  ASSUME NEW f, NEW n \in Nat, NEW q, NEW g, \A i \in 1 .. n : q[i] \in Line, Filters(f, q, g, n)
  PROVE  /\ \A k \in 0 .. n : g[k] \in Seq(Line) /\ Len(g[k]) \in Nat
         /\ \A j, k \in 0 .. n : j <= k => Len(g[j]) <= Len(g[k])
<1> DEFINE B == {k \in 0 .. n : g[k] \notin Seq(Line)}
<1>1. 0 \notin B
  BY EmptySeq DEF Filters
<1>2. ASSUME NEW k \in 0 .. n, k # 0, k - 1 \notin B PROVE k \notin B
  <2>1. k - 1 \in 0 .. n /\ k \in 1 .. n
    BY <1>2
  <2>2. g[k - 1] \in Seq(Line) /\ q[k] \in Line
    BY <1>2, <2>1
  <2>3. Append(g[k - 1], q[k]) \in Seq(Line)
    BY <2>2, AppendProperties
  <2> QED  BY <2>1, <2>2, <2>3 DEF Filters
<1> HIDE DEF B
<1>3. B = {}
  <2>1. B \subseteq 0 .. n
    BY DEF B
  <2> QED  BY <1>1, <1>2, <2>1, NoFirstException
<1>4. \A k \in 0 .. n : g[k] \in Seq(Line) /\ Len(g[k]) \in Nat
  BY <1>3, LenProperties DEF B
<1>5. ASSUME NEW j \in 0 .. n PROVE \A k \in 0 .. n : j <= k => Len(g[j]) <= Len(g[k])
  <2> DEFINE C == {k \in 0 .. n : j <= k /\ ~(Len(g[j]) <= Len(g[k]))}
  <2>1. 0 \notin C
    BY <1>4
  <2>2. ASSUME NEW k \in 0 .. n, k # 0, k - 1 \notin C PROVE k \notin C
    <3> SUFFICES ASSUME j <= k, j # k PROVE Len(g[j]) <= Len(g[k])
      BY <1>4
    <3>1. k - 1 \in 0 .. n /\ k \in 1 .. n /\ j <= k - 1
      BY <2>2
    <3>2. Len(g[j]) <= Len(g[k - 1])
      BY <2>2, <3>1
    <3>3. g[k] = g[k - 1] \/ g[k] = Append(g[k - 1], q[k])
      BY <3>1 DEF Filters
    <3>4. g[k - 1] \in Seq(Line) /\ q[k] \in Line
      BY <1>4, <3>1
    <3>5. Len(Append(g[k - 1], q[k])) = Len(g[k - 1]) + 1
      BY <3>4, AppendProperties
    <3> QED  BY <1>4, <3>1, <3>2, <3>3, <3>5
  <2> HIDE DEF C
  <2>3. C = {}
    <3>1. C \subseteq 0 .. n
      BY DEF C
    <3> QED  BY <2>1, <2>2, <3>1, NoFirstException
  <2> QED  BY <2>3 DEF C
<1> QED  BY <1>4, <1>5

(* What is left of a sequence without its first k.                         *)
After(q, k) == SubSeq(q, k + 1, Len(q))

LEMMA AfterIs ==
  ASSUME NEW q \in Seq(Line), NEW k \in 0 .. Len(q)
  PROVE  /\ After(q, k) \in Seq(Line) /\ Len(After(q, k)) = Len(q) - k
         /\ \A i \in 1 .. Len(q) - k : After(q, k)[i] = q[k + i]
<1>1. Len(q) \in Nat /\ \A i \in k + 1 .. Len(q) : q[i] \in Line
  BY LenProperties
<1>2. PICK m \in Int : m = k + 1
  BY <1>1
<1>3. /\ SubSeq(q, m, Len(q)) \in Seq(Line)
      /\ Len(SubSeq(q, m, Len(q))) = IF m <= Len(q) THEN Len(q) - m + 1 ELSE 0
      /\ \A i \in 1 .. Len(q) - m + 1 : SubSeq(q, m, Len(q))[i] = q[m + i - 1]
  BY <1>1, <1>2, SubSeqProperties
<1> QED  BY <1>1, <1>2, <1>3 DEF After

LEMMA AfterAll ==
  ASSUME NEW q \in Seq(Line)
  PROVE  After(q, Len(q)) = <<>> /\ After(q, 0) = q
<1>1. Len(q) \in Nat
  BY LenProperties
<1>2. SubSeq(q, Len(q) + 1, Len(q)) = <<>>
  BY <1>1, SubSeqEmpty
<1>3. SubSeq(q, 1, Len(q)) = q
  BY SubSeqFull
<1> QED  BY <1>2, <1>3 DEF After

LEMMA AfterAppend ==
  ASSUME NEW q \in Seq(Line), NEW e \in Line, NEW k \in 0 .. Len(q)
  PROVE  After(Append(q, e), k) = Append(After(q, k), e)
<1>1. PICK r \in Seq(Line) : r = Append(q, e)
  BY AppendProperties
<1>2. Len(q) \in Nat /\ Len(r) = Len(q) + 1 /\ r[Len(q) + 1] = e
      /\ \A i \in 1 .. Len(q) : r[i] = q[i]
  BY <1>1, LenProperties, AppendProperties
<1>3. PICK a : a = After(q, k)
  OBVIOUS
<1>4. a \in Seq(Line) /\ Len(a) = Len(q) - k /\ \A i \in 1 .. Len(q) - k : a[i] = q[k + i]
  BY <1>3, AfterIs
<1>5. PICK b : b = Append(a, e)
  OBVIOUS
<1>6. /\ b \in Seq(Line) /\ Len(b) = Len(a) + 1 /\ b[Len(a) + 1] = e
      /\ \A i \in 1 .. Len(a) : b[i] = a[i]
  BY <1>4, <1>5, AppendProperties
<1>7. PICK c : c = After(r, k)
  OBVIOUS
<1>8. c \in Seq(Line) /\ Len(c) = Len(r) - k /\ \A i \in 1 .. Len(r) - k : c[i] = r[k + i]
  <2>1. k \in 0 .. Len(r)
    BY <1>2
  <2> QED  BY <1>1, <1>7, <2>1, AfterIs
<1>9. Len(b) = Len(c)
  BY <1>2, <1>4, <1>6, <1>8
<1>10. ASSUME NEW i \in 1 .. Len(b) PROVE b[i] = c[i]
  <2>1. CASE i = Len(a) + 1
    <3>1. i \in 1 .. Len(r) - k /\ k + i = Len(q) + 1
      BY <2>1, <1>2, <1>4
    <3> QED  BY <2>1, <3>1, <1>2, <1>6, <1>8
  <2>2. CASE i # Len(a) + 1
    <3>1. i \in 1 .. Len(a) /\ i \in 1 .. Len(q) - k /\ i \in 1 .. Len(r) - k /\ k + i \in 1 .. Len(q)
      BY <2>2, <1>2, <1>4, <1>6
    <3>2. b[i] = a[i] /\ a[i] = q[k + i] /\ c[i] = r[k + i] /\ r[k + i] = q[k + i]
      BY <3>1, <1>2, <1>4, <1>6, <1>8
    <3> QED  BY <3>2
  <2> QED  BY <2>1, <2>2
<1>11. b = c
  BY <1>6, <1>8, <1>9, <1>10, SeqEqual
<1> QED  BY <1>1, <1>3, <1>5, <1>7, <1>11

LEMMA AfterOneMore ==
  ASSUME NEW q \in Seq(Line), NEW k \in 0 .. Len(q), k # Len(q)
  PROVE  After(q, k + 1) = SubSeq(After(q, k), 2, Len(After(q, k)))
<1>1. Len(q) \in Nat /\ k + 1 \in 0 .. Len(q)
  BY LenProperties
<1>2. PICK a : a = After(q, k)
  OBVIOUS
<1>3. a \in Seq(Line) /\ Len(a) = Len(q) - k /\ \A i \in 1 .. Len(q) - k : a[i] = q[k + i]
  BY <1>2, AfterIs
<1>4. PICK b : b = After(a, 1)
  OBVIOUS
<1>5. b \in Seq(Line) /\ Len(b) = Len(a) - 1 /\ \A i \in 1 .. Len(a) - 1 : b[i] = a[1 + i]
  <2>1. 1 \in 0 .. Len(a)
    BY <1>1, <1>3
  <2> QED  BY <1>3, <1>4, <2>1, AfterIs
<1>6. PICK m \in Nat : m = k + 1
  BY <1>1
<1>7. PICK c : c = After(q, m)
  OBVIOUS
<1>8. c \in Seq(Line) /\ Len(c) = Len(q) - m /\ \A i \in 1 .. Len(q) - m : c[i] = q[m + i]
  BY <1>1, <1>6, <1>7, AfterIs
<1>9. Len(b) = Len(c)
  BY <1>1, <1>3, <1>5, <1>6, <1>8
<1>10. ASSUME NEW i \in 1 .. Len(b) PROVE b[i] = c[i]
  <2>1. i \in 1 .. Len(q) - m /\ i \in 1 .. Len(a) - 1 /\ 1 + i \in 1 .. Len(q) - k
        /\ m + i = k + (1 + i)
    BY <1>1, <1>3, <1>5, <1>6
  <2>2. b[i] = a[1 + i] /\ a[1 + i] = q[k + (1 + i)] /\ c[i] = q[m + i]
    BY <2>1, <1>3, <1>5, <1>8
  <2> QED  BY <2>1, <2>2
<1>11. b = c
  BY <1>5, <1>8, <1>9, <1>10, SeqEqual
<1>12. b = SubSeq(a, 2, Len(a))
  BY <1>4 DEF After
<1> QED  BY <1>2, <1>6, <1>7, <1>11, <1>12

(* Of the lines after the first a of the first k, those that match.        *)
Within(g, a, k) == After(g[k], Len(g[a]))

(* It moves on with every line at its end and at its beginning.            *)
Moves(f, n, q, g) ==
  /\ \A a \in 0 .. n : Within(g, a, a) = <<>>
  /\ \A k \in 0 .. n : Within(g, 0, k) = g[k]
  /\ \A a \in 0 .. n, k \in 1 .. n : a < k =>
       Within(g, a, k) = IF Matches(f, q[k]) THEN Append(Within(g, a, k - 1), q[k])
                          ELSE Within(g, a, k - 1)
  /\ \A a, k \in 0 .. n : a < k =>
       Within(g, a + 1, k) =
         IF Matches(f, q[a + 1])
         THEN SubSeq(Within(g, a, k), 2, Len(Within(g, a, k))) ELSE Within(g, a, k)

LEMMA WindowsMove ==
  ASSUME NEW f, NEW n \in Nat, NEW q, NEW g, \A i \in 1 .. n : q[i] \in Line, Filters(f, q, g, n)
  PROVE  Moves(f, n, q, g)
<1>1. /\ \A k \in 0 .. n : g[k] \in Seq(Line) /\ Len(g[k]) \in Nat
      /\ \A j, k \in 0 .. n : j <= k => Len(g[j]) <= Len(g[k])
  BY FiltersGrow
<1>2. g[0] = <<>> /\ Len(g[0]) = 0
  BY EmptySeq DEF Filters
<1>3. ASSUME NEW a \in 0 .. n PROVE Within(g, a, a) = <<>>
  BY <1>1, AfterAll DEF Within
<1>4. ASSUME NEW k \in 0 .. n PROVE Within(g, 0, k) = g[k]
  BY <1>1, <1>2, AfterAll DEF Within
<1>5. ASSUME NEW a \in 0 .. n, NEW k \in 1 .. n, a < k
      PROVE  Within(g, a, k) = IF Matches(f, q[k]) THEN Append(Within(g, a, k - 1), q[k])
                                ELSE Within(g, a, k - 1)
  <2>1. PICK j \in 0 .. n : j = k - 1
    OBVIOUS
  <2>2. PICK l : l = Len(g[a])
    OBVIOUS
  <2>3. g[j] \in Seq(Line) /\ l \in 0 .. Len(g[j]) /\ q[k] \in Line
    BY <1>1, <1>5, <2>1, <2>2
  <2>4. After(Append(g[j], q[k]), l) = Append(After(g[j], l), q[k])
    BY <2>3, AfterAppend
  <2>5. g[k] = IF Matches(f, q[k]) THEN Append(g[j], q[k]) ELSE g[j]
    BY <2>1 DEF Filters
  <2>6. CASE Matches(f, q[k])
    BY <2>1, <2>2, <2>4, <2>5, <2>6 DEF Within
  <2>7. CASE ~Matches(f, q[k])
    BY <2>1, <2>2, <2>5, <2>7 DEF Within
  <2> QED  BY <2>6, <2>7
<1>6. ASSUME NEW a \in 0 .. n, NEW k \in 0 .. n, a < k
      PROVE  Within(g, a + 1, k) =
               IF Matches(f, q[a + 1])
               THEN SubSeq(Within(g, a, k), 2, Len(Within(g, a, k))) ELSE Within(g, a, k)
  <2>1. PICK b \in 1 .. n : b = a + 1
    BY <1>6
  <2>2. g[b] = IF Matches(f, q[b]) THEN Append(g[a], q[b]) ELSE g[a]
    <3>1. b - 1 = a
      BY <2>1
    <3> QED  BY <3>1 DEF Filters
  <2>3. CASE Matches(f, q[b])
    <3>1. g[a] \in Seq(Line) /\ q[b] \in Line
      BY <1>1
    <3>2. Len(Append(g[a], q[b])) = Len(g[a]) + 1
      BY <3>1, AppendProperties
    <3>3. PICK l \in Nat : l = Len(g[a])
      BY <1>1
    <3>4. Len(g[b]) = l + 1
      BY <2>2, <2>3, <3>2, <3>3
    <3>5. g[k] \in Seq(Line) /\ l \in 0 .. Len(g[k]) /\ l # Len(g[k])
      <4>1. b \in 0 .. n /\ b <= k
        BY <1>6, <2>1
      <4>2. Len(g[b]) <= Len(g[k]) /\ Len(g[k]) \in Nat
        BY <1>1, <4>1
      <4> QED  BY <1>1, <3>4, <4>2
    <3>6. After(g[k], l + 1) = SubSeq(After(g[k], l), 2, Len(After(g[k], l)))
      BY <3>5, AfterOneMore
    <3>7. Within(g, b, k) = After(g[k], l + 1) /\ Within(g, a, k) = After(g[k], l)
      BY <3>3, <3>4 DEF Within
    <3> QED  BY <2>1, <2>3, <3>6, <3>7
  <2>4. CASE ~Matches(f, q[b])
    BY <2>1, <2>2, <2>4 DEF Within
  <2> QED  BY <2>3, <2>4
<1> QED  BY <1>3, <1>4, <1>5, <1>6 DEF Moves

(* So a filter over the last lines is what is left of a filter over all.   *)
LEMMA StyledAfter ==
  ASSUME NEW f, NEW q \in Seq(Line), NEW g, Filters(f, q, g, Len(q)), NEW a \in 0 .. Len(q)
  PROVE  Styled(f, After(q, a)) = Within(g, a, Len(q))
<1>1. PICK n \in Nat : n = Len(q) /\ \A i \in 1 .. n : q[i] \in Line
  BY LenProperties
<1>m. Filters(f, q, g, n) /\ Moves(f, n, q, g)
  BY <1>1, WindowsMove
<1>2. PICK p : p = After(q, a)
  OBVIOUS
<1>3. Len(p) = n - a /\ n - a \in Nat /\ \A i \in 1 .. n - a : p[i] = q[a + i]
  <2>1. Len(p) = Len(q) - a /\ \A i \in 1 .. Len(q) - a : p[i] = q[a + i]
    BY <1>2, AfterIs
  <2> QED  BY <1>1, <2>1
<1>4. PICK h : Filters(f, p, h, n - a) /\ Styled(f, p) = h[n - a]
  BY <1>3, StyledFilters
<1> DEFINE B == {k \in 0 .. n - a : h[k] # Within(g, a, a + k)}
<1>5. 0 \notin B
  <2>1. Within(g, a, a) = <<>> /\ a + 0 = a
    BY <1>1, <1>m DEF Moves
  <2> QED  BY <1>4, <2>1 DEF Filters
<1>6. ASSUME NEW k \in 0 .. n - a, k # 0, k - 1 \notin B PROVE k \notin B
  <2>1. PICK j \in 0 .. n - a : j = k - 1
    BY <1>6
  <2>2. PICK m \in 1 .. n : m = a + k /\ m - 1 = a + j /\ a < m
    BY <1>1, <1>6, <2>1
  <2>3. h[j] = Within(g, a, m - 1)
    BY <1>6, <2>1, <2>2
  <2>4. p[k] = q[m]
    BY <1>3, <1>6, <2>2
  <2>5. h[k] = IF Matches(f, p[k]) THEN Append(h[j], p[k]) ELSE h[j]
    BY <1>4, <1>6, <2>1 DEF Filters
  <2>6. Within(g, a, m) = IF Matches(f, q[m]) THEN Append(Within(g, a, m - 1), q[m])
                           ELSE Within(g, a, m - 1)
    BY <1>1, <1>m, <2>2 DEF Moves
  <2> QED  BY <2>2, <2>3, <2>4, <2>5, <2>6
<1> HIDE DEF B
<1>7. B = {}
  <2>1. B \subseteq 0 .. n - a
    BY DEF B
  <2> QED  BY <1>3, <1>5, <1>6, <2>1, NoFirstException
<1>8. n - a \in 0 .. n - a /\ a + (n - a) = n
  BY <1>1, <1>3
<1>9. h[n - a] = Within(g, a, n)
  BY <1>7, <1>8 DEF B
<1> QED  BY <1>1, <1>2, <1>4, <1>9

LEMMA StyledFirst ==
  ASSUME NEW f, NEW q, NEW l \in Nat, NEW p, Len(p) = l, \A i \in 1 .. l : p[i] = q[i],
         NEW g, Filters(f, q, g, l)
  PROVE  Styled(f, p) = g[l]
<1>1. PICK h : Filters(f, p, h, l) /\ Styled(f, p) = h[l]
  BY StyledFilters
<1> DEFINE B == {k \in 0 .. l : h[k] # g[k]}
<1>2. 0 \notin B
  BY <1>1 DEF Filters
<1>3. ASSUME NEW k \in 0 .. l, k # 0, k - 1 \notin B PROVE k \notin B
  <2>1. k \in 1 .. l /\ h[k - 1] = g[k - 1] /\ p[k] = q[k]
    BY <1>3
  <2> QED  BY <1>1, <2>1 DEF Filters
<1> HIDE DEF B
<1>4. B = {}
  <2>1. B \subseteq 0 .. l
    BY DEF B
  <2> QED  BY <1>2, <1>3, <2>1, NoFirstException
<1> QED  BY <1>1, <1>4 DEF B

(* The body of the lines that are kept, after each line of a batch.        *)
LEMMA BodyGrows ==
  ASSUME lines \in Seq(Line), Len(lines) <= MaxShown, NEW ch \in Seq(Line),
         styled = Styled(filter, lines), PushLines(ch)
  PROVE  styled' = Styled(filter, lines')
<1>0. MaxShown \in Nat /\ MaxShown > 0
  BY LogTabAssumption
<1> DEFINE all == lines \o ch
<1>1. PICK l \in Nat : l = Len(lines)
  BY LenProperties
<1>2. PICK c \in Nat : c = Len(ch)
  BY LenProperties
<1>3. PICK q \in Seq(Line) : q = all
  BY ConcatProperties
<1>4. Len(q) = l + c /\ (\A i \in 1 .. l + c : q[i] \in Line) /\ \A i \in 1 .. l : q[i] = lines[i]
  <2>1. Len(q) = l + c /\ \A i \in 1 .. l : q[i] = lines[i]
    BY <1>1, <1>2, <1>3, ConcatProperties
  <2> QED  BY <2>1, LenProperties
<1>n. PICK n \in Nat : n = l + c
  OBVIOUS
<1>5. PICK g : Filters(filter, q, g, n)
  BY FiltersExist
<1>m. Moves(filter, n, q, g)
  BY <1>4, <1>n, <1>5, WindowsMove
<1> DEFINE Lo(i) == IF i > MaxShown THEN i - MaxShown ELSE 0
           Rest(b, i) == IF i > MaxShown /\ Matches(filter, q[i - MaxShown])
                         THEN SubSeq(b, 2, Len(b)) ELSE b
           Push(b, i) == IF Matches(filter, q[i]) THEN Append(Rest(b, i), q[i]) ELSE Rest(b, i)
           Def(u) == [k \in 0 .. c |-> IF k = 0 THEN styled ELSE Push(u[k - 1], l + k)]
           w == [k \in 0 .. c |-> Within(g, Lo(l + k), l + k)]
           body == CHOOSE u : u = Def(u)
<1>6. styled' = body[c]
  BY <1>1, <1>2, <1>3 DEF PushLines, TrimsStyled
<1>7. w[0] = styled
  <2>1. Filters(filter, q, g, l)
    BY <1>5, <1>n DEF Filters
  <2>2. Styled(filter, lines) = g[l]
    BY <1>1, <1>4, <2>1, StyledFirst
  <2>3. Lo(l + 0) = 0 /\ l + 0 = l /\ l \in 0 .. l + c
    BY <1>0, <1>1, <1>2
  <2>4. Within(g, 0, l) = g[l]
    BY <1>m, <1>n, <2>3 DEF Moves
  <2> QED  BY <2>2, <2>3, <2>4
<1>8. ASSUME NEW k \in 1 .. c PROVE w[k] = Push(w[k - 1], l + k)
  <2>1. PICK i \in 1 .. l + c : i = l + k
    OBVIOUS
  <2>2. w[k] = Within(g, Lo(i), i) /\ w[k - 1] = Within(g, Lo(i - 1), i - 1)
    <3>1. k - 1 \in 0 .. c /\ l + (k - 1) = i - 1
      BY <2>1
    <3> QED  BY <2>1, <3>1
  <2>3. PICK b : b = w[k - 1]
    OBVIOUS
  <2>4. Within(g, Lo(i), i - 1) = Rest(b, i)
    <3>1. CASE i > MaxShown
      <4>1. PICK a \in 0 .. l + c : a = i - 1 - MaxShown /\ a < i - 1 /\ a = Lo(i - 1)
                                    /\ a + 1 = i - MaxShown /\ a + 1 = Lo(i)
        BY <1>0, <3>1
      <4>2. PICK j \in 0 .. l + c : j = i - 1
        OBVIOUS
      <4>3. Within(g, a + 1, j) = IF Matches(filter, q[a + 1])
                                   THEN SubSeq(Within(g, a, j), 2, Len(Within(g, a, j)))
                                   ELSE Within(g, a, j)
        BY <1>m, <1>n, <4>1, <4>2 DEF Moves
      <4>4. b = Within(g, a, j)
        BY <2>2, <2>3, <4>1, <4>2
      <4> HIDE DEF Lo
      <4> QED  BY <3>1, <4>1, <4>2, <4>3, <4>4
    <3>2. CASE ~(i > MaxShown)
      <4>1. Lo(i) = 0 /\ Lo(i - 1) = 0
        BY <1>0, <3>2
      <4> HIDE DEF Lo
      <4> QED  BY <2>2, <2>3, <3>2, <4>1
    <3> QED  BY <3>1, <3>2
  <2>5. Within(g, Lo(i), i) = IF Matches(filter, q[i]) THEN Append(Within(g, Lo(i), i - 1), q[i])
                               ELSE Within(g, Lo(i), i - 1)
    <3>1. Lo(i) \in 0 .. l + c /\ Lo(i) < i
      BY <1>0
    <3> HIDE DEF Lo
    <3> QED  BY <1>m, <1>n, <3>1 DEF Moves
  <2> HIDE DEF Lo, Rest, w
  <2> QED  BY <2>1, <2>2, <2>3, <2>4, <2>5
<1> HIDE DEF Push
<1>9. w = Def(w)
  <2>1. \A k \in 0 .. c : w[k] = Def(w)[k]
    <3> HIDE DEF w
    <3> QED  BY <1>7, <1>8
  <2> QED  BY <2>1
<1>10. body = Def(body)
  <2> HIDE DEF Def, w
  <2> QED  BY <1>9
<1> HIDE DEF w, body
<1>11. /\ body[0] = styled
       /\ \A k \in 1 .. c : body[k] = Push(body[k - 1], l + k)
  <2>1. \A k \in 0 .. c : body[k] = Def(body)[k]
    BY <1>10
  <2> QED  BY <2>1
<1> DEFINE B == {k \in 0 .. c : body[k] # w[k]}
<1>12. B = {}
  <2>1. 0 \notin B
    BY <1>7, <1>11
  <2>2. ASSUME NEW k \in 0 .. c, k # 0, k - 1 \notin B PROVE k \notin B
    <3>1. k \in 1 .. c /\ body[k - 1] = w[k - 1]
      BY <2>2
    <3> QED  BY <1>8, <1>11, <3>1
  <2>3. B \subseteq 0 .. c
    OBVIOUS
  <2> HIDE DEF B
  <2> QED  BY <2>1, <2>2, <2>3, NoFirstException
<1>13. styled' = Within(g, Lo(l + c), l + c)
  <2>1. c \in 0 .. c
    OBVIOUS
  <2>2. body[c] = w[c]
    BY <1>12, <2>1
  <2> HIDE DEF Lo
  <2> QED  BY <1>6, <2>1, <2>2 DEF w
<1>14. lines' = After(q, Lo(l + c))
  <2>1. lines' = Newest(q)
    BY <1>3 DEF PushLines
  <2>2. CASE l + c > MaxShown
    <3>1. Newest(q) = SubSeq(q, Len(q) - MaxShown + 1, Len(q))
      BY <1>4, <2>2 DEF Newest
    <3>2. Lo(l + c) = Len(q) - MaxShown
      BY <1>4, <2>2
    <3> QED  BY <2>1, <3>1, <3>2 DEF After
  <2>3. CASE ~(l + c > MaxShown)
    <3>1. Newest(q) = q
      BY <1>4, <2>3 DEF Newest
    <3> QED  BY <2>1, <2>3, <3>1, AfterAll
  <2> QED  BY <2>2, <2>3
<1>15. Lo(l + c) \in 0 .. Len(q)
  BY <1>0, <1>4
<1> QED
  <2> HIDE DEF Lo
  <2>1. Filters(filter, q, g, Len(q)) /\ styled' = Within(g, Lo(l + c), Len(q))
    BY <1>4, <1>n, <1>5, <1>13
  <2> QED  BY <2>1, <1>14, <1>15, StyledAfter

BodyInv == styled = Styled(filter, lines)

LEMMA StyledNothing ==
  ASSUME NEW f
  PROVE  Styled(f, <<>>) = <<>>
<1>1. Len(<<>>) = 0  BY EmptyLine
<1>2. PICK g : Filters(f, <<>>, g, 0) /\ Styled(f, <<>>) = g[0]  BY <1>1, StyledFilters
<1> QED  BY <1>2 DEF Filters

LEMMA BodyStays ==
  ASSUME BodyInv, UNCHANGED <<lines, styled, filter>>
  PROVE  BodyInv'
BY DEF BodyInv

LEMMA BodyOfNothing ==
  ASSUME lines' = <<>>, styled' = <<>>
  PROVE  BodyInv'
BY StyledNothing DEF BodyInv

(* A step of the page: a log is opened or closed, or the filter is another. *)
LEMMA PageStepKeepsBody ==
  ASSUME BodyInv, PageStep \/ OnFiles
  PROVE  BodyInv'
<1>1. ASSUME NEW k, Open(k) PROVE BodyInv'  BY <1>1, BodyOfNothing DEF Open
<1>2. CASE Activate
  <2>1. CASE target = "none"
    BY <1>2, <2>1, BodyOfNothing DEF Activate
  <2>2. CASE target # "none"  BY <1>1, <1>2, <2>2 DEF Activate
  <2> QED  BY <2>1, <2>2
<1>3. CASE Deactivate  BY <1>3, BodyStays DEF Deactivate, bodyVars
<1>4. CASE SetState  BY <1>4, BodyStays DEF SetState, bodyVars
<1>5. CASE OpenSelected  BY <1>1, <1>5 DEF OpenSelected
<1>6. CASE ToggleJournal  BY <1>1, <1>6 DEF ToggleJournal
<1>7. CASE ShowLatestWorker
  <2>1. UNCHANGED filter /\ (Open("log") \/ UNCHANGED bodyVars)
    BY <1>7 DEF ShowLatestWorker
  <2> QED  BY <1>1, <2>1, BodyStays DEF bodyVars
<1>8. CASE SetFilter  BY <1>8 DEF SetFilter, BodyInv
<1>9. CASE OnFiles
  <2>1. UNCHANGED filter /\ (Open("log") \/ UNCHANGED bodyVars)
    BY <1>9 DEF OnFiles
  <2> QED  BY <1>1, <2>1, BodyStays DEF bodyVars
<1> QED  BY <1>2, <1>3, <1>4, <1>5, <1>6, <1>7, <1>8, <1>9 DEF PageStep

LEMMA ArrivesKeepsBody ==
  ASSUME LInv, BodyInv, NEW s \in subs, OnLines(s) \/ OnEnd(s)
  PROVE  BodyInv'
<1>1. lines \in Seq(Line) /\ Len(lines) <= MaxShown /\ s.ch \in Seq(Line)
  BY DEF LInv, PageInv, SubsInv, SubInv, TypedSub
<1>2. CASE OnLines(s)
  <2>1. UNCHANGED filter  BY <1>2 DEF OnLines
  <2>2. CASE IsCurrent(s)
    <3>1. PushLines(s.ch)  BY <1>2, <2>2 DEF OnLines
    <3>2. styled' = Styled(filter, lines')  BY <1>1, <3>1, BodyGrows DEF BodyInv
    <3> QED  BY <2>1, <3>2 DEF BodyInv
  <2>3. CASE ~IsCurrent(s)
    BY <1>2, <2>1, <2>3, BodyStays DEF OnLines, bodyVars
  <2> QED  BY <2>2, <2>3
<1>3. CASE OnEnd(s)  BY <1>3, BodyStays DEF OnEnd, bodyVars
<1> QED  BY <1>2, <1>3

LEMMA NextKeepsBody ==
  ASSUME LInv, BodyInv, [Next]_vars
  PROVE  BodyInv'
<1>1. CASE PageStep \/ OnFiles  BY <1>1, PageStepKeepsBody
<1>2. CASE HostStep
  <2>1. UNCHANGED <<bodyVars, filter>>
    BY <1>2 DEF HostStep, WatchFails, Append1, Truncate, Recreate, UnitWrites, GoroutineOnly
  <2> QED  BY <2>1, BodyStays DEF bodyVars
<1>3. ASSUME NEW g \in 1 .. MaxGen, Arrives(g) PROVE BodyInv'
  BY <1>3, ArrivesKeepsBody DEF Arrives
<1>4. ASSUME NEW g \in 1 .. MaxGen, SubStep(g) PROVE BodyInv'
  <2>1. GoroutineOnly
    BY <1>4 DEF SubStep, TailStep, TailOpens, TailEmits, TailSelects, JournalStep,
                JournalReads, JournalSends
  <2> QED  BY <2>1, BodyStays DEF GoroutineOnly, bodyVars
<1>5. CASE UNCHANGED vars  BY <1>5, BodyStays DEF vars, bodyVars
<1> QED  BY <1>1, <1>2, <1>3, <1>4, <1>5 DEF Next

-----------------------------------------------------------------------------
(* What is shown comes from the log that is open, in the order it was      *)
(* written and without a line twice, and no more than maxLines of it,      *)
(* though lines of subscriptions that were closed still arrive, files are  *)
(* truncated or made anew and the journal repeats itself (addLine, emit,   *)
(* reopen, overlap, appendLine); and the body has those of these lines     *)
(* that pass the filter, as if it were composed anew (pushLine,            *)
(* applyLines).                                                            *)
THEOREM LinesAreInOrder ==
  ASSUME Calm
  PROVE  Spec => []ShownInOrder
<1>1. Init => LInv  BY InitHolds
<1>2. LInv /\ [Next]_vars => LInv'  BY NextKeeps
<1>3. LInv => InOrder /\ Len(lines) <= MaxShown
  <2> SUFFICES ASSUME LInv, NEW k \in DOMAIN lines
               PROVE  /\ lines[k].src = target
                      /\ k > 1 => lines[k - 1].n < lines[k].n
    BY DEF LInv, PageInv, InOrder
  <2>1. Rises(lines) /\ FromOne(lines) /\ DOMAIN lines = 1 .. Len(lines) /\ Len(lines) \in Nat
    BY LenProperties DEF LInv, PageInv
  <2>2. ASSUME k > 1 PROVE lines[k - 1].n < lines[k].n
    <3>1. k - 1 \in DOMAIN lines /\ k - 1 < k  BY <2>1, <2>2
    <3> QED  BY <3>1, <2>1 DEF Rises
  <2> QED  BY <2>1, <2>2 DEF FromOne
<1>4. Init => BodyInv  BY StyledNothing DEF Init, BodyInv
<1>5. LInv /\ BodyInv /\ [Next]_vars => BodyInv'  BY NextKeepsBody
<1>6. QED  BY <1>1, <1>2, <1>3, <1>4, <1>5, PTL DEF Spec, ShownInOrder, BodyInv

(* A subscription that is open and has nothing left to do has brought the  *)
(* last line of the file, also of a file that took the place of the one it *)
(* began with (Tail, emit, reopen).                                        *)
THEOREM LogsAreFollowed ==
  ASSUME Calm
  PROVE  Spec => []FollowsToEnd
<1>1. Init => LInv  BY InitHolds
<1>2. LInv /\ [Next]_vars => LInv'  BY NextKeeps
<1>3. LInv => FollowsToEnd
  <2> SUFFICES ASSUME LInv, NEW s \in subs, s.gen = gen, s.live, s.at = "select",
                      s.events = <<>>, s.ch = <<>>, files[Len(files)] # <<>>
               PROVE  lines # <<>> /\ Last(lines).n = Last(files[Len(files)])
    BY DEF FollowsToEnd
  <2>1. TailInv(s) /\ TypedSub(s) /\ HostTypes
    BY DEF LInv, SubsInv, SubInv, CurrentInv, HostInv, Reading
  <2>2. s.file = Len(files)  BY <2>1 DEF TailInv, EventsInv, CreatePending
  <2>3. Size(s) \in Nat /\ Size(s) = Len(files[Len(files)]) /\ Size(s) > 0 /\ s.off \in Nat
    BY <2>1, <2>2, FilesAre, EmptySeq DEF Size, TypedSub
  <2>4. s.off >= Size(s) /\ ~ s.off > Size(s)  BY <2>1 DEF TailInv, PlaceInv
  <2>5. s.off = Size(s) /\ s.off > 0  BY <2>3, <2>4
  <2>6. LastSentIs(s, files[s.file][s.off])  BY <2>1, <2>5 DEF TailInv, PlaceInv
  <2> QED  BY <2>2, <2>3, <2>5, <2>6 DEF LastSentIs, Last
<1>4. QED  BY <1>1, <1>2, <1>3, PTL DEF Spec
=============================================================================
