----------------------------- MODULE ConfigText -----------------------------
(***************************************************************************)
(* What an edit makes of a file: the lines of .env (config/envfile), all   *)
(* of which stay but those it is about; a drop-in (config/dropin), of      *)
(* which only the directives of [Service] stay; and the diff that is       *)
(* approved (config/diff.go).  The form is filled from the file, which     *)
(* others may edit until the change is built from it.                      *)
(***************************************************************************)
EXTENDS Naturals, Sequences, SequencesExt, FiniteSets, FiniteSetsExt

CONSTANTS
  FormKeys,       (* keys of the form, in its order: a sequence.           *)
  OtherKeys,      (* keys the form does not have.                          *)
  Vals,           (* values; "" is among them.                             *)
  MaxDiff,        (* maxDiffLines.                                         *)
  MaxLines,       (* bound on the lines of the file at first.              *)
  MaxEdits        (* bound on the edits.                                   *)

NoKey == ""
Section == "[Service]"
OtherSection == "[Unit]"
Headings == {Section, OtherSection}

(* What the form does not know: other keys, headings of sections, and what *)
(* has no key: comments, blank lines and lines that cannot be read.        *)
Unknown == OtherKeys \cup Headings \cup {NoKey}

ASSUME ConfigTextAssumption ==
  /\ "" \in Vals /\ MaxDiff \in Nat /\ MaxLines \in Nat /\ MaxEdits \in Nat
  /\ FormKeys \in Seq(ToSet(FormKeys)) /\ \A i, j \in DOMAIN FormKeys : FormKeys[i] = FormKeys[j] => i = j
  /\ ToSet(FormKeys) \cap Unknown = {}

VARIABLES
  fileKind,       (* "env" or "dropin".                                    *)
  former, file,   (* the file before and after the last step.              *)
  form,           (* Values.Env: the form, and what it was filled with.    *)
  edits           (* steps made.                                           *)

textVars == <<fileKind, former, file, form, edits>>

FileLine == [key : ToSet(FormKeys) \cup Unknown, val : Vals, eol : {"", "nl", "crlf"}]

(* A line is ended by the next one: only the last may lack its end.        *)
Parsed(f) == \A i \in 1 .. Len(f) - 1 : f[i].eol # ""

TextInit ==
  /\ fileKind \in {"env", "dropin"}
  /\ file \in UNION {[1 .. n -> FileLine] : n \in 0 .. MaxLines}
  /\ Parsed(file)
  /\ former = file
  /\ form = [before |-> <<>>, next |-> <<>>] /\ edits = 0

-----------------------------------------------------------------------------
(* Lines with a key. *)

Index(f, k) == {i \in DOMAIN f : f[i].key = k}
First(f, k) == CHOOSE i \in Index(f, k) : \A j \in Index(f, k) : i <= j

(* Get: the first of several.                                              *)
Get(f, k) == IF Index(f, k) = {} THEN "" ELSE f[First(f, k)].val

(* File.eol: that of the first line which has one.                         *)
EolOf(f) ==
  LET ended == {i \in DOMAIN f : f[i].eol # ""}
  IN IF ended = {} THEN "nl" ELSE f[CHOOSE i \in ended : \A j \in ended : i <= j].eol

AppendOnly(f, k, v) == Append(f, [key |-> k, val |-> v, eol |-> EolOf(f)])

(* appendLine: the last line is ended first.                               *)
AppendLine(f, k, v) ==
  Append([i \in DOMAIN f |-> IF f[i].eol = "" THEN [f[i] EXCEPT !.eol = EolOf(f)] ELSE f[i]],
         [key |-> k, val |-> v, eol |-> EolOf(f)])

EnvSet(f, k, v) ==
  IF Index(f, k) = {} THEN AppendLine(f, k, v) ELSE [f EXCEPT ![First(f, k)].val = v]

(* The lines without those of k after the i-th.                            *)
WithoutAfter(f, k, i) ==
  LET out[n \in 0 .. Len(f)] ==
        IF n = 0 THEN <<>>
        ELSE IF f[n].key = k /\ n > i THEN out[n - 1] ELSE Append(out[n - 1], f[n])
  IN out[Len(f)]

Without(f, k) == WithoutAfter(f, k, 0)

EnvUnset(f, k) ==
  LET out == Without(f, k)
  IN IF Index(f, k) # {} /\ out # <<>> /\ Last(f).eol = ""
     THEN [out EXCEPT ![Len(out)].eol = ""] ELSE out

(* DropIn.Set: the first of several, and the only one after it.            *)
DropInSet(f, k, v) ==
  IF Index(f, k) = {} THEN Append(f, [key |-> k, val |-> v, eol |-> "nl"])
  ELSE LET i == First(f, k) IN WithoutAfter([f EXCEPT ![i].val = v], k, i)

-----------------------------------------------------------------------------
(* Drop-ins. *)

InService(f, i) ==
  \E j \in 1 .. i - 1 : /\ f[j].key = Section
                       /\ \A m \in j + 1 .. i - 1 : f[m].key # OtherSection

HasKey(f, i) == f[i].key \notin Headings \cup {NoKey}
IsDirective(f, i) == HasKey(f, i) /\ InService(f, i)

(* dropin.Parse: the directives of [Service]; comments, blank lines and    *)
(* other sections are dropped, and how the lines ended is not kept.        *)
ParseDropIn(f) ==
  LET out[n \in 0 .. Len(f)] ==
        IF n = 0 THEN <<>>
        ELSE IF IsDirective(f, n) THEN Append(out[n - 1], [f[n] EXCEPT !.eol = "nl"]) ELSE out[n - 1]
  IN out[Len(f)]

(* DropIn.Render: a comment of its own ("") and [Service] come first.      *)
Opening == [k \in 1 .. 2 |-> [key |-> IF k = 1 THEN NoKey ELSE Section, val |-> "", eol |-> "nl"]]
RenderDropIn(d) == Opening \o d

(* What the program reads in a file.                                       *)
Settings(f) == IF fileKind = "env" THEN f ELSE ParseDropIn(f)

-----------------------------------------------------------------------------
(* The form. *)

(* Fill                                                                    *)
Fill ==
  /\ form.before = <<>> /\ edits < MaxEdits
  /\ LET b == [i \in DOMAIN FormKeys |-> Get(Settings(file), FormKeys[i])]
     IN form' = [before |-> b, next |-> b]
  /\ edits' = edits + 1
  /\ UNCHANGED <<fileKind, former, file>>

(* The user changes fields.                                                *)
Type ==
  /\ form.before # <<>>
  /\ \E i \in DOMAIN FormKeys, v \in Vals :
       /\ form.next[i] = form.before[i] /\ v # form.next[i]
       /\ form' = [form EXCEPT !.next[i] = v]
  /\ UNCHANGED <<fileKind, former, file, edits>>

(* Somebody else changes a value, or removes a line.                       *)
OthersEdit ==
  /\ form.before # <<>> /\ edits < MaxEdits
  /\ \E i \in DOMAIN file :
       \/ \E v \in Vals \ {file[i].val} : file' = [file EXCEPT ![i].val = v]
       \/ file' = RemoveAt(file, i)
  /\ former' = file'
  /\ edits' = edits + 1
  /\ UNCHANGED <<fileKind, form>>

(* BuildEnv, field by field: an emptied one is removed; one that was empty *)
(* and still is leaves the file alone.                                     *)
EnvField(f, i) ==
  IF form.next[i] # "" THEN EnvSet(f, FormKeys[i], form.next[i])
  ELSE IF form.before[i] # "" THEN EnvUnset(f, FormKeys[i])
  ELSE f

(* setOrUnset of BuildDropIn                                               *)
DropInField(f, i) ==
  IF form.next[i] = "" THEN Without(f, FormKeys[i]) ELSE DropInSet(f, FormKeys[i], form.next[i])

(* BuildEnv, BuildDropIn: what the fields make of the file, one after the  *)
(* other; a drop-in is then written anew.                                  *)
Edited ==
  LET made[n \in 0 .. Len(FormKeys)] ==
        IF n = 0 THEN Settings(file)
        ELSE IF fileKind = "env" THEN EnvField(made[n - 1], n) ELSE DropInField(made[n - 1], n)
  IN made[Len(FormKeys)]

Built == IF fileKind = "env" THEN Edited ELSE RenderDropIn(Edited)

(* Values.Build                                                            *)
Build ==
  /\ form.before # <<>>
  /\ former' = file /\ file' = Built
  /\ form' = [before |-> <<>>, next |-> <<>>]
  /\ UNCHANGED <<fileKind, edits>>

TextNext == Fill \/ Type \/ OthersEdit \/ Build

TextSpec == TextInit /\ [][TextNext]_textVars

-----------------------------------------------------------------------------
(* The diff (config.Diff): from lines old to lines cur. *)

(* lcs: how long the longest common part of the last m lines of old and    *)
(* the last n of cur is, row by row; diffLines walks along it.             *)
Row(old, cur, below, m) ==
  LET at[n \in 0 .. Len(cur)] ==
        IF n = 0 THEN 0
        ELSE IF old[Len(old) + 1 - m] = cur[Len(cur) + 1 - n] THEN below[n - 1] + 1
        ELSE Max({below[n], at[n - 1]})
  IN at

Common(old, cur) ==
  LET row[m \in 0 .. Len(old)] ==
        IF m = 0 THEN [n \in 0 .. Len(cur) |-> 0] ELSE Row(old, cur, row[m - 1], m)
  IN row

RemoveAlways(table, m, n) == TRUE
RemoveBefore(table, m, n) == table[m - 1][n] >= table[m][n - 1]

Marked(mark, l) == [mark |-> mark, line |-> l]

(* One line further, with m lines of old left and n of cur.                *)
Walk(table, old, cur, w) ==
  LET m == w.m n == w.n
      l == old[Len(old) + 1 - m] c == cur[Len(cur) + 1 - n]
  IN IF m = 0 /\ n = 0 THEN w
     ELSE IF m > 0 /\ n > 0 /\ l = c
     THEN [m |-> m - 1, n |-> n - 1, out |-> Append(w.out, Marked(" ", l))]
     ELSE IF n = 0 \/ (m > 0 /\ RemoveBefore(table, m, n))
     THEN [m |-> m - 1, n |-> n, out |-> Append(w.out, Marked("-", l))]
     ELSE [m |-> m, n |-> n - 1, out |-> Append(w.out, Marked("+", c))]

TooLong(old, cur) == Len(old) > MaxDiff \/ Len(cur) > MaxDiff

(* replaceAll                                                              *)
ReplacedWhole(old, cur) ==
  [i \in DOMAIN old |-> Marked("-", old[i])] \o [i \in DOMAIN cur |-> Marked("+", cur[i])]

Diff(old, cur) ==
  LET walked[k \in 0 .. Len(old) + Len(cur)] ==
        IF k = 0 THEN [m |-> Len(old), n |-> Len(cur), out |-> <<>>]
        ELSE Walk(Common(old, cur), old, cur, walked[k - 1])
  IN IF TooLong(old, cur) THEN ReplacedWhole(old, cur) ELSE walked[Len(old) + Len(cur)].out

(* splitLines: the ends of the lines are not shown.                        *)
SplitLines(f) == [i \in DOMAIN f |-> [key |-> f[i].key, val |-> f[i].val]]

-----------------------------------------------------------------------------
(* Properties. *)

(* What the lines say whose key is in S, in order.                         *)
Of(f, S) ==
  LET some[n \in 0 .. Len(f)] ==
        IF n = 0 THEN <<>>
        ELSE IF f[n].key \in S
        THEN Append(some[n - 1], [key |-> f[n].key, val |-> f[n].val]) ELSE some[n - 1]
  IN some[Len(f)]

(* A change does what the form says and nothing else: a field with a value *)
(* reads back as it (from a drop-in also for systemd, for which the last   *)
(* one counts), an emptied one is gone, one left empty stays as it was.    *)
(* Of .env every line the form does not know stays, and it ends as it did  *)
(* unless a line was added; of a drop-in every other directive of          *)
(* [Service] stays, though not its comments and other sections, which the  *)
(* diff shows as removed (the comments of package dropin and ReadRaw).     *)
(* Lines do not run together.                                              *)
FieldIsSet(i) ==
  LET k == FormKeys[i] v == form.next[i] b == form.before[i]
      was == Settings(file) is == Settings(file')
  IN IF v # "" THEN /\ Get(is, k) = v
                    /\ fileKind = "dropin" => Of(is, {k}) = <<[key |-> k, val |-> v]>>
     ELSE IF b # "" \/ fileKind = "dropin" THEN Of(is, {k}) = <<>>
     ELSE Of(is, {k}) = Of(was, {k})

NoneAdded == \A i \in DOMAIN FormKeys : form.next[i] # "" => Index(Settings(file), FormKeys[i]) # {}

AsAsked ==
  /\ \A i \in DOMAIN FormKeys : FieldIsSet(i)
  /\ Of(Settings(file'), Unknown) = Of(Settings(file), Unknown)
  /\ Parsed(file')
  /\ fileKind = "env" /\ NoneAdded /\ file # <<>> /\ file' # <<>>
       => (Last(file').eol = "") = (Last(file).eol = "")

EditsOnlyAsked == [][form.before # <<>> /\ form'.before = <<>> => AsAsked]_textVars

(* The lines of a diff with one of the marks, in order.                    *)
WithMark(d, M) ==
  LET some[k \in 0 .. Len(d)] ==
        IF k = 0 THEN <<>>
        ELSE IF d[k].mark \in M THEN Append(some[k - 1], d[k].line) ELSE some[k - 1]
  IN some[Len(d)]

(* Lines of a and b that are equal, each further on in both.               *)
InStep(p, q) == p = q \/ (p[1] < q[1] /\ p[2] < q[2]) \/ (q[1] < p[1] /\ q[2] < p[2])
Matched(a, b) == {p \in (DOMAIN a) \X (DOMAIN b) : a[p[1]] = b[p[2]]}
Pairings(a, b) == {P \in SUBSET Matched(a, b) : \A p, q \in P : InStep(p, q)}

(* The diff the user approves has all lines of both versions in order, and *)
(* shows no line as changed that could be shown as common, unless a file   *)
(* is too long for that.                                                   *)
DiffShowsChange ==
  LET old == SplitLines(former) cur == SplitLines(file) d == Diff(old, cur)
  IN /\ WithMark(d, {" ", "-"}) = old
     /\ WithMark(d, {" ", "+"}) = cur
     /\ ~TooLong(old, cur) =>
          \A P \in Pairings(old, cur) : Cardinality(P) <= Len(WithMark(d, {" "}))
=============================================================================
