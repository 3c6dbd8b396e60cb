------------------------------- MODULE LogTab -------------------------------
(***************************************************************************)
(* The Logs tab (ui/page/logs) and what it follows (logs): a file that is  *)
(* appended to, truncated and made anew, or the journal of a unit that is  *)
(* polled.  Every subscription is a goroutine with a bounded channel; its  *)
(* lines reach the page later.  A line is a number: lines are numbered as  *)
(* they are written.                                                       *)
(***************************************************************************)
EXTENDS Naturals, Sequences, SequencesExt, FiniteSets, FiniteSetsExt

CONSTANTS
  MaxShown,       (* maxLines.                                             *)
  Buffer,         (* lineBuffer.                                           *)
  Window,         (* TailInitialBytes and JournalLines, in lines.          *)
  Retries,        (* journalRetries.                                       *)
  Calm,           (* a log is replaced only when its opening and its last  *)
                  (* replacement were noticed.                             *)
  MaxLines, MaxJournal, MaxFiles, MaxGen  (* bounds on lines, files, subscriptions. *)

ASSUME LogTabAssumption ==
  /\ MaxShown \in Nat \ {0} /\ Buffer \in Nat \ {0} /\ Window \in Nat \ {0}
  /\ Retries \in Nat \ {0} /\ Calm \in BOOLEAN
  /\ MaxLines \in Nat /\ MaxJournal \in Nat /\ MaxFiles \in Nat /\ MaxGen \in Nat

VARIABLES
  files,          (* the files that had the name, the last one has it: lines. *)
  written,        (* lines written to them so far.                         *)
  journal,        (* lines the journal has.                                *)
  subs,           (* goroutines of subscriptions.                          *)
  target,         (* Model.target: "none", "log" or "journal".             *)
  lines,          (* Model.lines.                                          *)
  styled,         (* Model.styled: what the body shows.                    *)
  filter,         (* the filter applied: "none" or "even".          *)
  gen, open,      (* Model.stream: gen; cancel is not nil.                 *)
  err,            (* Model.err is not nil.                                 *)
  listing,        (* filesMsg on its way.                                  *)
  active

hostVars == <<files, written, journal>>
bodyVars == <<lines, styled>>
vars == <<hostVars, subs, target, bodyVars, filter, gen, open, err, listing, active>>

Init ==
  /\ files = <<<<>>>> /\ written = 0 /\ journal = 0
  /\ subs = {} /\ target = "none" /\ lines = <<>> /\ styled = <<>> /\ filter = "none"
  /\ gen = 0 /\ open = FALSE /\ err = FALSE /\ listing = FALSE
  /\ active = FALSE

-----------------------------------------------------------------------------
(* The body (content.go). *)

(* An expression that does not compile is as none.                         *)
Matches(f, l) == f = "even" => l.n % 2 = 0

(* applyLines: those of the lines that match, in their order.              *)
Styled(f, ls) ==
  LET some[k \in 0 .. Len(ls)] ==
        IF k = 0 THEN <<>>
        ELSE IF Matches(f, ls[k]) THEN Append(some[k - 1], ls[k]) ELSE some[k - 1]
  IN some[Len(ls)]

TrimsStyled(f, oldest) == Matches(f, oldest)

Newest(ls) == IF Len(ls) > MaxShown THEN SubSeq(ls, Len(ls) - MaxShown + 1, Len(ls)) ELSE ls

(* pushLine and appendLine, for each line of a batch: the oldest line goes *)
(* when there are too many.                                                *)
PushLines(ls) ==
  LET all == lines \o ls
      body[k \in 0 .. Len(ls)] ==
        IF k = 0 THEN styled
        ELSE LET i == Len(lines) + k
                 rest == IF i > MaxShown /\ TrimsStyled(filter, all[i - MaxShown])
                         THEN SubSeq(body[k - 1], 2, Len(body[k - 1])) ELSE body[k - 1]
             IN IF Matches(filter, all[i]) THEN Append(rest, all[i]) ELSE rest
  IN /\ lines' = Newest(all)
     /\ styled' = body[Len(ls)]

-----------------------------------------------------------------------------
(* Subscriptions (stream.go). *)

NewSub(kind) ==
  [gen |-> gen + 1, kind |-> kind, live |-> TRUE, ch |-> <<>>, failed |-> FALSE,
   at |-> IF kind = "log" THEN "open" ELSE "read", file |-> 0, off |-> 0,
   events |-> <<>>, prev |-> <<>>, out |-> <<>>, fails |-> 0, reader |-> TRUE]

Stopped(S) == {[s EXCEPT !.live = @ /\ ~(open /\ s.gen = gen)] : s \in S}

Stop ==
  /\ open' = FALSE
  /\ subs' = Stopped(subs)
  /\ UNCHANGED gen

(* open, subscribe: what was shown goes, the goroutine starts.             *)
Open(t) ==
  /\ gen < MaxGen
  /\ target' = t
  /\ lines' = <<>> /\ styled' = <<>> /\ err' = FALSE
  /\ gen' = gen + 1 /\ open' = TRUE
  /\ subs' = Stopped(subs) \cup {NewSub(t)}

(* activate: like open, for the target there is.                           *)
Activate ==
  /\ ~active
  /\ active' = TRUE /\ listing' = TRUE
  /\ IF target = "none"
     THEN /\ Stop /\ lines' = <<>> /\ styled' = <<>> /\ err' = FALSE
          /\ UNCHANGED target
     ELSE Open(target)
  /\ UNCHANGED <<hostVars, filter>>

(* deactivate; shutdown does the same at the end of the program.          *)
Deactivate ==
  /\ active
  /\ active' = FALSE
  /\ Stop
  /\ UNCHANGED <<hostVars, target, bodyVars, filter, err, listing>>

(* setState: the list is made again.                                       *)
SetState ==
  /\ active /\ ~listing
  /\ listing' = TRUE
  /\ UNCHANGED <<hostVars, subs, target, bodyVars, filter, gen, open, err, active>>

(* setFiles: the newest log is opened if there is no target.               *)
OnFiles ==
  /\ listing /\ listing' = FALSE
  /\ IF target = "none" THEN Open("log")
     ELSE UNCHANGED <<subs, target, bodyVars, gen, open, err>>
  /\ UNCHANGED <<hostVars, filter, active>>

(* enter on the list (openSelected).                                       *)
OpenSelected ==
  /\ active
  /\ Open("log")
  /\ UNCHANGED <<hostVars, filter, listing, active>>

(* toggleJournal: back to the file, or to the journal of its runner.       *)
ToggleJournal ==
  /\ active /\ target # "none"
  /\ Open(IF target = "journal" THEN "log" ELSE "journal")
  /\ UNCHANGED <<hostVars, filter, listing, active>>

(* ShowLogMsg, from a tab that asks for the log of a job.                  *)
ShowLatestWorker ==
  /\ active /\ target = "journal"
  /\ \/ Open("log")
     \/ err' = TRUE /\ UNCHANGED <<subs, target, bodyVars, gen, open>>
  /\ UNCHANGED <<hostVars, filter, listing, active>>

(* AcceptFilter, ClearFilter: everything is composed anew.                 *)
SetFilter ==
  /\ active
  /\ filter' \in {"none", "even"} \ {filter}
  /\ styled' = Styled(filter', lines)
  /\ UNCHANGED <<hostVars, subs, target, lines, gen, open, err, listing, active>>

-----------------------------------------------------------------------------
(* Lines arrive (wait, addLine, endStream). *)

Ended(s) == s.at = "end"
Becomes(s, t) == subs' = (subs \ {s}) \cup (IF t.at = "end" /\ ~t.reader THEN {} ELSE {t})

IsAny(s) == TRUE
IsCurrent(s) == s.gen = gen

(* A batch: what has come, and whether it was the last one.                *)
OnLines(s) ==
  /\ s.reader
  /\ s.ch # <<>>
  /\ IF IsCurrent(s)
     THEN PushLines(s.ch) /\ Becomes(s, [s EXCEPT !.ch = <<>>, !.reader = open])
     ELSE Becomes(s, [s EXCEPT !.ch = <<>>, !.reader = FALSE]) /\ UNCHANGED bodyVars
  /\ UNCHANGED <<hostVars, target, filter, gen, open, err, listing, active>>

OnEnd(s) ==
  /\ s.reader
  /\ s.ch = <<>> /\ Ended(s)
  /\ subs' = subs \ {s}
  /\ err' = (err \/ (IsCurrent(s) /\ open /\ s.failed))
  /\ UNCHANGED <<hostVars, target, bodyVars, filter, gen, open, listing, active>>

-----------------------------------------------------------------------------
(* Tail (logs/tail.go). *)

GoroutineOnly == UNCHANGED <<hostVars, target, bodyVars, filter, gen, open, err,
                             listing, active>>

Fails(s) == Becomes(s, [s EXCEPT !.at = "end", !.failed = TRUE])
Returns(s) == Becomes(s, [s EXCEPT !.at = "end"])

Size(s) == Len(files[s.file])

(* seekTail: not more than the last part of the file.                      *)
SeekTail(f) == IF Len(files[f]) > Window THEN Len(files[f]) - Window ELSE 0

(* The file is opened, then its directory watched and the place to begin   *)
(* at looked for.                                                          *)
TailOpens(s) ==
  /\ \/ s.at = "open" /\ Becomes(s, [s EXCEPT !.file = Len(files), !.at = "watch"])
     \/ s.at = "watch" /\ Becomes(s, [s EXCEPT !.off = SeekTail(s.file), !.at = "emit"])
     \/ s.at \in {"open", "watch"} /\ Fails(s)
  /\ GoroutineOnly

(* A file that became shorter is read from its beginning.                  *)
Restarted(s) == [s EXCEPT !.off = IF Size(s) < @ THEN 0 ELSE @]

WaitsForRoom(s) == FALSE
GivesUp(s) == ~s.live

(* emit: each line is sent, until there is none or the subscription is     *)
(* stopped.                                                                *)
TailEmits(s) ==
  /\ s.at = "emit"
  /\ \/ /\ s.off < Size(s) /\ Len(s.ch) < Buffer
        /\ Becomes(s, [s EXCEPT !.off = @ + 1,
                         !.ch = Append(@, [src |-> "log", n |-> files[s.file][s.off + 1]])])
     \/ /\ s.off >= Size(s) \/ GivesUp(s)
        /\ Becomes(s, [s EXCEPT !.at = "select"])
  /\ GoroutineOnly

StaysWithFile(s) == s
Reopened(s) == [s EXCEPT !.file = Len(files), !.off = SeekTail(Len(files))]

(* reopen: if it cannot be opened, the file there is goes on.              *)
Reopen(s) == {Reopened(s)} \cup (IF Calm THEN {} ELSE {s})

TailSelects(s) ==
  /\ s.at = "select"
  /\ \/ ~s.live /\ Returns(s)
     \/ /\ s.events # <<>>
        /\ \E t \in IF Head(s.events) = "create" THEN Reopen(s) ELSE {Restarted(s)} :
             Becomes(s, [t EXCEPT !.events = Tail(@), !.at = "emit"])
  /\ GoroutineOnly

(* The watch reports an error.                                             *)
WatchFails ==
  /\ \E s \in subs : s.at = "select" /\ Fails(s)
  /\ GoroutineOnly

TailStep(s) == TailOpens(s) \/ TailEmits(s) \/ TailSelects(s)

-----------------------------------------------------------------------------
(* Journal (logs/journal.go). *)

LastLines == [k \in 1 .. Min({journal, Window}) |-> journal - Min({journal, Window}) + k]

(* overlap: the longest end of prev that cur begins with.                  *)
Overlap(prev, cur) ==
  Max({n \in 0 .. Min({Len(prev), Len(cur)}) :
         SubSeq(prev, Len(prev) - n + 1, Len(prev)) = SubSeq(cur, 1, n)})

(* An empty answer is not remembered.                                      *)
Remember(prev, cur) == IF cur = <<>> THEN prev ELSE cur

(* readJournal: the last lines, none although there are some, or an error. *)
JournalReads(s) ==
  /\ s.at = "read"
  /\ \/ \E cur \in {LastLines, <<>>} :
          /\ s.live
          /\ Becomes(s, [s EXCEPT !.fails = 0, !.prev = Remember(@, cur), !.at = "send",
                           !.out = SubSeq(cur, Overlap(s.prev, cur) + 1, Len(cur))])
     \/ s.live /\ s.fails + 1 < Retries /\ Becomes(s, [s EXCEPT !.fails = @ + 1])
     \/ s.live /\ s.fails + 1 = Retries /\ Fails(s)
     \/ ~s.live /\ Returns(s)
  /\ GoroutineOnly

JournalSends(s) ==
  /\ s.at = "send"
  /\ \/ /\ s.out # <<>> /\ Len(s.ch) < Buffer
        /\ Becomes(s, [s EXCEPT !.out = Tail(@),
                         !.ch = Append(@, [src |-> "journal", n |-> Head(s.out)])])
     \/ s.out # <<>> /\ GivesUp(s) /\ Returns(s)
     \/ s.out = <<>> /\ Becomes(s, [s EXCEPT !.at = "read"])
  /\ GoroutineOnly

JournalStep(s) == JournalReads(s) \/ JournalSends(s)

-----------------------------------------------------------------------------
(* The host. *)

(* Events of the file reach who watches; a write that follows a write is   *)
(* merged with it (inotify).                                               *)
Notified(what) ==
  subs' = {IF s.at \in {"emit", "select"} /\ s.kind = "log"
              /\ (s.events = <<>> \/ Last(s.events) # what)
           THEN [s EXCEPT !.events = Append(@, what)] ELSE s : s \in subs}

Noticed == \A s \in subs : s.gen = gen /\ s.at \in {"emit", "select"} => s.off <= Size(s)

(* The listener writes a line.  A file that was truncated is noticed to be *)
(* shorter before it has grown again.                                      *)
Append1 ==
  /\ written < MaxLines /\ Noticed
  /\ written' = written + 1
  /\ files' = [files EXCEPT ![Len(files)] = Append(@, written + 1)]
  /\ Notified("write")
  /\ UNCHANGED <<journal, target, bodyVars, filter, gen, open, err, listing, active>>

Truncate ==
  /\ files[Len(files)] # <<>>
  /\ written < MaxLines
  /\ files' = [files EXCEPT ![Len(files)] = <<>>]
  /\ Notified("write")
  /\ UNCHANGED <<written, journal, target, bodyVars, filter, gen, open, err, listing,
                 active>>

Settled == \A s \in subs : s.gen = gen => s.at # "watch" /\ "create" \notin ToSet(s.events)

Recreate ==
  /\ Len(files) < MaxFiles
  /\ Calm => Settled
  /\ files' = Append(files, <<>>)
  /\ Notified("create")
  /\ UNCHANGED <<written, journal, target, bodyVars, filter, gen, open, err, listing,
                 active>>

UnitWrites ==
  /\ journal < MaxJournal /\ journal' = journal + 1
  /\ UNCHANGED <<files, written, subs, target, bodyVars, filter, gen, open, err, listing,
                 active>>

-----------------------------------------------------------------------------
PageStep == Activate \/ Deactivate \/ SetState \/ OpenSelected
            \/ ToggleJournal \/ ShowLatestWorker \/ SetFilter

Arrives(g) == \E s \in subs : s.gen = g /\ (OnLines(s) \/ OnEnd(s))
SubStep(g) == \E s \in subs : s.gen = g /\ (TailStep(s) \/ JournalStep(s))
HostStep == WatchFails \/ Append1 \/ Truncate \/ Recreate \/ UnitWrites

Next == PageStep \/ OnFiles \/ HostStep \/ \E g \in 1 .. MaxGen : Arrives(g) \/ SubStep(g)

Spec == Init /\ [][Next]_vars

-----------------------------------------------------------------------------
(* What is shown comes from the log that is open, in the order it was      *)
(* written and without a line twice, though subscriptions end late, files  *)
(* are truncated or made anew and the journal repeats itself; and the body *)
(* kept up line by line is what composing it anew would show (FR-24 to     *)
(* FR-26, the comments of addLine, activate, Journal and pushLine).        *)
InOrder ==
  \A k \in DOMAIN lines : /\ lines[k].src = target
                          /\ k > 1 => lines[k - 1].n < lines[k].n

ShownInOrder == InOrder /\ Len(lines) <= MaxShown /\ styled = Styled(filter, lines)

(* A subscription that is open and has nothing left to do has brought the  *)
(* last line of the file, also of a file that took its place (comment of   *)
(* Tail).                                                                  *)
FollowsToEnd ==
  \A s \in subs :
    (s.gen = gen /\ s.live /\ s.at = "select" /\ s.events = <<>> /\ s.ch = <<>>)
      => LET f == files[Len(files)]
         IN f # <<>> => lines # <<>> /\ Last(lines).n = Last(f)

(* A subscription that was stopped goes on to its end, though nobody reads *)
(* its lines any more (comments of Tail, Journal and waitEnd).             *)
StoppedEnds == \A s \in subs : ~s.live /\ ~Ended(s) => ENABLED SubStep(s.gen)

=============================================================================
