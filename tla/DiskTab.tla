------------------------------ MODULE DiskTab ------------------------------
(***************************************************************************)
(* The Disk tab (ui/page/disk, ui/page/diskclean) and the cleaning itself  *)
(* (disk): the scan of the runners' directories, the choice, the approval  *)
(* and the removal, while jobs come and go on the host.                    *)
(***************************************************************************)
EXTENDS Naturals, Sequences, SequencesExt, FiniteSets, Overlay

CONSTANTS
  Runner,
  Target,         (* what can be cleaned: directories and docker.          *)
  BaseOf(_),      (* the runner of a target.                               *)
  KindOf(_),      (* "work", "diag" or "docker".                           *)
  LabelOf(_),     (* its name on the screen.                               *)
  Hasty,          (* several keys may be pressed before one is answered.   *)
  MaxWork, MaxGen, MaxCleans  (* bounds on jobs, scans asked for, cleanings. *)

ASSUME DiskTabAssumption ==
  /\ Hasty \in BOOLEAN
  /\ MaxWork \in Nat /\ MaxGen \in Nat /\ MaxCleans \in Nat
  /\ \A t \in Target : KindOf(t) \in {"work", "diag", "docker"}
  /\ \A t \in Target : KindOf(t) # "docker" => BaseOf(t) \in Runner

VARIABLES
  host,           (* the job each runner works on, 0 for none.             *)
  begun,          (* jobs begun so far.                                    *)
  seen,           (* host as of the last detection (page.StateMsg).        *)
  rows,           (* Model.seen: [target, gen, removable]; in any order.   *)
  checked,        (* targets marked in the table.                          *)
  gen,            (* Model.gen.                                            *)
  scan,           (* Model.scan is not nil.                                *)
  plan,           (* Model.plan: the targets in the order of the table.    *)
  clean,          (* Model.clean.                                          *)
  stack, spins,   (* page.Overlay; the progress cannot be closed.          *)
  report,         (* the report of the last cleaning: numbers of rows.     *)
  scans,          (* goroutines of scans, with the command waiting for one. *)
  jobs,           (* goroutines of cleanings.                              *)
  asks,           (* commands that wait for the progress of each.          *)
  decided,        (* answers of the confirmation on their way.             *)
  away, quit      (* the user is on another tab; the program is ending.    *)

hostVars == <<host, begun, seen>>
scanVars == <<rows, gen, scan, scans>>
vars == <<hostVars, scanVars, checked, plan, clean, stack, spins, report, jobs,
          asks, decided, away, quit>>

NoClean  == [job |-> 0, items |-> <<>>, marks |-> <<>>, closed |-> FALSE, result |-> FALSE]
NoReport == [job |-> 0, done |-> 0, failed |-> 0, pending |-> 0]

Init ==
  /\ host = [r \in Runner |-> 0] /\ begun = 0 /\ seen = host
  /\ rows = {} /\ checked = {} /\ gen = 0 /\ scan = FALSE
  /\ plan = <<>> /\ clean = NoClean /\ stack = <<>> /\ spins = FALSE
  /\ report = NoReport /\ scans = {} /\ jobs = {}
  /\ asks = [k \in 1 .. MaxCleans |-> 0] /\ decided = {}
  /\ away = TRUE /\ quit = FALSE

-----------------------------------------------------------------------------
(* The scan (disk/scan.go, ui/page/disk/scan.go). *)

(* canRemove: not the work of a busy runner; as the goroutine saw it.      *)
Removable(t, view) == KindOf(t) = "work" => view[BaseOf(t)] = 0

StopScanOnly(S) == S

(* stopScan: the goroutines are told.                                      *)
StopScan(S) == {[s EXCEPT !.live = @ /\ ~(scan /\ s.gen = gen)] : s \in S}

(* startScan: one goroutine per target, one command that waits.  The table *)
(* is empty, so nothing is marked (table.pruneChecked).                    *)
StartScan ==
  /\ gen' = gen + 1 /\ scan' = TRUE
  /\ scans' = StopScan(scans) \cup
       {[gen |-> gen + 1, todo |-> Target, view |-> seen, live |-> TRUE, read |-> TRUE]}
  /\ rows' = {} /\ checked' = {}

Left(s) == IF s.todo = {} /\ ~s.read THEN {} ELSE {s}
BecomesScan(s, t) == (scans \ {s}) \cup Left(t)

ThisScan(s) == scan /\ s.gen = gen

(* A result is received (onUsage); the command waits for the next one only *)
(* if it belongs to the scan on the screen.                                *)
OnUsage(s) ==
  /\ ~quit /\ s.read
  /\ \E t \in s.todo :
       /\ scans' = BecomesScan(s, [s EXCEPT !.todo = @ \ {t}, !.read = ThisScan(s)])
       /\ rows' = IF ThisScan(s)
                  THEN rows \cup {[target |-> t, gen |-> s.gen,
                                    removable |-> Removable(t, s.view)]}
                  ELSE rows
  /\ UNCHANGED <<hostVars, gen, scan, checked, plan, clean, stack, spins, report,
                 jobs, asks, decided, away, quit>>

(* The channel was closed.                                                 *)
OnScanned(s) ==
  /\ ~quit /\ s.read /\ s.todo = {}
  /\ scans' = scans \ {s}
  /\ scan' = (scan /\ ~ThisScan(s))
  /\ UNCHANGED <<hostVars, rows, gen, checked, plan, clean, stack, spins, report,
                 jobs, asks, decided, away, quit>>

(* Goroutines that were told to stop do not wait for a reader.             *)
Drops(s) ==
  /\ ~s.live /\ s.todo # {}
  /\ scans' = BecomesScan(s, [s EXCEPT !.todo = {}])
  /\ UNCHANGED <<hostVars, rows, gen, scan, checked, plan, clean, stack, spins,
                 report, jobs, asks, decided, away, quit>>

-----------------------------------------------------------------------------
(* Keys (handleKey). *)

Free == ~quit /\ ~away /\ stack = <<>>

(* toggleChecked: not on a disabled row.                                   *)
Toggle ==
  /\ Free
  /\ \E w \in rows :
       /\ w.removable
       /\ checked' = IF w.target \in checked THEN checked \ {w.target}
                     ELSE checked \cup {w.target}
  /\ UNCHANGED <<hostVars, scanVars, plan, clean, stack, spins, report, jobs, asks,
                 decided, away, quit>>

RefreshKey ==
  /\ Free /\ gen < MaxGen
  /\ StartScan
  /\ UNCHANGED <<hostVars, plan, clean, stack, spins, report, jobs, asks, decided,
                 away, quit>>

(* esc: the marks.                                                         *)
Back ==
  /\ Free /\ checked # {} /\ checked' = {}
  /\ UNCHANGED <<hostVars, scanVars, plan, clean, stack, spins, report, jobs, asks,
                 decided, away, quit>>

Chosen == {w \in rows : w.target \in checked}

(* Targets, PlanClean: none if one target is protected; docker comes last. *)
Plans(usages) ==
  {p \in SetToSeqs({w.target : w \in usages}) :
     /\ \A w \in usages : w.removable
     /\ \A k, l \in DOMAIN p : KindOf(p[k]) = "docker" => l <= k}

(* requestClean                                                            *)
RequestClean ==
  /\ Free /\ clean = NoClean
  /\ Chosen # {}
  /\ plan' \in Plans(Chosen)
  /\ stack' = Pushed(stack, "confirm")
  /\ UNCHANGED <<hostVars, scanVars, checked, clean, spins, report, jobs, asks,
                 decided, away, quit>>

(* y, n, enter on the confirmation (dialog.Confirm).                       *)
Decide ==
  /\ ~quit /\ ~away /\ TopOf(stack) = "confirm"
  /\ decided = {} \/ (Hasty /\ Cardinality(decided) < 2)
  /\ \E yes \in BOOLEAN : decided' = decided \cup {[yes |-> yes, n |-> Cardinality(decided)]}
  /\ UNCHANGED <<hostVars, scanVars, checked, plan, clean, stack, spins, report,
                 jobs, asks, away, quit>>

(* esc on a modal; a plan whose question is gone is dropped.               *)
EscModal ==
  /\ ~quit /\ ~away /\ stack # <<>>
  /\ decided = {} \/ Hasty
  /\ TopOf(stack) = "progress" => ~spins
  /\ stack' = Closed(stack)
  /\ plan' = IF stack' = <<>> THEN <<>> ELSE plan
  /\ UNCHANGED <<hostVars, scanVars, checked, clean, spins, report, jobs, asks,
                 decided, away, quit>>

LeaveTab ==
  /\ Free /\ decided = {}
  /\ away' = TRUE
  /\ scan' = FALSE /\ scans' = StopScan(scans)
  /\ UNCHANGED <<hostVars, rows, gen, checked, plan, clean, stack, spins, report,
                 jobs, asks, decided, quit>>

EnterTab ==
  /\ ~quit /\ away /\ gen < MaxGen
  /\ away' = FALSE
  /\ StartScan
  /\ UNCHANGED <<hostVars, plan, clean, stack, spins, report, jobs, asks, decided, quit>>

-----------------------------------------------------------------------------
(* The cleaning. *)

NeverReprotected(p, view) == FALSE

(* cleanview.Reprotected                                                   *)
Reprotected(p, view) ==
  \E k \in DOMAIN p : KindOf(p[k]) = "work" /\ view[BaseOf(p[k])] # 0

NewId == Cardinality({k \in 1 .. MaxCleans : \E j \in jobs : j.id = k}) + 1

(* diskclean.Start: todo, done and bad are the targets, ch the progress    *)
(* not yet read, saw what the last detection showed.                       *)
NewJob(p) ==
  [id |-> NewId, todo |-> p, busy |-> FALSE, done |-> <<>>, bad |-> <<>>, ch |-> <<>>,
   live |-> TRUE, over |-> FALSE, saw |-> seen]

(* onResult, startClean                                                    *)
OnDecided ==
  /\ ~quit
  /\ \E d \in decided :
       /\ \A e \in decided : d.n <= e.n
       /\ decided' = decided \ {d}
       /\ plan' = <<>>
       /\ IF d.yes /\ ~Reprotected(plan, seen)
          THEN /\ NewId <= MaxCleans
               /\ jobs' = jobs \cup {NewJob(plan)}
               /\ asks' = [asks EXCEPT ![NewId] = 1]
               /\ clean' = [NoClean EXCEPT !.job = NewId, !.items = plan,
                              !.marks = [k \in DOMAIN plan |-> "waiting"]]
               /\ stack' = Pushed(Closed(stack), "progress")
               /\ spins' = TRUE
          ELSE /\ stack' = Closed(stack)
               /\ UNCHANGED <<jobs, asks, clean, spins>>
  /\ UNCHANGED <<hostVars, scanVars, checked, report, away, quit>>

BecomesJob(j, k) == jobs' = (jobs \ {j}) \cup {k}

Told(j, good) == Append(j.ch, [label |-> LabelOf(Head(j.todo)), good |-> good])

(* Apply, removeTarget: the context is looked at before each directory;    *)
(* docker is asked after them all the same.                                *)
BeginsTarget(j) ==
  /\ ~j.over /\ ~j.busy /\ j.todo # <<>>
  /\ j.live \/ KindOf(Head(j.todo)) = "docker"
  /\ BecomesJob(j, [j EXCEPT !.busy = TRUE])
  /\ UNCHANGED <<hostVars, scanVars, checked, plan, clean, stack, spins, report,
                 asks, decided, away, quit>>

(* It is gone, or a call failed, with some of it gone or not; a directory  *)
(* is left in between as well when the run is cancelled (removeTree).      *)
Removed(j) ==
  [j EXCEPT !.busy = FALSE, !.ch = Told(j, TRUE), !.done = Append(@, Head(j.todo)),
     !.todo = Tail(@)]

(* A failure does not stop the rest.                                       *)
NotRemoved(j) ==
  [j EXCEPT !.busy = FALSE, !.ch = Told(j, FALSE), !.bad = Append(@, Head(j.todo)),
     !.todo = Tail(@)]

EndsTarget(j) ==
  /\ j.busy
  /\ \/ j.live /\ BecomesJob(j, Removed(j))
     \/ BecomesJob(j, NotRemoved(j))
  /\ UNCHANGED <<hostVars, scanVars, checked, plan, clean, stack, spins, report,
                 asks, decided, away, quit>>

(* Apply returns, the channel of the progress is closed, the end is sent.  *)
EndsApply(j) ==
  /\ ~j.over /\ ~j.busy
  /\ j.todo # <<>> => ~j.live /\ KindOf(Head(j.todo)) # "docker"
  /\ BecomesJob(j, [j EXCEPT !.over = TRUE])
  /\ UNCHANGED <<hostVars, scanVars, checked, plan, clean, stack, spins, report,
                 asks, decided, away, quit>>

SettledByEnd(c) == c.result
Settled(c) == c.closed /\ c.result

Count(c, what) == Cardinality({k \in DOMAIN c.marks : c.marks[k] = what})

(* finish: once both have come, the report, no marks, and a new scan.      *)
Finish(c) ==
  IF Settled(c)
  THEN /\ report' = [job |-> c.job, done |-> Count(c, "done"),
                     failed |-> Count(c, "failed"), pending |-> Count(c, "waiting")]
       /\ stack' = Pushed(stack, "progress") /\ spins' = FALSE
       /\ clean' = NoClean
       /\ StartScan
       /\ jobs' = {[j EXCEPT !.live = @ /\ j.id # c.job] : j \in jobs}
  ELSE /\ clean' = c
       /\ UNCHANGED <<report, stack, spins, scanVars, checked, jobs>>

(* cleanview.Mark: the first row of that name.                             *)
Mark(c, p) ==
  LET named == {k \in DOMAIN c.items : LabelOf(c.items[k]) = p.label}
  IN IF named = {} THEN c
     ELSE [c EXCEPT !.marks[CHOOSE k \in named : \A l \in named : k <= l] =
                       IF p.good THEN "done" ELSE "failed"]

(* onProgress: a target, or the end of the channel.  The next command      *)
(* waits on the channel of the cleaning that is on the screen now.         *)
OnProgress(j) ==
  /\ ~quit /\ asks[j.id] > 0 /\ j.ch # <<>>
  /\ asks' = IF clean = NoClean THEN [asks EXCEPT ![j.id] = @ - 1]
             ELSE [[asks EXCEPT ![j.id] = @ - 1] EXCEPT ![clean.job] = @ + 1]
  /\ jobs' = (jobs \ {j}) \cup {[j EXCEPT !.ch = Tail(@)]}
  /\ clean' = IF clean = NoClean THEN clean ELSE Mark(clean, Head(j.ch))
  /\ stack' = IF clean = NoClean THEN stack ELSE Pushed(stack, "progress")
  /\ UNCHANGED <<hostVars, scanVars, checked, plan, spins, report, decided, away, quit>>

OnClosed(j) ==
  /\ ~quit /\ asks[j.id] > 0 /\ j.over /\ j.ch = <<>>
  /\ asks' = [asks EXCEPT ![j.id] = @ - 1]
  /\ IF clean = NoClean THEN UNCHANGED <<scanVars, checked, clean, stack, spins, report, jobs>>
     ELSE Finish([clean EXCEPT !.closed = TRUE])
  /\ UNCHANGED <<hostVars, plan, decided, away, quit>>

(* onApplyDone: may come before the last progress.                         *)
OnApplyDone(j) ==
  /\ ~quit /\ j.over /\ clean # NoClean /\ ~clean.result
  /\ j.id = clean.job
  /\ Finish([clean EXCEPT !.result = TRUE])
  /\ UNCHANGED <<hostVars, plan, asks, decided, away, quit>>

(* ShutdownMsg: both are stopped.                                          *)
Shutdown ==
  /\ ~quit /\ quit' = TRUE
  /\ scan' = FALSE /\ scans' = StopScan(scans)
  /\ jobs' = {[j EXCEPT !.live = @ /\ j.id # clean.job] : j \in jobs}
  /\ clean' = NoClean
  /\ UNCHANGED <<hostVars, rows, gen, checked, plan, stack, spins, report, asks,
                 decided, away>>

-----------------------------------------------------------------------------
(* The host. *)

JobBegins ==
  /\ ~quit /\ begun < MaxWork
  /\ \E r \in Runner : host[r] = 0 /\ host' = [host EXCEPT ![r] = begun + 1]
  /\ begun' = begun + 1
  /\ UNCHANGED <<seen, scanVars, checked, plan, clean, stack, spins, report, jobs,
                 asks, decided, away, quit>>

JobEnds ==
  /\ ~quit
  /\ \E r \in Runner : host[r] # 0 /\ host' = [host EXCEPT ![r] = 0]
  /\ UNCHANGED <<begun, seen, scanVars, checked, plan, clean, stack, spins, report,
                 jobs, asks, decided, away, quit>>

Detect ==
  /\ ~quit /\ seen # host /\ seen' = host
  /\ UNCHANGED <<host, begun, scanVars, checked, plan, clean, stack, spins, report,
                 jobs, asks, decided, away, quit>>

-----------------------------------------------------------------------------
Keys == Toggle \/ RefreshKey \/ Back \/ RequestClean \/ Decide \/ EscModal
        \/ LeaveTab \/ EnterTab

ScanStep == \E s \in scans : OnUsage(s) \/ OnScanned(s) \/ Drops(s)

CleanStep == \E j \in jobs : BeginsTarget(j) \/ EndsTarget(j) \/ EndsApply(j)

Received == OnDecided \/ \E j \in jobs : OnProgress(j) \/ OnClosed(j) \/ OnApplyDone(j)

Next == Keys \/ ScanStep \/ CleanStep \/ Received \/ Shutdown
        \/ JobBegins \/ JobEnds \/ Detect

Spec == Init /\ [][Next]_vars

(* Goroutines go on, and messages of a program that is not ending arrive.  *)
FairSpec == Spec /\ WF_vars(ScanStep) /\ WF_vars(CleanStep) /\ WF_vars(Received)

-----------------------------------------------------------------------------
(* A cleaning never removes the work of a job that a detection had shown   *)
(* before the user's yes was handled (FR-31; the comment of Reprotected).  *)
SparesSeenJobs ==
  [][\A j \in jobs : j.busy /\ ~(\E k \in jobs' : k.id = j.id /\ k.busy) =>
       LET t == Head(j.todo)
       IN KindOf(t) = "work" /\ host[BaseOf(t)] # 0
            => j.saw[BaseOf(t)] # host[BaseOf(t)]]_vars

(* The numbers reported are those of the targets that are gone, that       *)
(* failed and that were not tried, in whatever order the end and the last  *)
(* progress came (the comment of Job.closed).                              *)
ReportTrue ==
  \A j \in jobs : j.id = report.job =>
    /\ report.done = Len(j.done)
    /\ report.failed = Len(j.bad)
    /\ report.pending = Len(j.todo)

(* No goroutine of a scan is left waiting for a reader that does not come. *)
ScannersEnd == (\E s \in scans : s.todo # {}) ~> (\A s \in scans : s.todo = {})

=============================================================================
