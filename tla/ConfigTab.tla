----------------------------- MODULE ConfigTab -----------------------------
(***************************************************************************)
(* Editing a runner's configuration (ui/page/config, config/edit,          *)
(* config/apply): choose a runner, an item, fill in a form, approve the    *)
(* diff, write the files with a backup, choose how the change is to reach  *)
(* the runner, and drain or restart it.                                    *)
(*                                                                         *)
(* File contents are numbers: 0 is "no such file", 1 and 2 are contents    *)
(* the host starts with, every change of a file makes a new one.  .path is *)
(* edited like .env, a runner group like the labels.                       *)
(*                                                                         *)
(* Modals and the picker answer a key with a command whose message comes   *)
(* back later; Repeated says which answers another key may overtake.       *)
(***************************************************************************)
EXTENDS Services, Overlay

CONSTANTS
  Kinds,        (* the items the user edits: a subset of Kind.             *)
  Repeated,     (* the answers whose key may be pressed again (key repeat, *)
                (* paste) before they arrive; the other keys are waited    *)
                (* for.                                                    *)
  Leaves,       (* the user may leave the runner or the tab while busy.    *)
  MaxChanges,   (* bound on the changes put up for approval.               *)
  Nobody        (* no runner chosen: its files are those without a runner  *)
                (* directory, in the working directory of the tool.        *)

FileKind == {"env", "dropin"}
Kind     == FileKind \cup {"copy", "labels", "self"}

(* What an instance assumes of them.                                      *)
ConfigTabAssumption ==
  /\ Kinds \subseteq Kind
  /\ Repeated \subseteq {"picked", "form", "decided", "chosen"}
  /\ Leaves \in BOOLEAN
  /\ MaxChanges \in Nat
  /\ Nobody \notin Runners

SomeRunner == Runners \cup {Nobody}

VARIABLES
  front,      (* the Config tab is in front.                               *)
  stack,      (* page.Overlay.                                             *)
  target,     (* Model.target.                                             *)
  form,       (* edit.Values: the item, and whether it was submitted.      *)
  pending,    (* Model.pending: the change of a runner's configuration.    *)
  pendingSet, (* Model.pendingSet.                                         *)
  self,       (* Model.self.                                               *)
  busy,       (* Model.busy.                                               *)
  changes,    (* changes put up for approval so far.                       *)
  file, bak,  (* the files and their .bak: content by kind and runner.     *)
  daemon,     (* drop-ins systemd has read.                                *)
  loaded,     (* contents the listener was started with.                   *)
  fetches,    (* goroutines that fetch the labels of a runner.             *)
  writes,     (* goroutines in edit.Commit or appconfig.Save.              *)
  applies,    (* goroutines in apply.RunAll.                               *)
  msgs        (* messages on their way to the page.                        *)

formVars  == <<front, stack, target, form, pending, pendingSet, self, busy,
               changes>>
diskVars  == <<file, bak, daemon, loaded>>
jobVars   == <<fetches, writes, applies>>
vars == <<hostVars, formVars, diskVars, jobVars, msgs>>

NoChange == [id |-> 0, kind |-> "none", content |-> 0, files |-> {}]
NoForm   == [kind |-> "none", sent |-> FALSE]

-----------------------------------------------------------------------------
(* Changes (config/edit). *)

FileOf(kind) == IF kind = "dropin" THEN "dropin" ELSE "env"

(* Change.FileBacked *)
FileBacked(c) == c.kind \in {"env", "dropin", "copy"}

(* BuildCopy: runners that hold that content already are left out. *)
CopyTargets(chosen) == {r \in chosen : file["env"][r] # file["env"][target]}

(* The drop-in of a runner without unit has no place. *)
FilesOf(kind) ==
  CASE kind = "env"    -> {{target}}
    [] kind = "dropin" -> {{target} \cap HasUnit}
    [] kind = "copy"   -> {CopyTargets(s) : s \in SUBSET (Runners \ {target})}
    [] kind = "labels" -> {{}}
    [] OTHER           -> {}

ContentOf(kind) == CASE kind \in FileKind -> changes + 3
                     [] kind = "copy"     -> file["env"][target]
                     [] OTHER             -> 0

(* Values.Build: nothing for a file change that has no file to write. *)
Build(kind) ==
  {[id |-> changes + 1, kind |-> kind, content |-> ContentOf(kind),
    files |-> fs] : fs \in {f \in FilesOf(kind) :
                              f # {} \/ kind \notin {"env", "dropin", "copy"}}}

ApplyTargetsSource(c) == {target} \cap HasUnit

(* Change.ApplyTargets: of a copy its targets, never its source; runners   *)
(* without unit cannot be restarted.                                       *)
ApplyTargets(c) == (IF c.kind = "copy" THEN c.files ELSE {target}) \cap HasUnit

-----------------------------------------------------------------------------
(* Keys. *)

Answers == {m \in msgs : m.type \in {"picked", "form", "decided", "chosen"}}

Top == TopOf(stack)

(* Two answers on their way are told apart by a number. *)
Free == CHOOSE n \in 1..2 : \A m \in Answers : m.key # n

Answer(m) ==
  /\ Cardinality(Answers) < 2
  /\ msgs' = msgs \cup {m}
  /\ UNCHANGED <<hostVars, diskVars, jobVars>>

Press == front /\ \A m \in Answers : m.type \in Repeated

NothingElse == UNCHANGED <<hostVars, diskVars, msgs>>

(* forwardTo, Model.picker: a runner or the tool itself. *)
PickKey(who) ==
  /\ Press /\ stack = <<>> /\ target = Nobody
  /\ Answer([type |-> "picked", key |-> Free, who |-> who])
  /\ UNCHANGED formVars

(* openForm: the form gets the current values. *)
OpenForm(kind) ==
  /\ form' = [kind |-> kind, sent |-> FALSE]
  /\ stack' = Pushed(stack, "form")

MaySelectAlways == TRUE

(* Nothing is opened while a job is in flight. *)
MaySelect == ~busy

(* openSelected, fetchFor; reading the file may fail. *)
SelectItem(kind) ==
  /\ Press /\ stack = <<>> /\ target # Nobody
  /\ kind # "self" /\ MaySelect
  /\ NothingElse
  /\ UNCHANGED <<front, target, pending, pendingSet, self, changes, writes,
                 applies>>
  /\ IF kind = "labels"
     THEN /\ busy' = TRUE
          /\ fetches' = fetches \cup {target}
          /\ UNCHANGED <<stack, form>>
     ELSE /\ OpenForm(kind)
          /\ UNCHANGED <<busy, fetches>>

(* dialog.Form: submitted once, or esc. *)
FormKey(yes) ==
  /\ Press /\ Top = "form"
  /\ yes => ~form.sent
  /\ form' = [form EXCEPT !.sent = @ \/ yes]
  /\ Answer([type |-> "form", key |-> Free, yes |-> yes])
  /\ UNCHANGED <<front, stack, target, pending, pendingSet, self, busy,
                 changes>>

(* dialog.DiffApproval *)
DecideKey(yes) ==
  /\ Press /\ Top = "diff"
  /\ Answer([type |-> "decided", key |-> Free, yes |-> yes])
  /\ UNCHANGED formVars

Methods == {"drain", "force", "none"}

(* applyModal: enter on a method; esc is "none", the modal stays. *)
ApplyKey(method) ==
  /\ Press /\ Top = "apply"
  /\ Answer([type |-> "chosen", key |-> Free, method |-> method])
  /\ UNCHANGED formVars

ApplyEsc == ApplyKey("none")

MayLeave == stack = <<>> /\ (Leaves \/ ~busy)

(* goBack with a runner chosen *)
GoBack ==
  /\ Press /\ MayLeave /\ target # Nobody
  /\ target' = Nobody
  /\ NothingElse
  /\ UNCHANGED <<front, stack, form, pending, pendingSet, self, busy, changes,
                 jobVars>>

(* goBack without one, or a global key: another tab comes to the front. *)
LeaveTab ==
  /\ Press /\ MayLeave
  /\ front' = FALSE
  /\ NothingElse
  /\ UNCHANGED <<stack, target, form, pending, pendingSet, self, busy,
                 changes, jobVars>>

EnterTab ==
  /\ ~front /\ front' = TRUE
  /\ NothingElse
  /\ UNCHANGED <<stack, target, form, pending, pendingSet, self, busy,
                 changes, jobVars>>

(* e in the Runners tab: page.EditConfigMsg, setTarget. *)
EditConfig(r) ==
  /\ ~front /\ front' = TRUE
  /\ target' = r
  /\ self' = FALSE
  /\ NothingElse
  /\ UNCHANGED <<stack, form, pending, pendingSet, busy, changes, jobVars>>

Keys ==
  \/ \E r \in Runners : PickKey(r) \/ EditConfig(r)
  \/ "self" \in Kinds /\ PickKey(Nobody)
  \/ \E k \in Kinds : SelectItem(k)
  \/ \E yes \in BOOLEAN : FormKey(yes) \/ DecideKey(yes)
  \/ \E how \in Methods : ApplyKey(how)
  \/ ApplyEsc \/ GoBack \/ LeaveTab \/ EnterTab

-----------------------------------------------------------------------------
(* Messages. *)

(* onPicked: setTarget, or openSelfForm. *)
OnPicked(m) ==
  /\ m.type = "picked"
  /\ msgs' = msgs \ {m}
  /\ UNCHANGED <<hostVars, diskVars, jobVars, front, pending, pendingSet,
                 busy, changes>>
  /\ \/ /\ m.who \in Runners
        /\ target' = m.who
        /\ self' = FALSE
        /\ UNCHANGED <<stack, form>>
     \/ /\ m.who = Nobody
        /\ self' = TRUE
        /\ OpenForm("self")
        /\ UNCHANGED target

OnLoadedDropFirst(m) ==
  /\ m.type = "loaded"
  /\ msgs' = msgs \ {m}
  /\ busy' = (busy /\ m.of # target)
  /\ UNCHANGED <<hostVars, diskVars, jobVars, front, target, pending,
                 pendingSet, self, changes>>
  /\ IF m.ok /\ m.of = target THEN OpenForm("labels")
                              ELSE UNCHANGED <<stack, form>>

(* onLoaded: the labels of a runner left meanwhile are dropped. *)
OnLoaded(m) ==
  /\ m.type = "loaded"
  /\ msgs' = msgs \ {m}
  /\ busy' = FALSE
  /\ UNCHANGED <<hostVars, diskVars, jobVars, front, target, pending,
                 pendingSet, self, changes>>
  /\ IF m.ok /\ m.of = target THEN OpenForm("labels")
                              ELSE UNCHANGED <<stack, form>>

(* onForm, approve, saveSelf: esc, nothing changed or no change that can   *)
(* be built closes the form; otherwise the diff takes its place.           *)
OnForm(m) ==
  /\ m.type = "form"
  /\ msgs' = msgs \ {m}
  /\ UNCHANGED <<hostVars, diskVars, jobVars, front, target, form, self, busy>>
  /\ \/ /\ stack' = Closed(stack)
        /\ UNCHANGED <<pending, pendingSet, changes>>
     \/ /\ m.yes /\ changes < MaxChanges
        /\ IF self THEN UNCHANGED pending ELSE pending' \in Build(form.kind)
        /\ pendingSet' = TRUE
        /\ changes' = changes + 1
        /\ stack' = Pushed(Closed(stack), "diff")

AcceptedTwice == ~busy

(* A decision is taken once, and not while a job is in flight. *)
Accepted == pendingSet /\ ~busy

(* The tool's own configuration (Model.pendingSelf) is not a pending change. *)
SelfChange == [NoChange EXCEPT !.id = changes, !.kind = "self"]

(* edit.Commit of a change *)
Write(c) == [id |-> c.id, kind |-> c.kind, content |-> c.content,
             todo |-> c.files, at |-> Nobody, stage |-> "backup"]

(* onApproved, commitSelf: one modal is closed in any case. *)
OnDecided(m) ==
  /\ m.type = "decided"
  /\ msgs' = msgs \ {m}
  /\ stack' = Closed(stack)
  /\ UNCHANGED <<hostVars, diskVars, fetches, applies, front, target, form,
                 changes>>
  /\ IF ~Accepted
     THEN UNCHANGED <<pending, pendingSet, self, busy, writes>>
     ELSE /\ pendingSet' = FALSE
          /\ self' = FALSE
          /\ IF m.yes
             THEN /\ busy' = TRUE
                  /\ writes' = writes \cup
                       {Write(IF self THEN SelfChange ELSE pending)}
                  /\ UNCHANGED pending
             ELSE /\ pending' = NoChange
                  /\ UNCHANGED <<busy, writes>>

(* onDone: a write that succeeded is followed by the choice of a method. *)
OnDone(m) ==
  /\ m.type = "done"
  /\ msgs' = msgs \ {m}
  /\ busy' = FALSE
  /\ UNCHANGED <<hostVars, diskVars, jobVars, front, target, form, pendingSet,
                 self, changes>>
  /\ \/ ~m.ok /\ UNCHANGED <<stack, pending>>
     \/ /\ m.ok /\ FileBacked(pending) /\ ApplyTargets(pending) # {}
        /\ stack' = Pushed(stack, "apply")
        /\ UNCHANGED pending
     \/ /\ m.ok /\ ~(FileBacked(pending) /\ ApplyTargets(pending) # {})
        /\ pending' = NoChange
        /\ UNCHANGED stack

(* onApplyChosen: pending and the target as they are by now. *)
OnChosen(m) ==
  /\ m.type = "chosen"
  /\ msgs' = msgs \ {m}
  /\ stack' = Closed(stack)
  /\ pending' = NoChange
  /\ busy' = TRUE
  /\ applies' = applies \cup
       {[change |-> pending, method |-> m.method, key |-> m.key,
         todo |-> ApplyTargets(pending), done |-> {}, at |-> Nobody,
         stage |-> "next", after |-> 0]}
  /\ UNCHANGED <<hostVars, diskVars, fetches, writes, front, target, form,
                 pendingSet, self, changes>>

Arrivals == \E m \in msgs : \/ OnPicked(m) \/ OnLoaded(m) \/ OnForm(m)
                            \/ OnDecided(m) \/ OnDone(m) \/ OnChosen(m)

-----------------------------------------------------------------------------
(* Goroutines: the labels, the write. *)

FetchEnds(r) ==
  /\ fetches' = fetches \ {r}
  /\ \E ok \in BOOLEAN :
       msgs' = msgs \cup {[type |-> "loaded", of |-> r, ok |-> ok]}
  /\ UNCHANGED <<hostVars, formVars, diskVars, writes, applies>>

(* doneMsg, with what it is about. *)
Done(what, id, ok) ==
  [type |-> "done", what |-> what, id |-> id, ok |-> ok, method |-> "none",
   change |-> NoChange, failed |-> "none", runner |-> Nobody, done |-> {}]

WriteGoesOn(w, v) == writes' = (writes \ {w}) \cup {v} /\ UNCHANGED msgs

WriteEnds(w, ok) ==
  /\ writes' = writes \ {w}
  /\ msgs' = msgs \cup {Done("write", w.id, ok)}

(* backupIfExists: a file that is not there yet needs no backup. *)
Backup(w) ==
  /\ w.stage = "backup"
  /\ \E r \in w.todo :
       LET k == FileOf(w.kind) IN
       \/ /\ bak' = IF file[k][r] = 0 THEN bak
                                      ELSE [bak EXCEPT ![k][r] = file[k][r]]
          /\ WriteGoesOn(w, [w EXCEPT !.at = r, !.stage = "save"])
       \/ WriteEnds(w, FALSE) /\ UNCHANGED bak
  /\ UNCHANGED file

(* SaveEnv, SaveDropIn: replaced as a whole or not at all. *)
Save(w) ==
  /\ w.stage = "save"
  /\ UNCHANGED bak
  /\ \/ /\ WriteEnds(w, FALSE) /\ UNCHANGED file
     \/ /\ file' = [file EXCEPT ![FileOf(w.kind)][w.at] = w.content]
        /\ IF w.todo = {w.at}
           THEN WriteEnds(w, TRUE)
           ELSE WriteGoesOn(w, [w EXCEPT !.todo = @ \ {w.at}, !.stage = "backup"])

(* commitAPI, appconfig.Save *)
Commit(w) ==
  /\ w.todo = {}
  /\ \E ok \in BOOLEAN : WriteEnds(w, ok)
  /\ UNCHANGED <<file, bak>>

Writing ==
  /\ \E w \in writes : Backup(w) \/ Save(w) \/ Commit(w)
  /\ UNCHANGED <<hostVars, formVars, daemon, loaded, fetches, applies>>

-----------------------------------------------------------------------------
(* Goroutine: apply.RunAll. *)

ApplyGoesOn(a, b) == applies' = (applies \ {a}) \cup {b} /\ UNCHANGED msgs

ApplyDone(a, ok, failed) ==
  [Done("apply", a.key, ok) EXCEPT
     !.method = a.method, !.change = a.change, !.failed = failed,
     !.runner = a.at, !.done = a.done]

(* The first failure ends RunAll: the other runners are left alone. *)
ApplyFails(a, failed) ==
  /\ applies' = applies \ {a}
  /\ msgs' = msgs \cup {ApplyDone(a, FALSE, failed)}

ApplyStage(a, stage) == ApplyGoesOn(a, [a EXCEPT !.stage = stage])

NextRunner(a) ==
  ApplyGoesOn(a, [a EXCEPT !.todo = @ \ {a.at}, !.done = @ \cup {a.at},
                           !.at = Nobody, !.stage = "next"])

(* RunAll, Run: the next runner, or the end. *)
RunNext(a) ==
  /\ a.stage = "next"
  /\ UNCHANGED <<hostVars, daemon>>
  /\ \/ /\ a.todo = {}
        /\ applies' = applies \ {a}
        /\ msgs' = msgs \cup {ApplyDone(a, TRUE, "none")}
     \/ \E r \in a.todo :
          ApplyGoesOn(a, [a EXCEPT !.at = r, !.stage = "reload"])

NeedsReloadUnlessNone(a) == a.change.kind = "dropin" /\ a.method # "none"

(* Also for "none": the next start must find the new drop-in. *)
NeedsReload(a) == a.change.kind = "dropin"

(* svc.DaemonReload: systemd reads the drop-ins of all units. *)
Reload(a) ==
  /\ a.stage = "reload"
  /\ UNCHANGED hostVars
  /\ \/ NeedsReload(a) /\ ApplyFails(a, "reload") /\ UNCHANGED daemon
     \/ /\ daemon' = IF NeedsReload(a) THEN file["dropin"] ELSE daemon
        /\ CASE a.method = "none"  -> NextRunner(a)
             [] a.method = "force" -> ApplyStage(a, "restart")
             [] OTHER              -> ApplyStage(a, "scan")

(* svc.Drain: one round; without context to cancel it goes on until no job *)
(* is seen or the processes cannot be read.                                *)
Scan(a) ==
  /\ a.stage = "scan"
  /\ UNCHANGED <<hostVars, daemon>>
  /\ \/ ApplyFails(a, "drain")
     \/ /\ worker[a.at] = 0
        /\ ApplyGoesOn(a, [a EXCEPT !.stage = "stop", !.after = jobs])
     \/ worker[a.at] # 0 /\ ApplyStage(a, "wait")

Interval(a) ==
  /\ a.stage = "wait"
  /\ UNCHANGED <<hostVars, daemon>>
  /\ ApplyStage(a, "scan")

(* systemctl cannot be started, or hands its verb to systemd. *)
Systemctl(a, verb, by, next, failed) ==
  /\ UNCHANGED daemon
  /\ \/ UNCHANGED hostVars /\ ApplyFails(a, failed)
     \/ Submit(a.at, verb, by, a.after) /\ ApplyStage(a, next)

Stop(a)    == a.stage = "stop"    /\ Systemctl(a, "stop", "drain", "stopping",
                                               "drain")
Start(a)   == a.stage = "start"   /\ Systemctl(a, "start", "user", "finish",
                                               "start")
Restart(a) == a.stage = "restart" /\ Systemctl(a, "restart", "user", "finish",
                                               "start")

(* systemctl returns: carried out, or failed or given up after 30 s. *)
Return(a) ==
  /\ a.stage \in {"stopping", "finish"}
  /\ UNCHANGED <<hostVars, daemon>>
  /\ \/ /\ request[a.at].verb = "none"
        /\ IF a.stage = "stopping" THEN ApplyStage(a, "start")
                                   ELSE NextRunner(a)
     \/ ApplyFails(a, IF a.stage = "stopping" THEN "drain" ELSE "start")

Applying ==
  /\ \E a \in applies : \/ RunNext(a) \/ Reload(a) \/ Scan(a) \/ Interval(a)
                        \/ Stop(a) \/ Start(a) \/ Restart(a) \/ Return(a)
  /\ UNCHANGED <<formVars, file, bak, loaded, fetches, writes>>

Goroutines == (\E r \in fetches : FetchEnds(r)) \/ Writing \/ Applying

-----------------------------------------------------------------------------
(* A listener that is started reads .env; its unit is what systemd has     *)
(* read.                                                                   *)
Started(r) ==
  up'[r] /\ (up[r] => request[r].verb = "restart" /\ request'[r] = NoRequest)

HostStep ==
  /\ Environment
  /\ loaded' = [r \in Runners |->
                  IF Started(r) THEN [env |-> file["env"][r],
                                      dropin |-> daemon[r]]
                                ELSE loaded[r]]
  /\ UNCHANGED <<formVars, file, bak, daemon, jobVars, msgs>>

(* Model.New, setState: the wizard of a first run opens by itself. *)
Init ==
  /\ HostInit
  /\ target = Nobody
  /\ \/ front = FALSE /\ stack = <<>> /\ self = FALSE /\ form = NoForm
     \/ /\ "self" \in Kinds
        /\ front = TRUE /\ stack = <<"form">> /\ self = TRUE
        /\ form = [NoForm EXCEPT !.kind = "self"]
  /\ pending = NoChange /\ pendingSet = FALSE
  /\ busy = FALSE
  /\ changes = 0
  /\ file \in {[env |-> e, dropin |-> [r \in SomeRunner |-> 0]] :
                 e \in {f \in [SomeRunner -> 0..2] :
                          \A r \in SomeRunner : f[r] = 0 <=> r = Nobody}}
  /\ bak = [k \in FileKind |-> [r \in SomeRunner |-> 0]]
  /\ daemon = file["dropin"]
  /\ loaded = [r \in Runners |-> [env |-> file["env"][r], dropin |-> 0]]
  /\ fetches = {} /\ writes = {} /\ applies = {} /\ msgs = {}

Next == Keys \/ Arrivals \/ Goroutines \/ HostStep

Spec == Init /\ [][Next]_vars

Results == \E m \in msgs : OnLoaded(m) \/ OnDone(m)

(* Goroutines go on, what they send is handled whatever else arrives, jobs *)
(* end. *)
Fairness == WF_vars(Goroutines) /\ WF_vars(Results) /\ HostFairness

-----------------------------------------------------------------------------
(* Properties. *)

(* One change is written once: a write about to make its backup would      *)
(* otherwise copy its own content over the .bak, the only copy of what     *)
(* was there before.                                                       *)
BackupKeepsPrevious ==
  \A w \in writes : w.stage = "backup" =>
    \A r \in w.todo : file[FileOf(w.kind)][r] # w.content

(* "Busy" stands for exactly one job, in flight or with its result on its  *)
(* way: two jobs never run side by side and the tab never stays busy       *)
(* without one.                                                            *)
BusyIsOneJob ==
  LET Returned == {m \in msgs : m.type \in {"loaded", "done"}}
      Count == Cardinality(fetches) + Cardinality(writes)
                 + Cardinality(applies) + Cardinality(Returned)
  IN Count = IF busy THEN 1 ELSE 0

(* Only the runners a change was written to are restarted for it, and their *)
(* files still hold it: of a copy its targets, never the source whose job   *)
(* has nothing to do with it.                                              *)
RestartsOnlyWritten ==
  \A a \in applies : \A r \in a.todo \cup ({a.at} \ {Nobody}) :
    /\ r \in a.change.files
    /\ file[FileOf(a.change.kind)][r] = a.change.content

(* When applying reports success, systemd has read every drop-in, and a    *)
(* runner drained or restarted runs with the files as they are.            *)
AppliedIsLoaded ==
  \A m \in msgs : (m.type = "done" /\ m.what = "apply" /\ m.ok) =>
    /\ m.change.kind = "dropin" => daemon = file["dropin"]
    /\ m.method # "none" =>
         \A r \in m.done :
           loaded[r] = [env |-> file["env"][r], dropin |-> daemon[r]]

(* Whatever fails and wherever the user goes meanwhile, the tab does not   *)
(* stay busy (jobs of a runner to be drained end).                         *)
BusyEnds == busy ~> ~busy

(* config/apply: a drain that stops a listener goes on to start it again;  *)
(* one that fails leaves it running.                                       *)
StoppedOnlyToStart ==
  [][\A r \in Runners : (up[r] /\ ~up'[r]) =>
       \E a \in applies : a.at = r /\ a.stage = "stopping"]_vars

=============================================================================
