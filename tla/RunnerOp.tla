------------------------------ MODULE RunnerOp ------------------------------
(***************************************************************************)
(* Service operations on runners as the Runners and Jobs tabs offer them   *)
(* (ui/page/runnerop): start, stop, kill, restart, enable/disable and      *)
(* drain, for a selection of runners or from the detail screen, with the   *)
(* confirmation dialog, the waiting screen of a drain, its cancellation    *)
(* and the report.  The commands run in goroutines (internal/svc) against  *)
(* the host of module Services.                                            *)
(*                                                                         *)
(* A modal answers a key with a command, whose message reaches the page    *)
(* some steps later ("chosen", "decided", "cancel"); the keys pressed in   *)
(* the meantime still go to the modal on top.  FastTyping says whether the *)
(* user may press them that fast.                                          *)
(***************************************************************************)
EXTENDS Services, Overlay

CONSTANTS
  Ops,          (* operations offered: a subset of Operation.              *)
  Selections,   (* what may be marked in the list: sequences of runners.   *)
  Root,         (* capability: the tool runs as root.                      *)
  Systemd,      (* capability: systemctl is there.                         *)
  Unmanaged,    (* runners run.sh started, or of unknown management.       *)
  AtBoot,       (* units enabled when the tool starts.                     *)
  FastTyping,   (* keys may overtake the answer to an earlier key.         *)
  MaxKeys       (* bound on the keys pressed.                              *)

Operation == {"start", "stop", "kill", "restart", "enable", "drain"}

ASSUME RunnerOpAssumption ==
  /\ Ops \subseteq Operation
  /\ {Root, Systemd, FastTyping} \subseteq BOOLEAN
  /\ Unmanaged \subseteq Runners /\ AtBoot \subseteq Runners
  /\ MaxKeys \in Nat

VARIABLES
  enabled,   (* units enabled on the host.                                 *)
  seen,      (* runners as the last detection saw them (StateMsg.Result).  *)
  keys,      (* keys pressed so far.                                       *)
  stack,     (* page.Overlay: the modals, the one on top last.             *)
  shown,     (* the runner of the detail screen.                           *)
  pending,   (* Model.pending, with the last key before the dialog opened. *)
  drain,     (* Model.drain, seq 0 for nil, with what it has finished.     *)
  seq,       (* Model.seq.                                                 *)
  note,      (* Model.note.                                                *)
  report,    (* Model.report: the last result shown.                       *)
  waits,     (* goroutines in Drainer.Drain.                               *)
  runs,      (* goroutines in Model.run.                                   *)
  msgs       (* messages on their way to the page.                         *)

pageVars == <<stack, shown, pending, drain, seq, note, report>>
vars == <<hostVars, enabled, seen, keys, pageVars, waits, runs, msgs>>

NoPending == [op |-> "none", targets |-> <<>>, since |-> 0]
NoDrain   == [seq |-> 0, targets |-> <<>>, index |-> 0, ok |-> 0, failed |-> 0]
NoNote    == [skipped |-> 0, canceled |-> FALSE]
NoReport  == [op |-> "none", ok |-> 0, failed |-> 0, skipped |-> 0,
              canceled |-> FALSE]

-----------------------------------------------------------------------------
(* What may be done with a runner. *)

(* svc.CanControl *)
CanControl(op, r) ==
  /\ op \in {"start", "stop", "kill", "restart"} => Root
  /\ Systemd
  /\ r \in Unmanaged => op = "kill"

(* runnerop.hasNoCommand: no process seen and no unit. *)
HasProcess(t) == t.up \/ t.job # 0

HasCommand(op, t) == t.id \in HasUnit \/ (op = "kill" /\ HasProcess(t))

Allowed(op, t) == CanControl(op, t.id) /\ HasCommand(op, t)

NeedsConfirmToKill(op) == op = "kill"

NeedsConfirm(op) == op \in {"stop", "kill", "restart"}

-----------------------------------------------------------------------------
Top == TopOf(stack)

-----------------------------------------------------------------------------
(* Drain (runnerop/drain.go). *)

Wait(d) == [seq |-> d.seq, index |-> d.index, id |-> d.targets[d.index].id,
            stage |-> "scan", live |-> TRUE, after |-> 0]

(* openDrain: shows the waiting screen and starts the goroutine. *)
OpenDrain(d) ==
  /\ drain' = d
  /\ stack' = Pushed(stack, "drain")
  /\ waits' = waits \cup {Wait(d)}

StartDrain(targets) ==
  /\ seq' = seq + 1
  /\ OpenDrain([seq |-> seq + 1, targets |-> targets, index |-> 1,
                ok |-> 0, failed |-> 0])

(* DoneMsg of an operation, told apart by the key or drain it belongs to.  *)
Done(op, id, ok, failed) ==
  [type |-> "done", op |-> op, id |-> id, ok |-> ok, failed |-> failed]

(* finishDrain: closes the waiting screen (the modal on top). *)
FinishDrain(d) ==
  /\ drain' = NoDrain
  /\ stack' = Closed(stack)

DrainDone(d) == Done("drain", d.seq, d.ok, d.failed)

ExpectedStepOfFirst(m) == drain.seq = m.seq /\ m.index = 1

(* The results of another drain, or of one given up, are dropped. *)
ExpectedStep(m) == drain.seq = m.seq /\ drain.index = m.index

(* stepDrain *)
OnStep(m) ==
  /\ m.type = "step"
  /\ UNCHANGED <<hostVars, enabled, seen, keys, shown, pending, seq, note,
                 report, runs>>
  /\ IF ~ExpectedStep(m)
     THEN /\ msgs' = msgs \ {m}
          /\ UNCHANGED <<stack, drain, waits>>
     ELSE LET d == [drain EXCEPT !.index = @ + 1,
                                 !.ok = @ + (IF m.ok THEN 1 ELSE 0),
                                 !.failed = @ + (IF m.ok THEN 0 ELSE 1)]
          IN IF d.index <= Len(d.targets)
             THEN /\ OpenDrain(d)
                  /\ msgs' = msgs \ {m}
             ELSE /\ FinishDrain(d)
                  /\ msgs' = (msgs \ {m}) \cup {DrainDone(d)}
                  /\ UNCHANGED waits

CancelledNothing == waits

(* The context of the wait in progress is cancelled. *)
Cancelled ==
  {[w EXCEPT !.live =
      @ /\ ~(w.seq = drain.seq /\ w.index = drain.index)] : w \in waits}

(* cancelDrain: the targets left are given up as well. *)
OnCancel(m) ==
  /\ m.type = "cancel"
  /\ UNCHANGED <<hostVars, enabled, seen, keys, shown, pending, seq, report,
                 runs>>
  /\ IF drain.seq = 0
     THEN /\ msgs' = msgs \ {m}
          /\ UNCHANGED <<stack, drain, waits, note>>
     ELSE /\ waits' = Cancelled
          /\ note' = [note EXCEPT !.canceled = TRUE]
          /\ FinishDrain(drain)
          /\ msgs' = (msgs \ {m}) \cup {DrainDone(drain)}

-----------------------------------------------------------------------------
(* Starting an operation (Model.Start). *)

Run(key, op, targets, since, approved) ==
  [id |-> key, op |-> op, targets |-> targets, at |-> 1, phase |-> "issue",
   ok |-> 0, failed |-> 0, since |-> since, approved |-> approved]

(* Without a target that may be operated on only a report is made; a drain *)
(* starts waiting, a harmless operation runs, the others ask first.        *)
Start(op, targets, key) ==
  LET allowed == SelectSeq(targets, LAMBDA t : Allowed(op, t)) IN
  /\ note' = [skipped |-> Len(targets) - Len(allowed), canceled |-> FALSE]
  /\ IF allowed = <<>>
     THEN /\ report' = [NoReport EXCEPT !.op = op]
          /\ UNCHANGED <<stack, pending, drain, seq, waits, runs>>
     ELSE /\ UNCHANGED report
          /\ \/ /\ op = "drain"
                /\ StartDrain(allowed)
                /\ UNCHANGED <<pending, runs>>
             \/ /\ op # "drain" /\ ~NeedsConfirm(op)
                /\ runs' = runs \cup {Run(key, op, allowed, 0, 0)}
                /\ UNCHANGED <<stack, pending, drain, seq, waits>>
             \/ /\ NeedsConfirm(op)
                /\ pending' = [op |-> op, targets |-> allowed, since |-> keys']
                /\ stack' = Pushed(stack, "confirm")
                /\ UNCHANGED <<drain, seq, waits, runs>>

(* Model.confirmed: one modal is closed whatever was decided. *)
OnDecided(m) ==
  /\ m.type = "decided"
  /\ msgs' = msgs \ {m}
  /\ pending' = NoPending
  /\ stack' = Closed(stack)
  /\ runs' = IF m.yes /\ pending.targets # <<>>
             THEN runs \cup {Run(m.key, pending.op, pending.targets,
                                 pending.since, m.key)}
             ELSE runs
  /\ UNCHANGED <<hostVars, enabled, seen, keys, shown, drain, seq, note,
                 report, waits>>

(* Model.Result of the detail screen. *)
OnChosen(m) ==
  /\ m.type = "chosen"
  /\ msgs' = msgs \ {m}
  /\ UNCHANGED <<hostVars, enabled, seen, keys, shown>>
  /\ Start(m.op, <<m.target>>, m.key)

(* Model.Update, DoneMsg *)
OnDone(m) ==
  /\ m.type = "done"
  /\ msgs' = msgs \ {m}
  /\ report' = [op |-> m.op, ok |-> m.ok, failed |-> m.failed,
                skipped |-> note.skipped, canceled |-> note.canceled]
  /\ note' = NoNote
  /\ UNCHANGED <<hostVars, enabled, seen, keys, stack, shown, pending, drain,
                 seq, waits, runs>>

-----------------------------------------------------------------------------
(* Keys. *)

Press ==
  /\ keys < MaxKeys
  /\ FastTyping \/ \A m \in msgs : m.type \notin {"chosen", "decided", "cancel"}
  /\ keys' = keys + 1

HostUnchanged == UNCHANGED <<hostVars, enabled, seen>>

(* Model.HandleKey in the list, on the marked runners. *)
ListKey(op, sel) ==
  /\ Press /\ stack = <<>>
  /\ HostUnchanged
  /\ UNCHANGED <<shown, msgs>>
  /\ Start(op, [i \in 1..Len(sel) |-> seen[sel[i]]], keys')

(* enter in the list *)
OpenDetail(r) ==
  /\ Press /\ stack = <<>>
  /\ stack' = Pushed(stack, "detail")
  /\ shown' = seen[r]
  /\ HostUnchanged
  /\ UNCHANGED <<pending, drain, seq, note, report, waits, runs, msgs>>

(* The modal on top answers a key by sending a message. *)
Answer(kind, m) ==
  /\ Press /\ Top = kind
  /\ msgs' = msgs \cup {m}
  /\ HostUnchanged
  /\ UNCHANGED <<pageVars, waits, runs>>

(* organism.ChoiceList of the detail screen: enabled entries only. *)
ChooseKey(op) ==
  /\ CanControl(op, shown.id)
  /\ Answer("detail",
            [type |-> "chosen", key |-> keys + 1, op |-> op, target |-> shown])

(* dialog.Confirm: y, or n, esc, enter. *)
DecideKey(yes) ==
  Answer("confirm", [type |-> "decided", key |-> keys + 1, yes |-> yes])

(* dialog.DrainWaiter: esc *)
CancelKey == Answer("drain", [type |-> "cancel", key |-> keys + 1])

(* Overlay.Update: esc on a modal that does not interpret it itself. *)
BackKey ==
  /\ Press /\ Top = "detail"
  /\ stack' = Closed(stack)
  /\ HostUnchanged
  /\ UNCHANGED <<shown, pending, drain, seq, note, report, waits, runs, msgs>>

Keys ==
  \/ \E op \in Ops : \/ \E sel \in Selections : ListKey(op, sel)
                     \/ ChooseKey(op)
  \/ \E r \in Runners : OpenDetail(r)
  \/ \E yes \in BOOLEAN : DecideKey(yes)
  \/ CancelKey
  \/ BackKey

-----------------------------------------------------------------------------
(* The goroutine of a drain (svc.Drainer.Drain). *)

WaitGoesOn(w, v) ==
  /\ waits' = (waits \ {w}) \cup {v}
  /\ UNCHANGED <<enabled, seen, keys, pageVars, runs, msgs>>

WaitEnds(w, ok) ==
  /\ waits' = waits \ {w}
  /\ msgs' = msgs \cup
       {[type |-> "step", seq |-> w.seq, index |-> w.index, ok |-> ok]}
  /\ UNCHANGED <<enabled, seen, keys, pageVars, runs>>

ScanOfDetection(w) == seen[w.id].job = 0

(* workersOf over a scan made now, not the workers of the last detection. *)
NoWorker(w) == worker[w.id] = 0

(* One round: cancelled, no scan, no job left, or another job to wait for. *)
DrainScan(w) ==
  /\ w.stage = "scan"
  /\ UNCHANGED hostVars
  /\ \/ WaitEnds(w, FALSE)
     \/ /\ w.live
        /\ WaitGoesOn(w, [w EXCEPT
             !.stage = IF NoWorker(w) THEN "stop" ELSE "wait", !.after = jobs])

DrainInterval(w) ==
  /\ w.stage = "wait"
  /\ UNCHANGED hostVars
  /\ IF w.live THEN WaitGoesOn(w, [w EXCEPT !.stage = "scan"])
               ELSE WaitEnds(w, FALSE)

(* svc.Stop: systemctl stop, unless the context is cancelled by now or the *)
(* command cannot be started. *)
DrainStop(w) ==
  /\ w.stage = "stop"
  /\ \/ /\ w.live
        /\ Submit(w.id, "stop", "drain", w.after)
        /\ WaitGoesOn(w, [w EXCEPT !.stage = "stopping"])
     \/ /\ UNCHANGED hostVars
        /\ WaitEnds(w, FALSE)

(* systemctl returns: done, or given up by timeout or cancellation. *)
DrainReturn(w) ==
  /\ w.stage = "stopping"
  /\ UNCHANGED hostVars
  /\ \E ok \in BOOLEAN :
       /\ ok => request[w.id].verb = "none"
       /\ WaitEnds(w, ok)

Waits == \E w \in waits :
           DrainScan(w) \/ DrainInterval(w) \/ DrainStop(w) \/ DrainReturn(w)

-----------------------------------------------------------------------------
(* The goroutine of the other operations (runnerop/run.go). *)

RunGoesOn(r, s) ==
  /\ runs' = (runs \ {r}) \cup {s}
  /\ UNCHANGED <<seen, keys, pageVars, waits, msgs>>

(* A failure does not keep the other targets from being tried. *)
More(s) == s.at <= Len(s.targets)

(* The result of one target is kept. *)
NextTarget(r, ok) ==
  LET s == [r EXCEPT !.at = @ + 1, !.phase = "issue",
                     !.ok = @ + (IF ok THEN 1 ELSE 0),
                     !.failed = @ + (IF ok THEN 0 ELSE 1)]
  IN IF More(s)
     THEN RunGoesOn(r, s)
     ELSE /\ runs' = runs \ {r}
          /\ msgs' = msgs \cup {Done(r.op, r.id, s.ok, s.failed)}
          /\ UNCHANGED <<seen, keys, pageVars, waits>>

(* systemctl enable/disable, chosen by what the detection saw. *)
Toggle(r, t) ==
  \E ok \in BOOLEAN :
    /\ enabled' = IF ok THEN [enabled EXCEPT ![t.id] = ~t.enabled] ELSE enabled
    /\ UNCHANGED hostVars
    /\ NextTarget(r, ok)

(* svc.Kill: both commands are tried, whatever becomes of the first.  The  *)
(* flag kept in the phase is the outcome of kill(1). *)
Kill(r, t) ==
  \E killed \in BOOLEAN :
    /\ IF HasProcess(t) /\ killed THEN KillProcesses(t.id, t.job)
                         ELSE UNCHANGED hostVars
    /\ UNCHANGED enabled
    /\ LET ok == killed \/ ~HasProcess(t) IN
       IF t.id \in HasUnit
       THEN RunGoesOn(r, [r EXCEPT !.phase = IF ok THEN "stop" ELSE "stop'"])
       ELSE NextTarget(r, ok)

(* runnerop.apply on the next target *)
Issue(r) ==
  /\ r.phase = "issue"
  /\ LET t == r.targets[r.at] IN
     \/ r.op = "enable" /\ Toggle(r, t)
     \/ r.op = "kill" /\ Kill(r, t)
     \/ /\ r.op \in {"start", "stop", "restart"}
        /\ Submit(t.id, r.op, "user", jobs)
        /\ UNCHANGED enabled
        /\ RunGoesOn(r, [r EXCEPT !.phase = "return"])

(* The systemctl stop of svc.Kill *)
KillStop(r) ==
  /\ r.phase \in {"stop", "stop'"}
  /\ Submit(r.targets[r.at].id, "stop", "user", jobs)
  /\ UNCHANGED enabled
  /\ RunGoesOn(r, [r EXCEPT
       !.phase = IF r.phase = "stop" THEN "return" ELSE "return'"])

(* systemctl returns: done, failed, or given up by timeout. *)
Return(r) ==
  /\ r.phase \in {"return", "return'"}
  /\ UNCHANGED <<hostVars, enabled>>
  /\ \E ok \in BOOLEAN :
       /\ ok => /\ r.phase = "return"
                /\ request[r.targets[r.at].id].verb = "none"
       /\ NextTarget(r, ok)

Runs == \E r \in runs : Issue(r) \/ KillStop(r) \/ Return(r)

-----------------------------------------------------------------------------
Arrivals == \E m \in msgs : \/ OnChosen(m) \/ OnDecided(m) \/ OnCancel(m)
                            \/ OnStep(m)   \/ OnDone(m)

Seen(r) == [id |-> r, up |-> up[r], job |-> worker[r], enabled |-> enabled[r]]

(* The detection reaches the tab as shared state (module Refresh). *)
Detect ==
  /\ seen' = [r \in Runners |-> Seen(r)]
  /\ seen' # seen
  /\ UNCHANGED <<hostVars, enabled, keys, pageVars, waits, runs, msgs>>

HostStep ==
  /\ Environment
  /\ UNCHANGED <<enabled, seen, keys, pageVars, waits, runs, msgs>>

Init ==
  /\ HostInit
  /\ enabled = [r \in Runners |-> r \in AtBoot]
  /\ seen = [r \in Runners |-> Seen(r)]
  /\ keys = 0
  /\ stack = <<>>
  /\ shown \in {seen[r] : r \in Runners}
  /\ pending = NoPending
  /\ drain = NoDrain
  /\ seq = 0
  /\ note = NoNote
  /\ report = NoReport
  /\ waits = {} /\ runs = {} /\ msgs = {}

Next == Keys \/ Arrivals \/ Waits \/ Runs \/ Detect \/ HostStep

Spec == Init /\ [][Next]_vars

(* Goroutines run, what they send is handled, and jobs end. *)
Fairness == WF_vars(Waits) /\ WF_vars(Runs) /\ WF_vars(Arrivals) /\ HostFairness

-----------------------------------------------------------------------------
(* Properties. *)

(* Every wait that is not cancelled is the one the waiting screen stands   *)
(* for.  A wait left behind could not be cancelled any more and would stop *)
(* a runner after the screen has gone, or side by side with the next one.  *)
NoOrphanWait ==
  \A w \in waits : w.live => drain.seq = w.seq /\ drain.index = w.index

(* A drain interrupts only a job that began after its last look: never one *)
(* it could see, however late systemd carries out the stop.                *)
DrainSparesJobs ==
  \A l \in lost : l.by = "drain" => l.job > l.after

(* A job is interrupted only by a drain or by an operation for which the   *)
(* user answered yes on a dialog opened for it and after it had opened.    *)
ApprovedOnly ==
  \A r \in runs : r.op \in {"stop", "kill", "restart"} => r.approved > r.since

(* So no job is lost that the user did not risk: neither by a drain nor    *)
(* without a yes that is about the operation that runs.                    *)
JobsLostOnlyByConsent == DrainSparesJobs /\ ApprovedOnly

(* Jobs end, so a drain ends: all its targets get their turn although the  *)
(* wait as such has no time limit.                                         *)
DrainEnds == \A k \in 1..MaxKeys : (drain.seq = k) ~> (drain.seq # k)

=============================================================================
