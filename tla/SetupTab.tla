------------------------------ MODULE SetupTab ------------------------------
(***************************************************************************)
(* The Setup tab (ui/page/setup): menu, form, preview of the plan, approval, *)
(* the progress of the run and its report.  Plans are made and carried out *)
(* in goroutines (SetupJob); their messages, and the answers of the modals, *)
(* reach the page later.  Hasty: the user's keys may overtake those        *)
(* answers, and a plan that is waited for.                                 *)
(***************************************************************************)
EXTENDS SetupJob, Overlay

CONSTANTS
  Kinds,          (* what the user asks for: a subset of add, remove, update. *)
  Selections,     (* runners marked on the Runners tab: sequences without  *)
                  (* repetition.                                           *)
  Hasty,
  MaxKeys,        (* bound on the keys pressed but esc on the progress.   *)
  MaxSeq          (* bound on the plans and runs.                          *)

ASSUME SetupTabAssumption ==
  /\ Kinds \subseteq {"add", "remove", "update"}
  /\ \A s \in Selections : s \in Seq(Ids) /\ \A a, b \in DOMAIN s : s[a] = s[b] => a = b
  /\ Hasty \in BOOLEAN /\ MaxKeys \in Nat /\ MaxSeq \in Nat

VARIABLES
  seen,           (* the host as the last detection saw it.                *)
  stack,          (* page.Overlay.                                         *)
  spins,          (* progressmodal: running, it cannot be closed.          *)
  plan,           (* Model.plan, the one the preview shows, and its scope. *)
  seq,            (* Model.seq.                                            *)
  waiting,        (* Model.waiting.                                        *)
  run,            (* Model.run: seq 0 for nil, and the messages read.      *)
  report,         (* Model.report: the Result shown.                       *)
  planning,       (* goroutines that make a plan.                          *)
  msgs,           (* answers and results on their way to the page.         *)
  keys,           (* keys pressed.                                         *)
  away,           (* the user is on another tab.                           *)
  quit            (* the program is ending: ShutdownMsg was handled.       *)

pageVars == <<stack, spins, plan, seq, waiting, run, report>>
vars == <<hostVars, jobs, seen, pageVars, planning, msgs, keys, away, quit>>

NoPlan   == [kind |-> "none", units |-> <<>>]
NoShown  == [p |-> NoPlan, scope |-> "none"]
NoRun    == [seq |-> 0, read |-> 0]
NoReport == [seq |-> 0, ok |-> <<>>, bad |-> <<>>, rest |-> <<>>]

Init ==
  /\ HostInit /\ jobs = {}
  /\ seen = host
  /\ stack = <<>> /\ spins = FALSE /\ plan = NoShown /\ seq = 0
  /\ waiting = FALSE /\ run = NoRun /\ report = NoReport
  /\ planning = {} /\ msgs = {} /\ keys = 0 /\ away = FALSE /\ quit = FALSE

Top == TopOf(stack)

-----------------------------------------------------------------------------
(* Asking for a plan (setup/flow.go). *)

(* planCmd: the goroutine asks GitHub for the version, then builds p.      *)
Plans(p, scope) ==
  /\ seq < MaxSeq
  /\ seq' = seq + 1
  /\ waiting' = TRUE
  /\ planning' = planning \cup {[seq |-> seq + 1, plan |-> p, scope |-> scope]}

(* startAdd: opens the form.                                               *)
StartAdd ==
  /\ stack' = Pushed(stack, "form")
  /\ UNCHANGED <<seq, waiting, planning>>

(* startRemove: refused for a runner that was seen busy.                   *)
StartRemove(targets) ==
  /\ UNCHANGED stack
  /\ IF \E k \in DOMAIN targets : seen[targets[k]].busy
     THEN UNCHANGED <<seq, waiting, planning>>
     ELSE Plans(PlanRemove(seen, targets), ScopeOf(targets[1]))

StartUpdate(targets) ==
  /\ UNCHANGED stack
  /\ IF targets = <<>>
     THEN UNCHANGED <<seq, waiting, planning>>
     ELSE Plans(PlanUpdate(seen, targets), ScopeOf(targets[1]))

Listed == {i \in Ids : seen[i].dir # "none"}
AllRunners == InOrder(Listed)

StartKind(op, targets) ==
  \/ op = "add" /\ StartAdd
  \/ op = "remove" /\ StartRemove(targets)
  \/ op = "update" /\ StartUpdate(targets)

-----------------------------------------------------------------------------
(* Keys. *)

Answered == \A m \in msgs : m.type # "request"

Pressed ==
  /\ ~quit /\ keys < MaxKeys
  /\ Answered /\ (Hasty \/ msgs = {})
  /\ keys' = keys + 1

Send(m) == msgs' = msgs \cup {m}

(* handleKey: a and u on the menu.                                         *)
MenuKey ==
  /\ Pressed /\ ~away /\ stack = <<>>
  /\ \E op \in Kinds \ {"remove"} : StartKind(op, AllRunners)
  /\ UNCHANGED <<hostVars, jobs, seen, spins, plan, run, report, msgs, away, quit>>

Ask(op, targets) == Send([type |-> "request", op |-> op, targets |-> targets])

(* enter on the menu (ChosenMsg).                                          *)
MenuChoice ==
  /\ Pressed /\ ~away /\ stack = <<>>
  /\ \E op \in Kinds \ {"remove"} : Ask(op, AllRunners)
  /\ UNCHANGED <<hostVars, jobs, seen, pageVars, planning, away, quit>>

(* n, D, u on the Runners tab, while anything may be open here.            *)
AskFromElsewhere ==
  /\ Pressed /\ away
  /\ \E op \in Kinds, targets \in Selections : Ask(op, targets)
  /\ UNCHANGED <<hostVars, jobs, seen, pageVars, planning, away, quit>>

(* The page lets go of the user only without a modal.                      *)
LeaveTab ==
  /\ ~quit /\ ~away /\ stack = <<>> /\ msgs = {} /\ keys < MaxKeys
  /\ away' = TRUE
  /\ UNCHANGED <<hostVars, jobs, seen, pageVars, planning, msgs, keys, quit>>

EnterTab ==
  /\ ~quit /\ away /\ Answered
  /\ away' = FALSE
  /\ UNCHANGED <<hostVars, jobs, seen, pageVars, planning, msgs, keys, quit>>

(* A key on the modal on top is answered by a message.                     *)
ModalKey ==
  /\ Pressed /\ ~away
  /\ \/ /\ Top = "form"
        /\ \E a \in {"done", "aborted", "discard"} :
             Send([type |-> "form", answer |-> a, key |-> keys])
     \/ /\ Top = "confirm"
        /\ Hasty \/ ~waiting
        /\ \E yes \in BOOLEAN :
             Send([type |-> "decided", yes |-> yes, shown |-> plan.p, key |-> keys])
     \/ /\ Top = "discard"
        /\ \E yes \in BOOLEAN :
             Send([type |-> "discarded", yes |-> yes, key |-> keys])
  /\ UNCHANGED <<hostVars, jobs, seen, pageVars, planning, away, quit>>

(* esc on the progress: it closes once the run is over.                    *)
CloseProgress ==
  /\ ~quit /\ Top = "progress" /\ ~spins
  /\ stack' = Closed(stack)
  /\ UNCHANGED <<hostVars, jobs, seen, spins, plan, seq, waiting, run, report,
                 planning, msgs, keys, away, quit>>

-----------------------------------------------------------------------------
(* Messages. *)

Receive(m) == ~quit /\ m \in msgs /\ msgs' = msgs \ {m}

(* onRequest, onChosen: refused while a run goes on; the request brings    *)
(* this tab to the front (page.OpenTab).                                   *)
OnRequest(m) ==
  /\ Receive(m) /\ m.type = "request"
  /\ IF run.seq # 0 THEN UNCHANGED <<stack, seq, waiting, planning>>
     ELSE StartKind(m.op, m.targets)
  /\ away' = FALSE
  /\ UNCHANGED <<hostVars, jobs, seen, spins, plan, run, report, keys, quit>>

(* planAdd: the names follow those seen now; a bulk of one or two, or one  *)
(* with a name of its own, which must be free.                             *)
NamesAsked ==
  {s \in {<<n>> : n \in Ids} \cup {<<n, n + 1>> : n \in Ids} :
     \/ s[1] = NextIndex(seen)
     \/ Len(s) = 1}

NewPlan(names) ==
  IF \E k \in DOMAIN names : names[k] \notin Ids \/ names[k] \in Listed
  THEN NoPlan ELSE PlanAdd(seen, names)

(* onFormResult *)
OnForm(m) ==
  /\ Receive(m) /\ m.type = "form"
  /\ \/ /\ m.answer = "done"
        /\ stack' = Closed(stack)
        /\ \E names \in NamesAsked, s \in Scopes : Plans(NewPlan(names), s)
     \/ /\ m.answer = "aborted"
        /\ stack' = Closed(stack)
        /\ UNCHANGED <<seq, waiting, planning>>
     \/ /\ m.answer = "discard"
        /\ stack' = Pushed(stack, "discard")
        /\ UNCHANGED <<seq, waiting, planning>>
  /\ UNCHANGED <<hostVars, jobs, seen, spins, plan, run, report, keys, away, quit>>

(* discarded: the question and, on yes, the form under it.                 *)
OnDiscarded(m) ==
  /\ Receive(m) /\ m.type = "discarded"
  /\ stack' = IF m.yes THEN Closed(Closed(stack)) ELSE Closed(stack)
  /\ UNCHANGED <<hostVars, jobs, seen, spins, plan, seq, waiting, run, report,
                 planning, keys, away, quit>>

PlanIsAny(g) == g.seq <= seq
PlanIsCurrent(g) == g.seq = seq

(* planMsg, onPlan: the plan, or why there is none.                        *)
OnPlan(g) ==
  /\ ~quit /\ g \in planning
  /\ planning' = planning \ {g}
  /\ waiting' = (waiting /\ ~PlanIsCurrent(g))
  /\ \E ok \in {b \in BOOLEAN : b => g.plan.units # <<>>} :
       IF PlanIsCurrent(g) /\ ok
       THEN /\ plan' = [p |-> g.plan, scope |-> g.scope]
            /\ stack' = Pushed(stack, "confirm")
       ELSE UNCHANGED <<plan, stack>>
  /\ UNCHANGED <<hostVars, jobs, seen, spins, seq, run, report, msgs, keys, away, quit>>

(* confirmed, startRun: one modal is closed, whatever was decided; the     *)
(* plan is taken, so that a second yes finds none.                         *)
OnDecided(m) ==
  /\ Receive(m) /\ m.type = "decided"
  /\ plan' = NoShown
  /\ IF m.yes /\ plan.p.units # <<>>
     THEN /\ seq < MaxSeq
          /\ seq' = seq + 1
          /\ run' = [seq |-> seq + 1, read |-> 0]
          /\ report' = NoReport
          /\ jobs' = Running \cup {NewJob(seq + 1, plan.p, plan.scope, m.shown)}
          /\ stack' = Pushed(Closed(stack), "progress")
          /\ spins' = TRUE
     ELSE /\ stack' = Closed(stack)
          /\ UNCHANGED <<seq, run, report, jobs, spins>>
  /\ UNCHANGED <<hostVars, seen, waiting, planning, keys, away, quit>>

(* waitProgress, onProgress: the next message of the run on the screen;    *)
(* the screen is raised with it.                                           *)
OnProgress(j) ==
  /\ ~quit /\ j.seq = run.seq /\ run.read < Len(j.log)
  /\ run' = [run EXCEPT !.read = @ + 1]
  /\ stack' = Pushed(stack, "progress")
  /\ UNCHANGED <<hostVars, jobs, seen, spins, plan, seq, waiting, report,
                 planning, msgs, keys, away, quit>>

OnDoneIfGood(j) ==
  /\ ~quit /\ j.stage = "over" /\ j.seq = run.seq /\ j.bad = <<>>
  /\ report' = [seq |-> j.seq, ok |-> j.ok, bad |-> j.bad, rest |-> j.rest]
  /\ run' = NoRun
  /\ stack' = Pushed(stack, "progress")
  /\ spins' = FALSE
  /\ UNCHANGED <<hostVars, jobs, seen, plan, seq, waiting, planning, msgs,
                 keys, away, quit>>

(* onDone: may overtake the last progress.                                 *)
OnDone(j) ==
  /\ ~quit /\ j.stage = "over" /\ j.seq = run.seq
  /\ report' = [seq |-> j.seq, ok |-> j.ok, bad |-> j.bad, rest |-> j.rest]
  /\ run' = NoRun
  /\ stack' = Pushed(stack, "progress")
  /\ spins' = FALSE
  /\ UNCHANGED <<hostVars, jobs, seen, plan, seq, waiting, planning, msgs,
                 keys, away, quit>>

(* ShutdownMsg, stopRun: the run is cancelled.                             *)
Shutdown ==
  /\ ~quit
  /\ quit' = TRUE
  /\ run' = NoRun
  /\ jobs' = {[j EXCEPT !.live = @ /\ j.seq # run.seq] : j \in jobs}
  /\ UNCHANGED <<hostVars, seen, stack, spins, plan, seq, waiting, report,
                 planning, msgs, keys, away>>

Detect ==
  /\ ~quit /\ seen # host /\ seen' = host
  /\ UNCHANGED <<hostVars, jobs, pageVars, planning, msgs, keys, away, quit>>

-----------------------------------------------------------------------------
KeyStep == \/ MenuKey \/ MenuChoice \/ AskFromElsewhere \/ ModalKey
           \/ CloseProgress \/ LeaveTab \/ EnterTab

OnMessage == \E m \in msgs : OnRequest(m) \/ OnForm(m) \/ OnDiscarded(m) \/ OnDecided(m)

OnGoroutine == (\E g \in planning : OnPlan(g)) \/ (\E j \in jobs : OnProgress(j) \/ OnDone(j))

JobStep == RunStep /\ UNCHANGED <<seen, pageVars, planning, msgs, keys, away, quit>>

WorkComes ==
  /\ JobTaken
  /\ UNCHANGED <<jobs, seen, pageVars, planning, msgs, keys, away, quit>>

WorkEnds == JobEnds /\ UNCHANGED <<jobs, seen, pageVars, planning, msgs, keys, away, quit>>

Passes == Grow /\ UNCHANGED <<seen, pageVars, planning, msgs, keys, away, quit>>

Next == \/ KeyStep \/ OnMessage \/ OnGoroutine \/ JobStep \/ Shutdown \/ Detect
        \/ WorkComes \/ WorkEnds \/ Passes

Spec == Init /\ [][Next]_vars

(* The messages of a program that is not ending arrive, goroutines go on   *)
(* and jobs end.                                                           *)
FairSpec ==
  /\ Spec
  /\ WF_vars(OnGoroutine) /\ WF_vars(JobStep) /\ WF_vars(WorkEnds)

-----------------------------------------------------------------------------
(* Properties. *)

(* What runs is the plan the user looked at when answering yes, and one    *)
(* run at a time works on the host (FR-16; the comment of package setup).  *)
ApprovedRuns == \A j \in jobs : [kind |-> j.kind, units |-> j.units] = j.asked
ApprovedRunsAlone == ApprovedRuns /\ Cardinality(Running) <= 1

(* An update that failed, was cancelled or goes on has stopped no runner   *)
(* but the one it failed at or works on: the others it drained run again   *)
(* (FR-22).                                                                *)
DownOnlyWhereItFailed ==
  \A j \in jobs : j.kind = "update" /\ j.seq = seq =>
    \A k \in DOMAIN j.units :
      j.units[k].id \in j.wereUp /\ ~host[j.units[k].id].up
      => IF j.stage = "over" THEN <<j.units[k].id>> = j.bad ELSE k = j.at

(* The token a command got is one for that runner's place and that kind of *)
(* command, and had not run out.                                           *)
TokenFits ==
  \A j \in jobs : j.used # NoUse =>
    /\ j.used.age < Lifetime /\ j.used.issued = j.kind
    /\ j.kind = "remove" => j.used.scope = ScopeOf(j.used.id)

(* Whoever waits on the Setup tab learns what came of it, unless the       *)
(* program ends before: a plan that is waited for arrives, or the reason   *)
(* why there is none, and a run ends and its own report is shown.          *)
Awaits   == waiting \/ run.seq # 0
Reported == \A j \in jobs : j.seq = seq => report.seq = j.seq

RunEnds == Awaits ~> quit \/ (~Awaits /\ Reported)

-----------------------------------------------------------------------------
(* Refinement: the runs are a Batch that stops at the first failure, as    *)
(* the host and, at the end, the Result tell.                              *)

Latest(J) == CHOOSE j \in J : \A k \in J : k.seq <= j.seq

(* What a Batch has of the runs J: the last one.                           *)
Dealt(J) ==
  IF J = {} THEN [todo |-> <<>>, done |-> <<>>, bad |-> <<>>, phase |-> "idle"]
  ELSE LET j == Latest(J) IN
       [todo  |-> IF j.stage = "over" THEN j.rest ELSE RestFrom(j, j.at),
        done  |-> j.ok,
        bad   |-> j.bad,
        phase |-> IF j.stage = "over" THEN "over" ELSE "running"]

Runs == INSTANCE Batch WITH todo <- Dealt(jobs).todo, done <- Dealt(jobs).done,
                            bad <- Dealt(jobs).bad, phase <- Dealt(jobs).phase

(* The goroutine of a run deals with the units as a Batch does.            *)
RunIsBatch == Runs!Spec

=============================================================================
