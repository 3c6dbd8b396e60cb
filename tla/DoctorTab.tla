----------------------------- MODULE DoctorTab -----------------------------
(***************************************************************************)
(* The Doctor tab (ui/page/doctor) and the runs of its checks (doctor):    *)
(* all of them when the tab first comes to the front and on r, one of them *)
(* on r in the detail screen.  A run works in a goroutine, each check in   *)
(* one of its own; its results come back as one message.                   *)
(*                                                                         *)
(* A row is a result a check may give: [id, target, item].  One check may  *)
(* give several rows, one for each runner (target) or for each thing it    *)
(* looks at (item).                                                        *)
(***************************************************************************)
EXTENDS Naturals, Sequences, SequencesExt, FiniteSets, Overlay

CONSTANTS
  Rows,        (* the rows, in the order of doctor.Sort.                   *)
  MaxChanges,  (* bound on the changes of the host.                        *)
  MaxKeys      (* bound on the keys pressed.                               *)

ASSUME DoctorTabAssumption ==
  /\ \A i \in DOMAIN Rows : i \in Nat \ {0} /\ Rows[i].id # ""
  /\ MaxChanges \in Nat /\ MaxKeys \in Nat

VARIABLES
  world,     (* what each check would find: changes of the host so far, by *)
             (* row; 0: the row is not given (its runner is gone).         *)
  changes,   (* of the host so far.                                        *)
  keys,      (* pressed so far.                                            *)
  started,   (* Model.started.                                             *)
  running,   (* Model.running.                                             *)
  results,   (* Model.results: what was found, by row (0: not given); the  *)
             (* slice is always in the order of Rows.                      *)
  run,       (* the runs in flight: which check ("" all), those not done,  *)
             (* and what the others have found, by row.                    *)
  recheck,   (* RecheckMsg on their way, by check.                         *)
  stack,     (* Model.overlay.                                             *)
  detail,    (* Model.detail: the key of the row the detail screen is for. *)
  shown,     (* what the detail screen shows: a row and what was found.    *)
  opened     (* the row it was opened on.                                  *)

page == <<started, running, results, stack, detail, shown, opened>>
doctorVars == <<world, changes, keys, page, run, recheck>>

Ids == {Rows[i].id : i \in DOMAIN Rows}
NoKey == [id |-> "", target |-> ""]
Nothing == [i \in DOMAIN Rows |-> 0]

DoctorInit ==
  /\ world = [i \in DOMAIN Rows |-> 1] /\ changes = 1
  /\ keys = 0 /\ started = FALSE /\ running = FALSE /\ results = Nothing
  /\ run = {} /\ recheck = [c \in Ids |-> 0]
  /\ stack = <<>> /\ detail = NoKey /\ shown = [row |-> 0, found |-> 0] /\ opened = 0

(* The host: a row finds something else, or is no longer given.            *)
Change(i) ==
  /\ changes < MaxChanges
  /\ changes' = changes + 1
  /\ \E w \in {changes'} \cup (IF Rows[i].target = "" THEN {} ELSE {0}) :
       world' = [world EXCEPT ![i] = w]
  /\ UNCHANGED <<keys, page, run, recheck>>

-----------------------------------------------------------------------------
(* doctor.Run *)

ChecksOf(id) == IF id = "" THEN Ids ELSE {c \in Ids : c = id}

Start(id) == run' = run \cup {[id |-> id, left |-> ChecksOf(id), got |-> Nothing]}

(* Replace: the rows of one check, also those it no longer gives.          *)
Replace(old, fresh, id) ==
  [i \in DOMAIN Rows |-> IF Rows[i].id = id THEN fresh[i] ELSE old[i]]

(* The goroutine of one check looks at the host.                           *)
Probe(r, c) ==
  /\ c \in r.left
  /\ run' = (run \ {r}) \cup
       {[r EXCEPT !.left = @ \ {c}, !.got = Replace(@, world, c)]}
  /\ UNCHANGED <<world, changes, keys, page, recheck>>

-----------------------------------------------------------------------------
(* Model *)

KeyOfId(i) == [id |-> Rows[i].id, target |-> ""]
KeyOf(i) == [id |-> Rows[i].id, target |-> Rows[i].target]

(* A row as it is in the list.                                             *)
Result(found, i) == [row |-> i, found |-> found[i]]

(* activate: the first time the tab comes to the front.                    *)
Activate ==
  /\ ~started
  /\ started' = TRUE /\ running' = TRUE /\ Start("")
  /\ UNCHANGED <<world, changes, keys, results, recheck, stack, detail,
                 shown, opened>>

Press == started /\ keys < MaxKeys /\ keys' = keys + 1

(* r on the list: rerunAll *)
Rerun ==
  /\ Press /\ stack = <<>> /\ ~running
  /\ running' = TRUE /\ Start("")
  /\ UNCHANGED <<world, changes, started, results, recheck, stack, detail,
                 shown, opened>>

(* enter: openDetail with the row under the cursor.                        *)
OpenDetail(i) ==
  /\ Press /\ stack = <<>> /\ results[i] # 0
  /\ detail' = KeyOf(i) /\ stack' = Pushed(stack, "detail")
  /\ shown' = Result(results, i) /\ opened' = i
  /\ UNCHANGED <<world, changes, started, running, results, run, recheck>>

Esc ==
  /\ Press /\ stack # <<>>
  /\ stack' = Closed(stack)
  /\ UNCHANGED <<world, changes, started, running, results, run, recheck,
                 detail, shown, opened>>

(* r in the detail screen: the modal's answer is a message.                *)
AskRecheck ==
  /\ Press /\ TopOf(stack) = "detail"
  /\ recheck' = [recheck EXCEPT ![Rows[shown.row].id] = @ + 1]
  /\ UNCHANGED <<world, changes, page, run>>

Refused == running

(* handleResult *)
OnRecheck(c) ==
  /\ recheck[c] > 0
  /\ recheck' = [recheck EXCEPT ![c] = @ - 1]
  /\ IF Refused THEN UNCHANGED <<running, run>>
     ELSE running' = TRUE /\ Start(c)
  /\ UNCHANGED <<world, changes, keys, started, results, stack, detail, shown,
                 opened>>

(* refreshDetail: the first row with the key, if a modal is open.          *)
Refreshed(found) ==
  LET I == {i \in DOMAIN Rows : found[i] # 0 /\ KeyOf(i) = detail}
  IN IF stack = <<>> \/ detail = NoKey \/ I = {} THEN shown
     ELSE Result(found, CHOOSE i \in I : \A j \in I : i <= j)

(* applyDone: all checks of the run have answered.                         *)
OnDone(r) ==
  /\ r.left = {}
  /\ run' = run \ {r}
  /\ running' = FALSE
  /\ results' = IF r.id = "" THEN r.got ELSE Replace(results, r.got, r.id)
  /\ shown' = Refreshed(results')
  /\ UNCHANGED <<world, changes, keys, started, recheck, stack, detail, opened>>

DoctorNext ==
  \/ \E i \in DOMAIN Rows : Change(i) \/ OpenDetail(i)
  \/ Activate \/ Rerun \/ Esc \/ AskRecheck
  \/ \E r \in run : \E c \in r.left : Probe(r, c)
  \/ \E c \in Ids : OnRecheck(c)
  \/ \E r \in run : OnDone(r)

DoctorSpec == DoctorInit /\ [][DoctorNext]_doctorVars

-----------------------------------------------------------------------------
Alone(k) ==
  \A i \in DOMAIN Rows : Rows[i].id = Rows[k].id /\ Rows[i].target = Rows[k].target => i = k

(* The detail screen that stays open over a re-run shows the new result of *)
(* its row, not the old one and not another runner's (FR-34, comments of   *)
(* refreshDetail and detailKey) - where the target tells its row from the  *)
(* others of the check.                                                    *)
DetailIsCurrent ==
  TopOf(stack) = "detail" /\ Alone(opened) /\ results[opened] # 0
    => shown = Result(results, opened)

(* The detail screen keeps to the row it was opened on                     *)
(* (ui/page/doctor/run.go, refreshDetail: "redraws the open detail screen  *)
(* with the new result"; detail.go: without the target "it would be        *)
(* replaced by the result of another").                                    *)
DetailKeepsRow ==
  TopOf(stack) = "detail" => shown.row = opened
=============================================================================
