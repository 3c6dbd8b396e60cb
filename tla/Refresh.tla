------------------------------- MODULE Refresh -------------------------------
(***************************************************************************)
(* The shared state of the terminal application and everything that        *)
(* refreshes it behind the user's back: the periodic detection of runners  *)
(* (ui/discovery), the three things fetched once after the first detection *)
(* (ui/startup: hostreq, workscan, ghscope), the Doctor tab's re-runs that *)
(* report back to the status line, the saved configuration, and the        *)
(* distribution of the result to every tab (ui/tabset).                    *)
(*                                                                         *)
(* The parent model runs in one event loop; whatever takes time runs in a  *)
(* goroutine (a tea.Cmd) and comes back as a message.  A job in flight is  *)
(* a record whose "stage" says whether the goroutine is still working      *)
(* ("run") or has finished and its message waits for the loop ("sent").    *)
(*                                                                         *)
(* What a job learns of the host is abstracted to a generation: host       *)
(* counts the changes of the host, a job reads it at some moment between   *)
(* its start and its end, and 0 stands for "nothing read yet".             *)
(***************************************************************************)
EXTENDS Naturals, FiniteSets

CONSTANTS
  Tabs,         (* the tabs that live (all seven are enabled).             *)
  DoctorTab,    (* the one that diagnoses the host.                        *)
  HasToken,     (* capability: a GitHub token can be borrowed.             *)
  Populated,    (* host generations in which at least one runner exists.   *)
  MaxGen,       (* bound on the changes of the host.                       *)
  MaxScan,      (* bound on the detections started.                        *)
  MaxWalk,      (* bound on the _work walks started.                       *)
  MaxCheck,     (* bound on the diagnoses the Doctor tab starts.           *)
  MaxCfg        (* bound on the configurations saved.                      *)

ASSUME RefreshAssumption ==
  /\ DoctorTab \in Tabs
  /\ HasToken \in BOOLEAN
  /\ {MaxGen, MaxScan, MaxWalk, MaxCheck, MaxCfg} \subseteq Nat
  /\ MaxGen >= 1 /\ MaxCfg >= 1
  /\ Populated \subseteq 1..MaxGen

VARIABLES
  host,     (* generation of the host, 1 at start.                         *)
  cfg,      (* App.cfg: generation of the configuration.                   *)
  ticks,    (* discovery.Tick commands pending.                            *)
  disc,     (* discovery.State.                                            *)
  scans,    (* detections in flight.                                       *)
  work,     (* workscan.State.                                             *)
  walks,    (* _work walks in flight.                                      *)
  hreq,     (* hostreq.State: issued, generation shown and the diagnosis   *)
            (* it came from (0: start-up check).                           *)
  checks,   (* diagnoses in flight (start-up check and Doctor tab).        *)
  scopes,   (* ghscope.State and its fetch.                                *)
  doctor,   (* page/doctor: started, running, number of diagnoses.         *)
  active,   (* App.active.                                                 *)
  snap      (* the last page.StateMsg of each tab.                         *)

discVars   == <<disc, scans>>
workVars   == <<work, walks>>
checkVars  == <<hreq, checks, doctor>>
vars == <<host, cfg, ticks, disc, scans, work, walks, hreq, checks, scopes,
          doctor, active, snap>>

-----------------------------------------------------------------------------
(* Distribution of the shared state. *)

(* App.state: the part of page.StateMsg that changes after start-up. *)
State(c, d, w, s) == [cfg |-> c, list |-> d.list, err |-> d.err,
                      usage |-> w.usage, known |-> s.known]

(* What the tabs are built with, before the first distribution. *)
NoState == [cfg |-> 0, list |-> 0, err |-> FALSE, usage |-> 0, known |-> FALSE]

(* App.distribute / tabset.Distribute: every live tab gets the new state. *)
Distribute == snap' = [t \in Tabs |-> State(cfg', disc', work', scopes')]

-----------------------------------------------------------------------------
(* discovery.State *)

Busy == disc.inflight > 0

MayScanOverlapping == Cardinality(scans) < 2 /\ disc.seq < MaxScan

(* Start is refused while a detection is in flight. *)
MayScan == ~Busy /\ disc.seq < MaxScan

(* State.Start: the goroutine gets a copy of its input. *)
StartScan ==
  /\ disc' = [disc EXCEPT !.inflight = @ + 1, !.seq = @ + 1]
  /\ scans' = scans \cup
       {[seq |-> disc.seq + 1, from |-> host, stage |-> "run", gen |-> 0]}

NextTickOnlyIfStarted == ticks' = IF MayScan THEN ticks ELSE ticks - 1

(* Every tick consumed is replaced by the next one, started or not. *)
NextTick == ticks' = ticks

(* App.onTick, State.OnTick *)
OnTick ==
  /\ ticks > 0
  /\ NextTick
  /\ IF MayScan THEN StartScan ELSE UNCHANGED discVars
  /\ UNCHANGED <<host, cfg, workVars, checkVars, scopes, active, snap>>

(* The goroutine ends within discovery.Budget: with the list of a          *)
(* generation the host went through meanwhile, or with an error and a      *)
(* partial list that shows no generation (0).                              *)
FinishScan(s) ==
  /\ s.stage = "run"
  /\ \E g \in {0} \cup s.from..host :
       scans' = (scans \ {s}) \cup {[s EXCEPT !.stage = "sent", !.gen = g]}
  /\ UNCHANGED <<host, cfg, ticks, disc, workVars, checkVars, scopes, active,
                 snap>>

ReconcilePartial(d, m) ==
  [d EXCEPT !.applied = m.seq, !.err = (m.gen = 0), !.list = m.gen]

(* discovery.Reconcile on a cycle that was not overtaken: a failed one     *)
(* keeps the list and only reports the error.                              *)
Reconcile(d, m) ==
  [d EXCEPT !.applied = m.seq, !.err = (m.gen = 0),
            !.list = IF m.gen # 0 THEN m.gen ELSE @]

LandedStaysBusy(d) == d

(* State.Apply gives the slot back even when the result is dropped. *)
Landed(d) == [d EXCEPT !.inflight = IF @ > 0 THEN @ - 1 ELSE @]

-----------------------------------------------------------------------------
(* startup.State: what is fetched once after the first detection.          *)

HasRunners(list) == list \in Populated

MayWalk(list) == ~work.busy /\ HasRunners(list) /\ work.seq < MaxWalk

(* workscan.State.Start: nothing while busy, nothing for an empty list. *)
StartWalk(list) ==
  IF MayWalk(list)
  THEN /\ work' = [work EXCEPT !.seq = @ + 1, !.busy = TRUE]
       /\ walks' = walks \cup {[seq |-> work.seq + 1, list |-> list,
                                stage |-> "run"]}
  ELSE UNCHANGED workVars

(* workscan.State.StartOnce *)
StartWalkOnce(list) ==
  IF work.seq > 0 THEN UNCHANGED workVars ELSE StartWalk(list)

(* hostreq.State.StartOnce: the registry of start-up checks is not empty,  *)
(* so the check is issued and used up whatever the list holds.             *)
StartHostReqOnce ==
  IF hreq.done
  THEN UNCHANGED <<hreq, checks>>
  ELSE /\ hreq' = [hreq EXCEPT !.done = TRUE]
       /\ checks' = checks \cup {[id |-> 0, from |-> host, stage |-> "run",
                                  gen |-> 0]}

(* ghscope.State.Start *)
StartScopesOnce ==
  IF scopes.stage # "idle" \/ ~HasToken
  THEN UNCHANGED scopes
  ELSE scopes' = [scopes EXCEPT !.stage = "run"]

(* startup.State.StartAll *)
StartAll(list) ==
  /\ StartHostReqOnce
  /\ StartWalkOnce(list)
  /\ StartScopesOnce

(* App.applyDiscovered: discovery.State.Apply, distribution, StartAll. *)
ApplyScan(m) ==
  /\ m.stage = "sent"
  /\ scans' = scans \ {m}
  /\ UNCHANGED <<host, cfg, ticks, doctor, active>>
  /\ LET d == Landed(disc) IN
     IF m.seq < d.applied
     THEN /\ disc' = d
          /\ UNCHANGED <<workVars, hreq, checks, scopes, snap>>
     ELSE /\ disc' = Reconcile(d, m)
          /\ IF m.gen # 0 THEN StartAll(m.gen)
                          ELSE UNCHANGED <<workVars, hreq, checks, scopes>>
          /\ Distribute

-----------------------------------------------------------------------------
(* The _work walk. *)

FinishWalk(w) ==
  /\ w.stage = "run"
  /\ walks' = (walks \ {w}) \cup {[w EXCEPT !.stage = "sent"]}
  /\ UNCHANGED <<host, cfg, ticks, discVars, work, checkVars, scopes, active,
                 snap>>

(* The usage reaches the parent but is not handed to the tabs. *)
ApplyWalkSilently(m) ==
  /\ m.stage = "sent"
  /\ walks' = walks \ {m}
  /\ work' = IF m.seq # work.seq THEN work
             ELSE [work EXCEPT !.busy = FALSE, !.usage = m.list]
  /\ UNCHANGED <<host, cfg, ticks, discVars, checkVars, scopes, active, snap>>

(* workscan.State.Apply, then distribution: another cycle is dropped. *)
ApplyWalk(m) ==
  /\ m.stage = "sent"
  /\ walks' = walks \ {m}
  /\ work' = IF m.seq # work.seq THEN work
             ELSE [work EXCEPT !.busy = FALSE, !.usage = m.list]
  /\ UNCHANGED <<host, cfg, ticks, discVars, checkVars, scopes, active>>
  /\ Distribute

-----------------------------------------------------------------------------
(* The start-up check and the Doctor tab.                                  *)

FinishCheck(c) ==
  /\ c.stage = "run"
  /\ \E g \in c.from..host :
       checks' = (checks \ {c}) \cup {[c EXCEPT !.stage = "sent", !.gen = g]}
  /\ UNCHANGED <<host, cfg, ticks, discVars, workVars, hreq, doctor, scopes,
                 active, snap>>

(* page/doctor applyDone: the result is taken in by the tab and the count  *)
(* is sent on to the parent by a command of its own.                       *)
DoctorDone(c) ==
  /\ c.stage = "sent" /\ c.id > 0
  /\ doctor' = [doctor EXCEPT !.running = FALSE]
  /\ checks' = (checks \ {c}) \cup {[c EXCEPT !.stage = "report"]}
  /\ UNCHANGED <<host, cfg, ticks, discVars, workVars, hreq, scopes, active,
                 snap>>

(* hostreq.State.Apply: whatever arrives last is shown. *)
ApplyHostReq(c) ==
  /\ c.stage = "report" \/ (c.stage = "sent" /\ c.id = 0)
  /\ checks' = checks \ {c}
  /\ hreq' = [hreq EXCEPT !.gen = c.gen, !.by = c.id]
  /\ UNCHANGED <<host, cfg, ticks, discVars, workVars, doctor, scopes, active,
                 snap>>

MayDiagnose == ~doctor.running /\ doctor.runs < MaxCheck

(* page/doctor startAll / startOne *)
Diagnose ==
  /\ doctor' = [started |-> TRUE, running |-> TRUE, runs |-> doctor.runs + 1]
  /\ checks' = checks \cup {[id |-> doctor.runs + 1, from |-> host,
                             stage |-> "run", gen |-> 0]}

(* page/doctor rerunAll and handleResult (a recheck from the detail view). *)
Rerun ==
  /\ active = DoctorTab
  /\ MayDiagnose
  /\ Diagnose
  /\ UNCHANGED <<host, cfg, ticks, discVars, workVars, hreq, scopes, active,
                 snap>>

-----------------------------------------------------------------------------
(* The token's scopes. *)

FinishScopes ==
  /\ scopes.stage = "run"
  /\ \E ok \in BOOLEAN : scopes' = [scopes EXCEPT !.stage = "sent", !.ok = ok]
  /\ UNCHANGED <<host, cfg, ticks, discVars, workVars, checkVars, active, snap>>

ApplyScopes ==
  /\ scopes.stage = "sent"
  /\ scopes' = [scopes EXCEPT !.stage = "done", !.known = scopes.ok]
  /\ UNCHANGED <<host, cfg, ticks, discVars, workVars, checkVars, active>>
  /\ Distribute

-----------------------------------------------------------------------------
(* The user. *)

(* App.handleGlobalKey, Refresh: nothing but a notice while busy. *)
RefreshKey ==
  /\ MayScan
  /\ StartScan
  /\ StartWalk(disc.list)
  /\ UNCHANGED <<host, cfg, ticks, checkVars, scopes, active, snap>>

(* App.activate: only the new tab gets the state; the Doctor tab starts    *)
(* its first diagnosis when it comes to the front.                         *)
SelectTab(t) ==
  /\ t # active
  /\ active' = t
  /\ IF t = DoctorTab /\ ~doctor.started /\ MayDiagnose
     THEN Diagnose
     ELSE UNCHANGED <<checks, doctor>>
  /\ UNCHANGED <<host, cfg, ticks, discVars, workVars, hreq, scopes>>
  /\ snap' = [snap EXCEPT ![t] = State(cfg, disc, work, scopes)]

(* tea.WindowSizeMsg / tea.BackgroundColorMsg: the first one reaches the   *)
(* tabs before anything else does.                                         *)
Resize ==
  /\ UNCHANGED <<host, cfg, ticks, discVars, workVars, checkVars, scopes,
                 active>>
  /\ Distribute

(* page.ConfigSavedMsg *)
SaveConfig ==
  /\ cfg < MaxCfg
  /\ cfg' = cfg + 1
  /\ UNCHANGED <<host, ticks, discVars, workVars, checkVars, scopes, active>>
  /\ Distribute

(* Runners come and go, sudo and docker are repaired: outside the program. *)
HostChanges ==
  /\ host < MaxGen
  /\ host' = host + 1
  /\ UNCHANGED <<cfg, ticks, discVars, workVars, checkVars, scopes, active,
                 snap>>

-----------------------------------------------------------------------------
(* App.New and App.Init: one immediate TickMsg, nothing else. *)
Init ==
  /\ host = 1 /\ cfg = 1 /\ ticks = 1
  /\ disc = [inflight |-> 0, seq |-> 0, applied |-> 0, list |-> 0,
             err |-> FALSE]
  /\ scans = {}
  /\ work = [seq |-> 0, busy |-> FALSE, usage |-> 0]
  /\ walks = {}
  /\ hreq = [done |-> FALSE, gen |-> 0, by |-> 0]
  /\ checks = {}
  /\ scopes = [stage |-> "idle", ok |-> FALSE, known |-> FALSE]
  /\ doctor = [started |-> FALSE, running |-> FALSE, runs |-> 0]
  /\ active \in Tabs \ {DoctorTab}
  /\ snap = [t \in Tabs |-> NoState]

Arrivals ==
  \/ \E m \in scans  : ApplyScan(m)
  \/ \E m \in walks  : ApplyWalk(m)
  \/ \E c \in checks : ApplyHostReq(c) \/ DoctorDone(c)
  \/ ApplyScopes

Goroutines ==
  \/ \E s \in scans  : FinishScan(s)
  \/ \E w \in walks  : FinishWalk(w)
  \/ \E c \in checks : FinishCheck(c)
  \/ FinishScopes

User == RefreshKey \/ Rerun \/ (\E t \in Tabs : SelectTab(t)) \/ SaveConfig

Next == OnTick \/ Goroutines \/ Arrivals \/ User \/ Resize \/ HostChanges

Spec == Init /\ [][Next]_vars

(* The timer fires, every goroutine ends within its budget and the loop    *)
(* handles what arrives; the user and the host owe nothing.                *)
FairSpec == Spec /\ WF_vars(OnTick) /\ WF_vars(Goroutines) /\ WF_vars(Arrivals)

-----------------------------------------------------------------------------
(* Properties. *)

Generation == 0..MaxGen
Stage == {"run", "sent", "report"}

Scan  == [seq : 1..MaxScan, from : 1..MaxGen, stage : {"run", "sent"},
          gen : Generation]
Walk  == [seq : 1..MaxWalk, list : 1..MaxGen, stage : {"run", "sent"}]
Check == [id : 0..MaxCheck, from : 1..MaxGen, stage : Stage, gen : Generation]

Shared == [cfg : 0..MaxCfg, list : Generation, err : BOOLEAN,
           usage : Generation, known : BOOLEAN]

(* The types of the parent model's fields and of the jobs in flight. *)
TypeOK ==
  /\ host \in 1..MaxGen
  /\ cfg \in 1..MaxCfg
  /\ ticks \in Nat
  /\ disc \in [inflight : Nat, seq : 0..MaxScan, applied : 0..MaxScan,
               list : Generation, err : BOOLEAN]
  /\ scans \subseteq Scan
  /\ work \in [seq : 0..MaxWalk, busy : BOOLEAN, usage : Generation]
  /\ walks \subseteq Walk
  /\ hreq \in [done : BOOLEAN, gen : Generation, by : 0..MaxCheck]
  /\ checks \subseteq Check
  /\ scopes \in [stage : {"idle", "run", "sent", "done"}, ok : BOOLEAN,
                 known : BOOLEAN]
  /\ doctor \in [started : BOOLEAN, running : BOOLEAN, runs : 0..MaxCheck]
  /\ active \in Tabs
  /\ snap \in [Tabs -> Shared]

(* However ticks, the refresh key, failures and late answers interleave,   *)
(* two detections never run at once (each one spawns up to eight           *)
(* systemctl processes), nor two walks of _work, nor two diagnoses of the  *)
(* Doctor tab.                                                             *)
NoOverlap ==
  /\ \A s, t \in scans : s = t
  /\ \A v, w \in walks : v = w
  /\ \A b, c \in checks :
       (b.id > 0 /\ c.id > 0 /\ b.stage # "report" /\ c.stage # "report")
         => b = c

(* A flag that says "busy" is backed by a job whose message will clear it, *)
(* for the current cycle: otherwise refreshing would be refused for ever.  *)
BusyIsBacked ==
  /\ disc.inflight > 0 => \E s \in scans : s.seq = disc.seq
  /\ work.busy => \E w \in walks : w.seq = work.seq
  /\ doctor.running =>
       \E c \in checks : c.id = doctor.runs /\ c.stage # "report"

(* The list on screen never goes back to an older state of the host and    *)
(* never becomes the partial list of a failed detection.                   *)
ListNeverOlder == [][disc'.list >= disc.list]_vars

(* Every tab draws from the same, current shared state, whichever tab is   *)
(* in front (a tab that has received nothing yet excepted).                *)
SameStateEverywhere ==
  \A t \in Tabs : snap[t] \in {NoState, State(cfg, disc, work, scopes)}

(* The automatic refresh never stops: there is always another detection,   *)
(* as many as the bound lets us see, also when one fails, when a tick      *)
(* falls into a running one, and whatever the user does.                   *)
RefreshNeverStops == <>(disc.seq = MaxScan)

=============================================================================
