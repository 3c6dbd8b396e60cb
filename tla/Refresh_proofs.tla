--------------------------- MODULE Refresh_proofs ---------------------------
(***************************************************************************)
(* Proofs about Refresh for every set of tabs, every host history and      *)
(* every bound.                                                            *)
(*                                                                         *)
(* NoOverlap and BusyIsBacked are not inductive: that a second detection   *)
(* is not started rests on inflight counting exactly the detections in     *)
(* flight, and that the list never gets older rests on the one in flight   *)
(* having started at a generation no older than the list.  IInv collects   *)
(* these facts, one conjunct per component.                                *)
(***************************************************************************)
EXTENDS Refresh, TLAPS

(* The slot of discovery.State mirrors the detection in flight. *)
ScanInv ==
  /\ disc.inflight \in {0, 1}
  /\ disc.inflight = 0 => scans = {}
  /\ disc.inflight = 1 => \E s \in scans : s.seq = disc.seq
  /\ \A s, t \in scans : s = t
  /\ disc.list <= host
  /\ \A s \in scans :
       /\ s.from <= host
       /\ disc.list <= s.from
       /\ (s.stage = "sent" /\ s.gen # 0) => s.from <= s.gen /\ s.gen <= host

(* workscan.State.busy mirrors the walk in flight. *)
WalkInv ==
  /\ ~work.busy => walks = {}
  /\ work.busy => \E w \in walks : w.seq = work.seq
  /\ \A v, w \in walks : v = w
  /\ \A w \in walks : w.seq = work.seq

(* The Doctor tab's running flag mirrors its diagnosis in flight. *)
DoctorInv ==
  /\ \A c \in checks : (c.id > 0 /\ c.stage # "report")
       => doctor.running /\ c.id = doctor.runs
  /\ \A b, c \in checks :
       (b.id > 0 /\ c.id > 0 /\ b.stage # "report" /\ c.stage # "report")
         => b = c
  /\ doctor.running =>
       doctor.runs > 0
       /\ \E c \in checks : c.id = doctor.runs /\ c.stage # "report"

IInv == TypeOK /\ ScanInv /\ WalkInv /\ DoctorInv /\ SameStateEverywhere

LEMMA InitIInv == Init => IInv
BY RefreshAssumption DEF Init, IInv, TypeOK, ScanInv, WalkInv, DoctorInv,
  SameStateEverywhere, NoState, Shared, Generation, Stage

-----------------------------------------------------------------------------
(* One lemma per operation that several actions share. *)

LEMMA StartScanFields ==
  ASSUME TypeOK, StartScan
  PROVE  disc' = [inflight |-> disc.inflight + 1, seq |-> disc.seq + 1,
                  applied |-> disc.applied, list |-> disc.list,
                  err |-> disc.err]
BY DEF TypeOK, StartScan

LEMMA StartScanType ==
  ASSUME TypeOK, MayScan, StartScan
  PROVE  /\ disc' \in [inflight : Nat, seq : 0..MaxScan,
                       applied : 0..MaxScan, list : Generation, err : BOOLEAN]
         /\ scans' \subseteq Scan
<1>1. disc.seq \in Nat /\ disc.seq + 1 \in 1..MaxScan /\ disc.inflight \in Nat
  BY RefreshAssumption DEF TypeOK, MayScan
<1>2. disc' \in [inflight : Nat, seq : 0..MaxScan, applied : 0..MaxScan,
                list : Generation, err : BOOLEAN]
  BY <1>1, StartScanFields, RefreshAssumption DEF TypeOK
<1>3. [seq |-> disc.seq + 1, from |-> host, stage |-> "run",
       gen |-> 0] \in Scan
  BY <1>1, RefreshAssumption DEF TypeOK, Scan, Generation
<1>4. scans' \subseteq Scan
  BY <1>3 DEF TypeOK, StartScan
<1>. QED  BY <1>2, <1>4

LEMMA StartScanInv ==
  ASSUME TypeOK, ScanInv, MayScan, StartScan, UNCHANGED host
  PROVE  ScanInv'
<1> DEFINE new == [seq |-> disc.seq + 1, from |-> host,
                   stage |-> "run", gen |-> 0]
<1>1. disc.inflight = 0 /\ scans = {}
  BY DEF MayScan, Busy, ScanInv
<1>2. scans' = {new}
  BY <1>1 DEF StartScan
<1>3. disc'.inflight = 1 /\ disc'.seq = new.seq /\ disc'.list = disc.list
  BY <1>1, StartScanFields
<1>4. new.from = host /\ new.stage = "run"
  OBVIOUS
<1>5. host \in Nat /\ disc.list \in Nat /\ host <= host /\ disc.list <= host
  BY RefreshAssumption DEF TypeOK, ScanInv, Generation
<1>. HIDE DEF new
<1>. QED  BY <1>2, <1>3, <1>4, <1>5 DEF ScanInv

LEMMA StartWalkFields ==
  ASSUME TypeOK, NEW list, StartWalk(list), MayWalk(list)
  PROVE  /\ work' = [seq |-> work.seq + 1, busy |-> TRUE, usage |-> work.usage]
         /\ walks' = walks \cup {[seq |-> work.seq + 1, list |-> list,
                                  stage |-> "run"]}
BY DEF TypeOK, StartWalk

LEMMA StartWalkType ==
  ASSUME TypeOK, NEW list, StartWalk(list)
  PROVE  /\ work' \in [seq : 0..MaxWalk, busy : BOOLEAN, usage : Generation]
         /\ walks' \subseteq Walk
<1>1. CASE MayWalk(list)
  <2>1. work.seq + 1 \in 1..MaxWalk /\ list \in 1..MaxGen
    BY <1>1, RefreshAssumption DEF TypeOK, MayWalk, HasRunners
  <2>2. [seq |-> work.seq + 1, list |-> list, stage |-> "run"] \in Walk
    BY <2>1 DEF Walk
  <2>3. walks' \subseteq Walk
    BY <1>1, <2>2, StartWalkFields DEF TypeOK
  <2>4. work.usage \in Generation /\ work.seq + 1 \in 0..MaxWalk
    BY <2>1, RefreshAssumption DEF TypeOK
  <2>5. work' = [seq |-> work.seq + 1, busy |-> TRUE, usage |-> work.usage]
    BY <1>1, StartWalkFields
  <2>. QED  BY <2>3, <2>4, <2>5
<1>2. CASE ~MayWalk(list)
  BY <1>2 DEF TypeOK, StartWalk, workVars
<1>. QED  BY <1>1, <1>2

LEMMA StartWalkInv ==
  ASSUME TypeOK, WalkInv, NEW list, StartWalk(list)
  PROVE  WalkInv'
<1>1. CASE MayWalk(list)
  <2>1. walks = {}
    BY <1>1 DEF MayWalk, WalkInv
  <2>2. walks' = {[seq |-> work.seq + 1, list |-> list, stage |-> "run"]}
    BY <1>1, <2>1, StartWalkFields
  <2>3. work'.busy /\ work'.seq = work.seq + 1
    BY <1>1, StartWalkFields
  <2>. QED  BY <2>2, <2>3 DEF WalkInv
<1>2. CASE ~MayWalk(list)
  BY <1>2 DEF StartWalk, workVars, WalkInv
<1>. QED  BY <1>1, <1>2

LEMMA DistributeSame ==
  ASSUME Distribute
  PROVE  SameStateEverywhere'
BY DEF Distribute, SameStateEverywhere

LEMMA StateType ==
  ASSUME NEW c \in 1..MaxCfg,
         NEW d \in [inflight : Nat, seq : 0..MaxScan, applied : 0..MaxScan,
                    list : Generation, err : BOOLEAN],
         NEW w \in [seq : 0..MaxWalk, busy : BOOLEAN, usage : Generation],
         NEW s \in [stage : {"idle", "run", "sent", "done"}, ok : BOOLEAN,
                    known : BOOLEAN]
  PROVE  State(c, d, w, s) \in Shared
BY RefreshAssumption DEF State, Shared, Generation

LEMMA DistributeType ==
  ASSUME TypeOK, Distribute, cfg' \in 1..MaxCfg,
         disc' \in [inflight : Nat, seq : 0..MaxScan, applied : 0..MaxScan,
                   list : Generation, err : BOOLEAN],
         work' \in [seq : 0..MaxWalk, busy : BOOLEAN, usage : Generation],
         scopes' \in [stage : {"idle", "run", "sent", "done"}, ok : BOOLEAN,
                     known : BOOLEAN]
  PROVE  snap' \in [Tabs -> Shared]
<1>1. State(cfg', disc', work', scopes') \in Shared
  BY StateType
<1>. QED  BY <1>1 DEF Distribute

(* The start-up check that StartAll issues. *)
LEMMA StartHostReqType ==
  ASSUME TypeOK, StartHostReqOnce
  PROVE  /\ hreq' \in [done : BOOLEAN, gen : Generation, by : 0..MaxCheck]
         /\ checks' \subseteq Check
<1>1. CASE hreq.done
  BY <1>1 DEF StartHostReqOnce, TypeOK
<1>2. CASE ~hreq.done
  <2>1. hreq' = [done |-> TRUE, gen |-> hreq.gen, by |-> hreq.by]
    BY <1>2 DEF StartHostReqOnce, TypeOK
  <2>2. [id |-> 0, from |-> host, stage |-> "run", gen |-> 0] \in Check
    BY RefreshAssumption DEF TypeOK, Check, Stage, Generation
  <2>3. checks' \subseteq Check
    BY <1>2, <2>2 DEF StartHostReqOnce, TypeOK
  <2>. QED  BY <2>1, <2>3 DEF TypeOK
<1>. QED  BY <1>1, <1>2

LEMMA DiagnoseType ==
  ASSUME TypeOK, MayDiagnose, Diagnose
  PROVE  /\ doctor' \in [started : BOOLEAN, running : BOOLEAN,
                         runs : 0..MaxCheck]
         /\ checks' \subseteq Check
<1>1. doctor.runs + 1 \in 0..MaxCheck
  BY RefreshAssumption DEF TypeOK, MayDiagnose
<1>2. [id |-> doctor.runs + 1, from |-> host, stage |-> "run", gen |-> 0]
        \in Check
  BY <1>1, RefreshAssumption DEF TypeOK, Check, Stage, Generation
<1>. QED  BY <1>1, <1>2 DEF Diagnose, TypeOK

LEMMA DiagnoseInv ==
  ASSUME TypeOK, DoctorInv, MayDiagnose, Diagnose
  PROVE  DoctorInv'
<1> DEFINE new == [id |-> doctor.runs + 1, from |-> host, stage |-> "run",
                   gen |-> 0]
<1>1. \A c \in checks : c.id > 0 => c.stage = "report"
  BY DEF MayDiagnose, DoctorInv
<1>2. /\ doctor'.running /\ doctor'.runs = new.id /\ new.stage = "run"
      /\ new.id > 0 /\ checks' = checks \cup {new}
  BY RefreshAssumption DEF Diagnose, TypeOK
<1>. HIDE DEF new
<1>. QED  BY <1>1, <1>2 DEF DoctorInv

-----------------------------------------------------------------------------
(* Type correctness, action by action. *)

LEMMA TypeScan ==
  ASSUME TypeOK, NEW s \in scans, FinishScan(s)
  PROVE  TypeOK'
<1>1. PICK g \in {0} \cup s.from..host :
        scans' = (scans \ {s}) \cup {[s EXCEPT !.stage = "sent", !.gen = g]}
  BY DEF FinishScan
<1>2. s \in Scan
  BY DEF TypeOK
<1>3. g \in Generation
  BY <1>2, RefreshAssumption DEF TypeOK, Scan, Generation
<1>4. [s EXCEPT !.stage = "sent", !.gen = g] \in Scan
  BY <1>2, <1>3 DEF Scan
<1>. QED
  BY <1>1, <1>4 DEF TypeOK, FinishScan, workVars, checkVars

LEMMA TypeApplyScan ==
  ASSUME TypeOK, NEW m \in scans, ApplyScan(m)
  PROVE  TypeOK'
<1>1. m \in Scan
  BY DEF TypeOK
<1> DEFINE d == Landed(disc)
<1>2. disc.inflight \in Nat /\ disc.inflight > 0 => disc.inflight - 1 \in Nat
  BY DEF TypeOK
<1>3. d \in [inflight : Nat, seq : 0..MaxScan, applied : 0..MaxScan,
            list : Generation, err : BOOLEAN]
  BY <1>2 DEF TypeOK, Landed
<1>4. m.seq \in 0..MaxScan /\ m.gen \in Generation
  BY <1>1, RefreshAssumption DEF Scan
<1>5. Reconcile(d, m) \in [inflight : Nat, seq : 0..MaxScan,
                          applied : 0..MaxScan, list : Generation,
                          err : BOOLEAN]
  BY <1>3, <1>4 DEF Reconcile
<1>6. scans' \subseteq Scan
  BY DEF TypeOK, ApplyScan
<1>. HIDE DEF d
<1>7. CASE m.seq < d.applied
  BY <1>3, <1>6, <1>7 DEF TypeOK, ApplyScan, workVars, d
<1>8. CASE ~(m.seq < d.applied) /\ m.gen = 0
  <2>1. disc' = Reconcile(d, m) /\ Distribute
        /\ UNCHANGED <<host, cfg, ticks, doctor, active, work, walks, hreq,
                       checks, scopes>>
    BY <1>8 DEF ApplyScan, workVars, d
  <2>2. snap' \in [Tabs -> Shared]
    BY <2>1, <1>5, DistributeType DEF TypeOK
  <2>. QED  BY <1>5, <1>6, <2>1, <2>2 DEF TypeOK
<1>9. CASE ~(m.seq < d.applied) /\ m.gen # 0
  <2>1. disc' = Reconcile(d, m) /\ StartAll(m.gen) /\ Distribute
        /\ UNCHANGED <<host, cfg, ticks, doctor, active>>
    BY <1>9 DEF ApplyScan, d
  <2>2. /\ hreq' \in [done : BOOLEAN, gen : Generation, by : 0..MaxCheck]
        /\ checks' \subseteq Check
    BY <2>1, StartHostReqType DEF StartAll
  <2>3. /\ work' \in [seq : 0..MaxWalk, busy : BOOLEAN, usage : Generation]
        /\ walks' \subseteq Walk
    BY <2>1, StartWalkType DEF StartAll, StartWalkOnce, workVars, TypeOK
  <2>4. scopes' \in [stage : {"idle", "run", "sent", "done"}, ok : BOOLEAN,
                    known : BOOLEAN]
    BY <2>1 DEF StartAll, StartScopesOnce, TypeOK
  <2>5. snap' \in [Tabs -> Shared]
    BY <2>1, <2>3, <2>4, <1>5, DistributeType DEF TypeOK
  <2>. QED  BY <1>5, <1>6, <2>1, <2>2, <2>3, <2>4, <2>5 DEF TypeOK
<1>. QED  BY <1>7, <1>8, <1>9

LEMMA TypeStep ==
  ASSUME TypeOK, Next
  PROVE  TypeOK'
<1>1. CASE OnTick
  <2>1. CASE MayScan
    BY <1>1, <2>1, StartScanType
    DEF TypeOK, OnTick, NextTick, workVars, checkVars
  <2>2. CASE ~MayScan
    BY <1>1, <2>2
    DEF TypeOK, OnTick, NextTick, discVars, workVars, checkVars
  <2>. QED  BY <2>1, <2>2
<1>2. CASE \E s \in scans : FinishScan(s)
  BY <1>2, TypeScan
<1>3. CASE \E m \in scans : ApplyScan(m)
  BY <1>3, TypeApplyScan
<1>4. ASSUME NEW w \in walks, FinishWalk(w)
      PROVE  TypeOK'
  <2>1. [w EXCEPT !.stage = "sent"] \in Walk
    BY DEF TypeOK, Walk
  <2>. QED  BY <1>4, <2>1 DEF TypeOK, FinishWalk, discVars, checkVars
<1>5. ASSUME NEW m \in walks, ApplyWalk(m)
      PROVE  TypeOK'
  <2>1. m.list \in Generation
    BY RefreshAssumption DEF TypeOK, Walk, Generation
  <2>2. work' \in [seq : 0..MaxWalk, busy : BOOLEAN, usage : Generation]
    BY <1>5, <2>1 DEF TypeOK, ApplyWalk
  <2>3. snap' \in [Tabs -> Shared]
    BY <1>5, <2>2, DistributeType DEF TypeOK, ApplyWalk, discVars
  <2>. QED
    BY <1>5, <2>2, <2>3 DEF TypeOK, ApplyWalk, discVars, checkVars
<1>6. ASSUME NEW c \in checks, FinishCheck(c)
      PROVE  TypeOK'
  <2>1. PICK g \in c.from..host :
          checks' = (checks \ {c}) \cup {[c EXCEPT !.stage = "sent", !.gen = g]}
    BY <1>6 DEF FinishCheck
  <2>2. c \in Check /\ g \in Generation
    BY RefreshAssumption DEF TypeOK, Check, Generation
  <2>3. [c EXCEPT !.stage = "sent", !.gen = g] \in Check
    BY <2>2 DEF Check, Stage
  <2>. QED  BY <1>6, <2>1, <2>3 DEF TypeOK, FinishCheck, discVars, workVars
<1>7. ASSUME NEW c \in checks, DoctorDone(c)
      PROVE  TypeOK'
  <2>1. [c EXCEPT !.stage = "report"] \in Check
    BY DEF TypeOK, Check, Stage
  <2>. QED  BY <1>7, <2>1 DEF TypeOK, DoctorDone, discVars, workVars
<1>8. ASSUME NEW c \in checks, ApplyHostReq(c)
      PROVE  TypeOK'
  <2>1. c.gen \in Generation /\ c.id \in 0..MaxCheck
    BY DEF TypeOK, Check
  <2>. QED  BY <1>8, <2>1 DEF TypeOK, ApplyHostReq, discVars, workVars
<1>9. CASE FinishScopes
  BY <1>9 DEF TypeOK, FinishScopes, discVars, workVars, checkVars
<1>10. CASE ApplyScopes
  <2>1. scopes' \in [stage : {"idle", "run", "sent", "done"}, ok : BOOLEAN,
                    known : BOOLEAN]
    BY <1>10 DEF TypeOK, ApplyScopes
  <2>2. snap' \in [Tabs -> Shared]
    BY <1>10, <2>1, DistributeType DEF TypeOK, ApplyScopes, discVars, workVars
  <2>. QED
    BY <1>10, <2>1, <2>2 DEF TypeOK, ApplyScopes, discVars, workVars, checkVars
<1>11. CASE RefreshKey
  BY <1>11, StartScanType, StartWalkType DEF TypeOK, RefreshKey, checkVars
<1>12. CASE Rerun
  BY <1>12, DiagnoseType DEF TypeOK, Rerun, discVars, workVars
<1>13. ASSUME NEW t \in Tabs, SelectTab(t)
       PROVE  TypeOK'
  <2>1. State(cfg, disc, work, scopes) \in Shared
    BY StateType DEF TypeOK
  <2>2. /\ doctor' \in [started : BOOLEAN, running : BOOLEAN,
                        runs : 0..MaxCheck]
        /\ checks' \subseteq Check
    BY <1>13, DiagnoseType DEF SelectTab, TypeOK
  <2>. QED
    BY <1>13, <2>1, <2>2 DEF TypeOK, SelectTab, discVars, workVars
<1>14. CASE SaveConfig
  <2>1. cfg' \in 1..MaxCfg
    BY <1>14, RefreshAssumption DEF TypeOK, SaveConfig
  <2>2. snap' \in [Tabs -> Shared]
    BY <1>14, <2>1, DistributeType DEF TypeOK, SaveConfig, discVars, workVars
  <2>. QED
    BY <1>14, <2>1, <2>2 DEF TypeOK, SaveConfig, discVars, workVars, checkVars
<1>15. CASE Resize
  <2>1. snap' \in [Tabs -> Shared]
    BY <1>15, DistributeType DEF TypeOK, Resize, discVars, workVars
  <2>. QED  BY <1>15, <2>1 DEF TypeOK, Resize, discVars, workVars, checkVars
<1>16. CASE HostChanges
  BY <1>16, RefreshAssumption
  DEF TypeOK, HostChanges, discVars, workVars, checkVars
<1>. QED
  BY <1>1, <1>2, <1>3, <1>4, <1>5, <1>6, <1>7, <1>8, <1>9, <1>10, <1>11,
     <1>12, <1>13, <1>14, <1>15, <1>16 DEF Next, Goroutines, Arrivals, User

-----------------------------------------------------------------------------
(* The detection in flight. *)

LEMMA FinishScanInv ==
  ASSUME TypeOK, ScanInv, NEW s \in scans, FinishScan(s)
  PROVE  ScanInv'
<1>1. PICK g \in {0} \cup s.from..host :
        scans' = (scans \ {s}) \cup {[s EXCEPT !.stage = "sent", !.gen = g]}
  BY DEF FinishScan
<1> DEFINE t == [s EXCEPT !.stage = "sent", !.gen = g]
<1>2. s \in Scan
  BY DEF TypeOK
<1>3. t.seq = s.seq /\ t.from = s.from /\ t.gen = g
  BY <1>2 DEF Scan
<1>4. scans' = {t}
  BY <1>1 DEF ScanInv
<1>5. UNCHANGED <<disc, host>>
  BY DEF FinishScan
<1>6. g # 0 => s.from <= g /\ g <= host
  BY <1>2, RefreshAssumption DEF Scan, TypeOK
<1>7. disc.inflight = 1 /\ s.seq = disc.seq /\ s.from <= host
      /\ disc.list <= s.from /\ disc.list <= host
  BY DEF ScanInv
<1>. HIDE DEF t
<1>. QED  BY <1>3, <1>4, <1>5, <1>6, <1>7 DEF ScanInv

LEMMA ApplyScanInv ==
  ASSUME TypeOK, ScanInv, NEW m \in scans, ApplyScan(m)
  PROVE  ScanInv'
<1>1. scans' = {} /\ host' = host
  BY DEF ApplyScan, ScanInv
<1>2. disc.inflight = 1
  BY DEF ScanInv
<1> DEFINE d == Landed(disc)
<1>3. d.inflight = 0 /\ d.list = disc.list
  BY <1>2 DEF Landed, TypeOK
<1>4. Reconcile(d, m).inflight = 0
  BY <1>2 DEF Reconcile, Landed, TypeOK
<1>5. Reconcile(d, m).list = IF m.gen # 0 THEN m.gen ELSE disc.list
  BY <1>2 DEF Reconcile, Landed, TypeOK
<1>6. disc'.inflight = 0 /\ disc'.list \in {disc.list, m.gen}
      /\ (m.gen = 0 => disc'.list = disc.list)
  BY <1>3, <1>4, <1>5 DEF ApplyScan
<1>7. disc.list <= host /\ (m.gen # 0 => m.gen <= host)
  BY DEF ApplyScan, ScanInv
<1>. QED  BY <1>1, <1>6, <1>7 DEF ScanInv

LEMMA ScanInvStep ==
  ASSUME TypeOK, ScanInv, Next
  PROVE  ScanInv'
<1>1. CASE OnTick
  <2>1. CASE MayScan
    BY <1>1, <2>1, StartScanInv DEF OnTick
  <2>2. CASE ~MayScan
    BY <1>1, <2>2 DEF OnTick, discVars, ScanInv
  <2>. QED  BY <2>1, <2>2
<1>2. CASE RefreshKey
  BY <1>2, StartScanInv DEF RefreshKey
<1>3. CASE \E s \in scans : FinishScan(s)
  BY <1>3, FinishScanInv
<1>4. CASE \E m \in scans : ApplyScan(m)
  BY <1>4, ApplyScanInv
<1>5. CASE HostChanges
  <2>1. UNCHANGED <<disc, scans>> /\ host' = host + 1
    BY <1>5 DEF HostChanges, discVars
  <2>2. host \in Nat /\ disc.list \in Nat
        /\ \A s \in scans : s.from \in Nat /\ s.gen \in Nat
    BY RefreshAssumption DEF TypeOK, Generation, Scan
  <2>. QED  BY <2>1, <2>2 DEF ScanInv
<1>6. CASE UNCHANGED <<disc, scans, host>>
  BY <1>6 DEF ScanInv
<1>. QED
  BY <1>1, <1>2, <1>3, <1>4, <1>5, <1>6
  DEF Next, Goroutines, Arrivals, User, FinishWalk, FinishCheck, FinishScopes,
      ApplyWalk, ApplyHostReq, DoctorDone, ApplyScopes, Rerun, SelectTab,
      SaveConfig, Resize, discVars

-----------------------------------------------------------------------------
(* The walk in flight. *)

LEMMA WalkInvStep ==
  ASSUME TypeOK, WalkInv, Next
  PROVE  WalkInv'
<1>1. CASE RefreshKey
  BY <1>1, StartWalkInv DEF RefreshKey
<1>2. ASSUME NEW m \in scans, ApplyScan(m)
      PROVE  WalkInv'
  <2>1. CASE UNCHANGED workVars
    BY <2>1 DEF workVars, WalkInv
  <2>2. CASE StartWalk(m.gen)
    BY <2>2, StartWalkInv
  <2>. QED  BY <1>2, <2>1, <2>2 DEF ApplyScan, StartAll, StartWalkOnce
<1>3. ASSUME NEW w \in walks, FinishWalk(w)
      PROVE  WalkInv'
  <2> DEFINE v == [w EXCEPT !.stage = "sent"]
  <2>1. v.seq = w.seq
    BY DEF TypeOK, Walk
  <2>2. walks' = {v} /\ work' = work
    BY <1>3 DEF FinishWalk, WalkInv
  <2>3. work.busy /\ w.seq = work.seq
    BY DEF WalkInv
  <2>. HIDE DEF v
  <2>. QED  BY <2>1, <2>2, <2>3 DEF WalkInv
<1>4. ASSUME NEW m \in walks, ApplyWalk(m)
      PROVE  WalkInv'
  <2>1. walks' = {} /\ m.seq = work.seq
    BY <1>4 DEF ApplyWalk, WalkInv
  <2>2. ~work'.busy
    BY <1>4, <2>1 DEF ApplyWalk, TypeOK
  <2>. QED  BY <2>1, <2>2 DEF WalkInv
<1>5. CASE UNCHANGED workVars
  BY <1>5 DEF workVars, WalkInv
<1>. QED
  BY <1>1, <1>2, <1>3, <1>4, <1>5
  DEF Next, Goroutines, Arrivals, User, OnTick, FinishScan, FinishCheck,
      FinishScopes, ApplyHostReq, DoctorDone, ApplyScopes, Rerun, SelectTab,
      SaveConfig, Resize, HostChanges, workVars

-----------------------------------------------------------------------------
(* The Doctor tab's diagnosis in flight. *)

LEMMA FinishCheckInv ==
  ASSUME TypeOK, DoctorInv, NEW c \in checks, FinishCheck(c)
  PROVE  DoctorInv'
<1>1. PICK g \in c.from..host :
        checks' = (checks \ {c}) \cup {[c EXCEPT !.stage = "sent", !.gen = g]}
  BY DEF FinishCheck
<1> DEFINE d == [c EXCEPT !.stage = "sent", !.gen = g]
<1>2. d.id = c.id /\ d.stage = "sent"
  BY DEF TypeOK, Check
<1>3. c.stage = "run" /\ doctor' = doctor
  BY DEF FinishCheck
<1>4. checks' = (checks \ {c}) \cup {d}
  BY <1>1
<1>. HIDE DEF d
<1>. QED  BY <1>2, <1>3, <1>4 DEF DoctorInv

LEMMA DoctorDoneInv ==
  ASSUME TypeOK, DoctorInv, NEW c \in checks, DoctorDone(c)
  PROVE  DoctorInv'
<1> DEFINE d == [c EXCEPT !.stage = "report"]
<1>1. d.stage = "report"
  BY DEF TypeOK, Check
<1>2. ~doctor'.running
  BY DEF DoctorDone, TypeOK
<1>3. checks' = (checks \ {c}) \cup {d} /\ c.id > 0 /\ c.stage = "sent"
  BY DEF DoctorDone
<1>. HIDE DEF d
<1>. QED  BY <1>1, <1>2, <1>3 DEF DoctorInv

LEMMA DoctorInvStep ==
  ASSUME TypeOK, DoctorInv, Next
  PROVE  DoctorInv'
<1>1. CASE \E c \in checks : FinishCheck(c)
  BY <1>1, FinishCheckInv
<1>2. CASE \E c \in checks : DoctorDone(c)
  BY <1>2, DoctorDoneInv
<1>3. ASSUME NEW c \in checks, ApplyHostReq(c)
      PROVE  DoctorInv'
  <2>1. c.id = 0 \/ c.stage = "report"
    BY <1>3 DEF ApplyHostReq
  <2>2. c.id = 0 => ~(c.id > 0)
    OBVIOUS
  <2>3. doctor.running => doctor.runs # 0
    BY DEF DoctorInv, TypeOK
  <2>4. checks' = checks \ {c} /\ doctor' = doctor
    BY <1>3 DEF ApplyHostReq
  <2>. QED  BY <2>1, <2>2, <2>3, <2>4 DEF DoctorInv
<1>4. CASE Rerun
  BY <1>4, DiagnoseInv DEF Rerun
<1>5. CASE \E t \in Tabs : SelectTab(t)
  <2>1. CASE MayDiagnose /\ Diagnose
    BY <2>1, DiagnoseInv
  <2>2. CASE UNCHANGED <<checks, doctor>>
    BY <2>2 DEF DoctorInv
  <2>. QED  BY <1>5, <2>1, <2>2 DEF SelectTab
<1>6. ASSUME NEW m \in scans, ApplyScan(m)
      PROVE  DoctorInv'
  <2>1. doctor' = doctor
    BY <1>6 DEF ApplyScan
  <2>2. checks' = checks
        \/ checks' = checks \cup {[id |-> 0, from |-> host, stage |-> "run",
                                   gen |-> 0]}
    BY <1>6 DEF ApplyScan, StartAll, StartHostReqOnce
  <2>. QED  BY <2>1, <2>2 DEF DoctorInv
<1>7. CASE UNCHANGED <<checks, doctor>>
  BY <1>7 DEF DoctorInv
<1>. QED
  BY <1>1, <1>2, <1>3, <1>4, <1>5, <1>6, <1>7
  DEF Next, Goroutines, Arrivals, User, OnTick, FinishScan, FinishWalk,
      FinishScopes, ApplyWalk, ApplyScopes, RefreshKey, SaveConfig, Resize,
      HostChanges, checkVars

-----------------------------------------------------------------------------
(* The state of the tabs. *)

LEMMA SameStep ==
  ASSUME TypeOK, SameStateEverywhere, Next
  PROVE  SameStateEverywhere'
<1>1. ASSUME NEW m \in scans, ApplyScan(m)
      PROVE  SameStateEverywhere'
  <2>1. CASE m.seq < Landed(disc).applied
    <3>1. Landed(disc).list = disc.list /\ Landed(disc).err = disc.err
      BY DEF Landed, TypeOK
    <3>2. State(cfg', disc', work', scopes') = State(cfg, disc, work, scopes)
      BY <1>1, <2>1, <3>1 DEF ApplyScan, workVars, State
    <3>. QED  BY <1>1, <2>1, <3>2 DEF ApplyScan, SameStateEverywhere
  <2>2. CASE ~(m.seq < Landed(disc).applied)
    BY <1>1, <2>2, DistributeSame DEF ApplyScan
  <2>. QED  BY <2>1, <2>2
<1>2. CASE (\E m \in walks : ApplyWalk(m)) \/ ApplyScopes \/ SaveConfig \/ Resize
  BY <1>2, DistributeSame DEF ApplyWalk, ApplyScopes, SaveConfig, Resize
<1>3. CASE OnTick \/ RefreshKey
  <2>1. disc'.list = disc.list /\ disc'.err = disc.err
    BY <1>3 DEF OnTick, RefreshKey, StartScan, discVars, TypeOK
  <2>2. work'.usage = work.usage
    BY <1>3 DEF OnTick, RefreshKey, StartWalk, workVars, TypeOK
  <2>3. UNCHANGED <<cfg, scopes, snap>>
    BY <1>3 DEF OnTick, RefreshKey
  <2>. QED  BY <2>1, <2>2, <2>3 DEF SameStateEverywhere, State
<1>4. CASE FinishScopes
  <2>1. scopes'.known = scopes.known
    BY <1>4 DEF FinishScopes, TypeOK
  <2>. QED
    BY <1>4, <2>1
    DEF FinishScopes, SameStateEverywhere, State, discVars, workVars
<1>5. CASE \E t \in Tabs : SelectTab(t)
  BY <1>5 DEF SelectTab, SameStateEverywhere, TypeOK, discVars, workVars
<1>6. CASE UNCHANGED <<cfg, disc, work, scopes, snap>>
  BY <1>6 DEF SameStateEverywhere
<1>. QED
  BY <1>1, <1>2, <1>3, <1>4, <1>5, <1>6
  DEF Next, Goroutines, Arrivals, User, FinishScan, FinishWalk, FinishCheck,
      ApplyHostReq, DoctorDone, Rerun, HostChanges, discVars, workVars

-----------------------------------------------------------------------------
(* The theorems. *)

LEMMA StutterIInv ==
  ASSUME IInv, UNCHANGED vars
  PROVE  IInv'
BY DEF IInv, vars, TypeOK, ScanInv, WalkInv, DoctorInv, SameStateEverywhere,
  Scan, Walk, Check

LEMMA Inductive == Spec => []IInv
<1>1. Init => IInv
  BY InitIInv
<1>2. IInv /\ [Next]_vars => IInv'
  <2>1. IInv /\ Next => IInv'
    BY TypeStep, ScanInvStep, WalkInvStep, DoctorInvStep, SameStep DEF IInv
  <2>. QED  BY <2>1, StutterIInv
<1>. QED  BY <1>1, <1>2, PTL DEF Spec

(* Every field keeps its type: in particular no counter of jobs in flight  *)
(* ever becomes negative.                                                  *)
THEOREM TypeCorrect == Spec => []TypeOK
BY Inductive, PTL DEF IInv

(* ui/discovery, ui/workscan and page/doctor never run two of their jobs   *)
(* at once.                                                                *)
THEOREM NoOverlapHolds == Spec => []NoOverlap
<1>1. IInv => NoOverlap
  BY DEF IInv, ScanInv, WalkInv, DoctorInv, NoOverlap
<1>. QED  BY <1>1, Inductive, PTL

(* Refreshing is never refused for ever: a busy flag has a job behind it.  *)
THEOREM BusyIsBackedHolds == Spec => []BusyIsBacked
<1>1. IInv => BusyIsBacked
  BY DEF IInv, ScanInv, WalkInv, DoctorInv, BusyIsBacked
<1>. QED  BY <1>1, Inductive, PTL

(* All tabs draw from the parent's current shared state.                   *)
THEOREM SameStateHolds == Spec => []SameStateEverywhere
BY Inductive, PTL DEF IInv

(* The list on screen never goes back in time.                             *)
THEOREM ListNeverOlderHolds == Spec => ListNeverOlder
<1>1. IInv /\ [Next]_vars => [disc'.list >= disc.list]_vars
  <2>1. ASSUME IInv, Next
        PROVE  disc'.list >= disc.list
    <3>1. disc.list \in Nat
      BY <2>1 DEF IInv, TypeOK, Generation
    <3>2. ASSUME NEW m \in scans, ApplyScan(m)
          PROVE  disc'.list >= disc.list
      <4>1. m \in Scan
        BY <2>1 DEF IInv, TypeOK
      <4>2. Reconcile(Landed(disc), m).list
              = IF m.gen # 0 THEN m.gen ELSE disc.list
        BY <2>1 DEF Reconcile, Landed, IInv, TypeOK
      <4>3. Landed(disc).list = disc.list
        BY <2>1 DEF Landed, IInv, TypeOK
      <4>4. disc'.list \in {disc.list, m.gen}
            /\ (m.gen = 0 => disc'.list = disc.list)
        BY <3>2, <4>2, <4>3 DEF ApplyScan
      <4>5. m.gen # 0 => disc.list <= m.gen
        BY <2>1, <3>1, <3>2, <4>1, RefreshAssumption
        DEF ApplyScan, IInv, ScanInv, Scan, Generation
      <4>. QED  BY <3>1, <4>1, <4>4, <4>5 DEF Scan, Generation
    <3>3. CASE disc'.list = disc.list
      BY <3>1, <3>3
    <3>4. OnTick \/ RefreshKey => disc'.list = disc.list
      BY <2>1 DEF OnTick, RefreshKey, StartScan, discVars, IInv, TypeOK
    <3>. QED
      BY <2>1, <3>2, <3>3, <3>4
      DEF Next, Goroutines, Arrivals, User, FinishScan, FinishWalk,
          FinishCheck, FinishScopes, ApplyWalk, ApplyHostReq, DoctorDone,
          ApplyScopes, Rerun, SelectTab, SaveConfig, Resize, HostChanges,
          discVars
  <2>. QED  BY <2>1 DEF vars
<1>. QED  BY <1>1, Inductive, PTL DEF Spec, ListNeverOlder

=============================================================================
