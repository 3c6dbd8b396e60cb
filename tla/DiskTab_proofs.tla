--------------------------- MODULE DiskTab_proofs ---------------------------
(***************************************************************************)
(* Proofs about the cleaning (DiskTab), for any runners and targets, any   *)
(* number of scans, cleanings and jobs.                                    *)
(*                                                                         *)
(* It spares the jobs that were known when it was approved, however fast   *)
(* the user types.  The approval looks at the detection of that moment,    *)
(* the goroutine only at the plan it was given: Spares carries what was    *)
(* seen to each target that is still to be removed.                        *)
(*                                                                         *)
(* What it reports is what happened, when keys wait for their answer.      *)
(* RInv says where each target of the cleaning on the screen is: its row   *)
(* marked, its note still in the channel, or still to do.                  *)
(***************************************************************************)
EXTENDS DiskTab, FiniteSetTheorems, SequenceTheorems, TLAPS

JobFields == {"id", "todo", "busy", "done", "bad", "ch", "live", "over", "saw"}
ScanFields == {"gen", "todo", "view", "live", "read"}
RowFields == {"target", "gen", "removable"}

(* What is planned are targets, one after the other.                       *)
PlanInv ==
  /\ IsFiniteSet(rows) /\ \A w \in rows : DOMAIN w = RowFields /\ w.target \in Target
  /\ \A s \in scans : DOMAIN s = ScanFields /\ s.todo \subseteq Target
  /\ plan \in Seq(Target)

(* Every work directory a cleaning has still to remove belongs to a runner *)
(* that was idle in the detection the approval looked at.                  *)
Spared(j) ==
  /\ DOMAIN j = JobFields /\ j.todo \in Seq(Target)
  /\ j.busy => j.todo # <<>>
  /\ \A k \in DOMAIN j.todo :
       KindOf(j.todo[k]) = "work" => j.saw[BaseOf(j.todo[k])] = 0

Spares == \A j \in jobs : Spared(j)

IInv == PlanInv /\ Spares

-----------------------------------------------------------------------------
(* A goroutine told to stop, and one whose progress was read, has the same *)
(* left to do.                                                             *)
LEMMA SameLeft ==
  ASSUME NEW j, Spared(j), NEW k, DOMAIN k = JobFields,
         k.todo = j.todo, k.saw = j.saw, k.busy => j.busy \/ k.todo # <<>>
  PROVE  Spared(k)
BY DEF Spared

(* One target less is left when it was dealt with.                         *)
LEMMA OneLess ==
  ASSUME NEW j, Spared(j), j.todo # <<>>, NEW k, DOMAIN k = JobFields,
         k.todo = Tail(j.todo), k.saw = j.saw, ~k.busy
  PROVE  Spared(k)
<1>1. /\ j.todo \in Seq(Target) /\ Len(j.todo) \in Nat /\ Len(j.todo) > 0
      /\ Tail(j.todo) \in Seq(Target) /\ Len(Tail(j.todo)) = Len(j.todo) - 1
      /\ \A i \in 1 .. Len(j.todo) - 1 : Tail(j.todo)[i] = j.todo[i + 1]
  BY DEF Spared
<1>2. ASSUME NEW i \in DOMAIN k.todo, KindOf(k.todo[i]) = "work"
      PROVE  k.saw[BaseOf(k.todo[i])] = 0
  <2>1. i \in 1 .. Len(j.todo) - 1 /\ i + 1 \in DOMAIN j.todo /\ k.todo[i] = j.todo[i + 1]
    BY <1>1, <1>2
  <2> QED  BY <1>2, <2>1 DEF Spared
<1> QED  BY <1>1, <1>2 DEF Spared

(* The cleanings whose goroutines are told to stop.                        *)
LEMMA StoppedSpare ==
  ASSUME Spares, NEW n, jobs' = {[j EXCEPT !.live = @ /\ j.id # n] : j \in jobs}
  PROVE  Spares'
<1> SUFFICES ASSUME NEW k \in jobs' PROVE Spared(k)
  BY DEF Spares
<1>1. PICK j \in jobs : k = [j EXCEPT !.live = @ /\ j.id # n]
  OBVIOUS
<1>2. Spared(j)
  BY DEF Spares
<1>3. /\ DOMAIN k = DOMAIN j /\ DOMAIN j = JobFields
      /\ k.todo = j.todo /\ k.saw = j.saw /\ k.busy = j.busy
  <2>1. DOMAIN j = JobFields
    BY <1>2 DEF Spared
  <2> QED  BY <1>1, <2>1 DEF JobFields
<1> QED  BY <1>2, <1>3, SameLeft

(* A new scan, and one that is told to stop, work on targets.              *)
LEMMA StoppedScans ==
  ASSUME PlanInv
  PROVE  \A s \in StopScan(scans) : DOMAIN s = ScanFields /\ s.todo \subseteq Target
<1> SUFFICES ASSUME NEW t \in StopScan(scans)
             PROVE  DOMAIN t = ScanFields /\ t.todo \subseteq Target
  OBVIOUS
<1>1. PICK s \in scans : t = [s EXCEPT !.live = @ /\ ~(scan /\ s.gen = gen)]
  BY DEF StopScan
<1>2. DOMAIN s = ScanFields /\ s.todo \subseteq Target
  BY DEF PlanInv
<1> QED  BY <1>1, <1>2 DEF ScanFields

LEMMA StartScanKeeps ==
  ASSUME PlanInv, StartScan, plan' \in Seq(Target)
  PROVE  PlanInv'
<1> DEFINE s == [gen |-> gen + 1, todo |-> Target, view |-> seen, live |-> TRUE, read |-> TRUE]
<1>1. scans' = StopScan(scans) \cup {s} /\ rows' = {}
  BY DEF StartScan
<1>2. DOMAIN s = ScanFields /\ s.todo \subseteq Target
  BY DEF ScanFields
<1> HIDE DEF s
<1>3. \A t \in scans' : DOMAIN t = ScanFields /\ t.todo \subseteq Target
  BY <1>1, <1>2, StoppedScans
<1>4. IsFiniteSet(rows')
  BY <1>1, FS_EmptySet
<1> QED  BY <1>1, <1>3, <1>4 DEF PlanInv

-----------------------------------------------------------------------------
LEMMA ScanStepKeeps ==
  ASSUME PlanInv, NEW s \in scans, OnUsage(s) \/ OnScanned(s) \/ Drops(s)
  PROVE  PlanInv' /\ UNCHANGED jobs
<1>1. UNCHANGED <<jobs, plan>>
  BY DEF OnUsage, OnScanned, Drops
<1>2. DOMAIN s = ScanFields /\ s.todo \subseteq Target
  BY DEF PlanInv
<1>3. CASE OnUsage(s)
  <2>1. PICK t \in s.todo :
          /\ scans' = BecomesScan(s, [s EXCEPT !.todo = @ \ {t}, !.read = ThisScan(s)])
          /\ rows' = IF ThisScan(s)
                     THEN rows \cup {[target |-> t, gen |-> s.gen,
                                       removable |-> Removable(t, s.view)]}
                     ELSE rows
    BY <1>3 DEF OnUsage
  <2> DEFINE k == [s EXCEPT !.todo = @ \ {t}, !.read = ThisScan(s)]
             w == [target |-> t, gen |-> s.gen, removable |-> Removable(t, s.view)]
  <2>2. DOMAIN k = ScanFields /\ k.todo \subseteq Target
    BY <1>2 DEF ScanFields
  <2>3. DOMAIN w = RowFields /\ w.target \in Target
    BY <1>2 DEF RowFields
  <2>4. scans' \subseteq scans \cup {k} /\ (rows' = rows \/ rows' = rows \cup {w})
    BY <2>1 DEF BecomesScan, Left
  <2> HIDE DEF k, w
  <2>5. IsFiniteSet(rows')
    BY <2>4, FS_AddElement DEF PlanInv
  <2> QED  BY <1>1, <2>2, <2>3, <2>4, <2>5 DEF PlanInv
<1>4. CASE OnScanned(s)
  BY <1>1, <1>4 DEF OnScanned, PlanInv
<1>5. CASE Drops(s)
  <2> DEFINE k == [s EXCEPT !.todo = {}]
  <2>1. DOMAIN k = ScanFields /\ k.todo \subseteq Target
    BY <1>2 DEF ScanFields
  <2>2. scans' \subseteq scans \cup {k} /\ rows' = rows
    BY <1>5 DEF Drops, BecomesScan, Left
  <2> HIDE DEF k
  <2> QED  BY <1>1, <2>1, <2>2 DEF PlanInv
<1> QED  BY <1>1, <1>3, <1>4, <1>5

(* What is planned is the chosen targets in some order.                    *)
LEMMA PlansAreTargets ==
  ASSUME PlanInv, NEW p \in Plans(Chosen)
  PROVE  p \in Seq(Target)
<1> DEFINE S == {w.target : w \in Chosen}
           n == Cardinality(S)
<1>1. S \subseteq Target
  BY DEF PlanInv, Chosen
<1>2. IsFiniteSet(Chosen)
  BY FS_Subset DEF PlanInv, Chosen
<1>3. IsFiniteSet(S)
  <2> DEFINE f == [w \in Chosen |-> w.target]
  <2>1. f \in Surjection(Chosen, S)
    BY DEF Surjection
  <2> QED  BY <1>2, <2>1, FS_Surjection
<1>4. n \in Nat
  BY <1>3, FS_CardinalityType
<1>5. p \in [1 .. n -> S]
  BY DEF Plans, SetToSeqs
<1> HIDE DEF S, n
<1> QED  BY <1>1, <1>4, <1>5

LEMMA KeysKeep ==
  ASSUME PlanInv, Keys
  PROVE  PlanInv' /\ UNCHANGED jobs
<1>1. UNCHANGED jobs
  BY DEF Keys, Toggle, RefreshKey, Back, RequestClean, Decide, EscModal, LeaveTab, EnterTab
<1>2. CASE Toggle \/ Back \/ Decide \/ EscModal
  <2>1. rows' = rows /\ scans' = scans
    BY <1>2 DEF Toggle, Back, Decide, EscModal, scanVars
  <2>2. plan' = plan \/ plan' = <<>>
    BY <1>2 DEF Toggle, Back, Decide, EscModal
  <2>3. plan \in Seq(Target)
    BY DEF PlanInv
  <2>4. <<>> \in Seq(Target)
    OBVIOUS
  <2>5. plan' \in Seq(Target)
    BY <2>2, <2>3, <2>4, Zenon
  <2> QED  BY <1>1, <2>1, <2>5 DEF PlanInv
<1>3. CASE RequestClean
  <2>1. plan' \in Plans(Chosen) /\ UNCHANGED <<rows, scans>>
    BY <1>3 DEF RequestClean, scanVars
  <2>2. plan' \in Seq(Target)
    BY <2>1, PlansAreTargets
  <2> QED  BY <1>1, <2>1, <2>2 DEF PlanInv
<1>4. CASE RefreshKey \/ EnterTab
  <2>1. StartScan /\ plan' \in Seq(Target)
    BY <1>4 DEF RefreshKey, EnterTab, PlanInv
  <2> QED  BY <1>1, <2>1, StartScanKeeps
<1>5. CASE LeaveTab
  <2>1. scans' = StopScan(scans) /\ UNCHANGED <<rows, plan>>
    BY <1>5 DEF LeaveTab
  <2> QED  BY <1>1, <2>1, StoppedScans DEF PlanInv
<1> QED  BY <1>2, <1>3, <1>4, <1>5 DEF Keys

-----------------------------------------------------------------------------
(* A cleaning begins with what was approved and seen idle.                 *)
LEMMA DecidedKeeps ==
  ASSUME IInv, OnDecided
  PROVE  IInv'
<1>1. plan' = <<>> /\ UNCHANGED <<rows, scans>>
  BY DEF OnDecided, scanVars
<1>2. PlanInv'
  BY <1>1 DEF IInv, PlanInv
<1>3. CASE UNCHANGED jobs
  BY <1>2, <1>3 DEF IInv, Spares, Spared
<1>4. CASE ~Reprotected(plan, seen) /\ jobs' = jobs \cup {NewJob(plan)}
  <2> DEFINE k == NewJob(plan)
  <2>1. DOMAIN k = JobFields /\ k.todo = plan /\ k.saw = seen /\ ~k.busy
    BY DEF NewJob, JobFields
  <2> HIDE DEF k
  <2>2. Spared(k)
    BY <1>4, <2>1 DEF Spared, Reprotected, IInv, PlanInv
  <2> QED  BY <1>2, <1>4, <2>2 DEF IInv, Spares, k
<1> QED  BY <1>3, <1>4 DEF OnDecided

LEMMA CleanStepKeeps ==
  ASSUME IInv, NEW j \in jobs, BeginsTarget(j) \/ EndsTarget(j) \/ EndsApply(j)
  PROVE  IInv'
<1>1. PlanInv'
  BY DEF IInv, PlanInv, BeginsTarget, EndsTarget, EndsApply, scanVars
<1>2. Spared(j) /\ DOMAIN j = JobFields
  BY DEF IInv, Spares, Spared
<1>3. ASSUME NEW k, BecomesJob(j, k), Spared(k)
      PROVE  IInv'
  BY <1>1, <1>3 DEF IInv, Spares, Spared, BecomesJob
<1>4. CASE BeginsTarget(j)
  <2> DEFINE k == [j EXCEPT !.busy = TRUE]
  <2>1. BecomesJob(j, k) /\ j.todo # <<>>
    BY <1>4 DEF BeginsTarget
  <2>2. DOMAIN k = JobFields /\ k.todo = j.todo /\ k.saw = j.saw
    BY <1>2 DEF JobFields
  <2> HIDE DEF k
  <2>3. Spared(k)
    BY <1>2, <2>1, <2>2, SameLeft
  <2> QED  BY <1>3, <2>1, <2>3
<1>5. CASE EndsTarget(j)
  <2>1. j.todo # <<>>
    BY <1>2, <1>5 DEF EndsTarget, Spared
  <2>2. PICK k \in {Removed(j), NotRemoved(j)} : BecomesJob(j, k)
    BY <1>5 DEF EndsTarget
  <2>3. DOMAIN k = JobFields /\ k.todo = Tail(j.todo) /\ k.saw = j.saw /\ ~k.busy
    BY <1>2 DEF Removed, NotRemoved, JobFields
  <2>4. Spared(k)
    BY <1>2, <2>1, <2>3, OneLess
  <2> QED  BY <1>3, <2>2, <2>4
<1>6. CASE EndsApply(j)
  <2> DEFINE k == [j EXCEPT !.over = TRUE]
  <2>1. BecomesJob(j, k) /\ ~j.busy
    BY <1>6 DEF EndsApply
  <2>2. DOMAIN k = JobFields /\ k.todo = j.todo /\ k.saw = j.saw /\ k.busy = j.busy
    BY <1>2 DEF JobFields
  <2> HIDE DEF k
  <2>3. Spared(k)
    BY <1>2, <2>1, <2>2, SameLeft
  <2> QED  BY <1>3, <2>1, <2>3
<1> QED  BY <1>4, <1>5, <1>6

LEMMA FinishKeeps ==
  ASSUME IInv, NEW c, Finish(c), UNCHANGED plan
  PROVE  IInv'
<1>1. CASE Settled(c)
  <2>1. StartScan /\ jobs' = {[j EXCEPT !.live = @ /\ j.id # c.job] : j \in jobs}
    BY <1>1 DEF Finish
  <2>2. PlanInv'
    BY <2>1, StartScanKeeps DEF IInv, PlanInv
  <2> QED  BY <2>1, <2>2, StoppedSpare DEF IInv
<1>2. CASE ~Settled(c)
  BY <1>2 DEF Finish, IInv, PlanInv, Spares, Spared, scanVars
<1> QED  BY <1>1, <1>2

LEMMA ProgressKeeps ==
  ASSUME IInv, NEW j \in jobs, OnProgress(j) \/ OnClosed(j) \/ OnApplyDone(j)
  PROVE  IInv'
<1>1. CASE OnProgress(j)
  <2> DEFINE k == [j EXCEPT !.ch = Tail(@)]
  <2>1. jobs' = (jobs \ {j}) \cup {k} /\ UNCHANGED <<rows, scans, plan>>
    BY <1>1 DEF OnProgress, scanVars
  <2>2. Spared(j) /\ DOMAIN j = JobFields
    BY DEF IInv, Spares, Spared
  <2>3. DOMAIN k = JobFields /\ k.todo = j.todo /\ k.saw = j.saw /\ k.busy = j.busy
    BY <2>2 DEF JobFields
  <2> HIDE DEF k
  <2>4. Spared(k)
    BY <2>2, <2>3, SameLeft
  <2> QED  BY <2>1, <2>4 DEF IInv, PlanInv, Spares, Spared
<1>2. CASE OnClosed(j)
  <2>1. CASE clean = NoClean
    BY <1>2, <2>1 DEF OnClosed, scanVars, IInv, PlanInv, Spares, Spared
  <2>2. CASE clean # NoClean
    BY <1>2, <2>2, FinishKeeps DEF OnClosed
  <2> QED  BY <2>1, <2>2
<1>3. CASE OnApplyDone(j)
  BY <1>3, FinishKeeps DEF OnApplyDone
<1> QED  BY <1>1, <1>2, <1>3

LEMMA ShutdownKeeps ==
  ASSUME IInv, Shutdown
  PROVE  IInv'
<1>1. /\ scans' = StopScan(scans) /\ UNCHANGED <<rows, plan>>
      /\ jobs' = {[j EXCEPT !.live = @ /\ j.id # clean.job] : j \in jobs}
  BY DEF Shutdown
<1> QED  BY <1>1, StoppedScans, StoppedSpare DEF IInv, PlanInv

LEMMA HostKeeps ==
  ASSUME IInv, JobBegins \/ JobEnds \/ Detect \/ UNCHANGED vars
  PROVE  IInv'
BY DEF JobBegins, JobEnds, Detect, vars, scanVars, IInv, PlanInv, Spares, Spared

-----------------------------------------------------------------------------
LEMMA Invariance == (Init => IInv) /\ (IInv /\ [Next]_vars => IInv')
<1>1. Init => IInv
  BY FS_EmptySet DEF Init, IInv, PlanInv, Spares
<1>2. ASSUME IInv, [Next]_vars
      PROVE  IInv'
  <2>1. ASSUME PlanInv', UNCHANGED jobs
        PROVE  IInv'
    BY <1>2, <2>1 DEF IInv, Spares, Spared
  <2> QED
    BY <1>2, <2>1, KeysKeep, ScanStepKeeps, CleanStepKeeps, DecidedKeeps, ProgressKeeps,
       ShutdownKeeps, HostKeeps DEF IInv, Next, ScanStep, CleanStep, Received
<1> QED  BY <1>1, <1>2

(* SparesSeenJobs: when the removal of a work directory ends, the job of   *)
(* its runner, if it has one, is not one the detection had shown when the  *)
(* user's yes was handled.                                                 *)
THEOREM SeenJobsAreSpared == Spec => SparesSeenJobs
<1>1. (Init => IInv) /\ (IInv /\ [Next]_vars => IInv')
  BY Invariance
<1>2. ASSUME IInv,
             NEW j \in jobs, j.busy, ~(\E k \in jobs' : k.id = j.id /\ k.busy),
             KindOf(Head(j.todo)) = "work", host[BaseOf(Head(j.todo))] # 0
      PROVE  j.saw[BaseOf(Head(j.todo))] # host[BaseOf(Head(j.todo))]
  <2>1. /\ j.todo \in Seq(Target) /\ j.todo # <<>>
        /\ \A k \in DOMAIN j.todo : KindOf(j.todo[k]) = "work" => j.saw[BaseOf(j.todo[k])] = 0
    BY <1>2 DEF IInv, Spares, Spared
  <2>2. 1 \in DOMAIN j.todo /\ Head(j.todo) = j.todo[1]
    BY <2>1
  <2> QED  BY <1>2, <2>1, <2>2
<1>3. IInv => [\A j \in jobs : j.busy /\ ~(\E k \in jobs' : k.id = j.id /\ k.busy) =>
                 LET t == Head(j.todo)
                 IN KindOf(t) = "work" /\ host[BaseOf(t)] # 0
                      => j.saw[BaseOf(t)] # host[BaseOf(t)]]_vars
  BY <1>2
<1> QED  BY <1>1, <1>3, PTL DEF Spec, SparesSeenJobs

-----------------------------------------------------------------------------
(* What is reported.  Keys wait for their answer and a target is known by  *)
(* its name.                                                               *)

Patient == ~Hasty /\ \A t, u \in Target : LabelOf(t) = LabelOf(u) => t = u

Once(s) == \A k, l \in DOMAIN s : s[k] = s[l] => k = l
Modals == {"confirm", "progress"}
CleanFields == {"job", "items", "marks", "closed", "result"}

(* While a cleaning is on the screen its progress is on top and cannot be  *)
(* closed, so nothing is approved meanwhile: there is one at a time.       *)
Screen ==
  /\ stack \in Seq(Modals) /\ Once(plan)
  /\ decided = {} \/ (clean = NoClean /\ \E d \in decided : decided = {d})
  /\ TopOf(stack) = "confirm" => clean = NoClean
  /\ clean # NoClean => TopOf(stack) = "progress" /\ spins

(* The cleanings so far are numbered without a gap.                        *)
Numbered(n) ==
  /\ n <= MaxCleans
  /\ \A j \in jobs : j.id \in 1 .. n
  /\ \A k \in 1 .. n : \E j \in jobs : j.id = k
  /\ \A j, k \in jobs : j.id = k.id => j = k
  /\ report.job \in 0 .. n
  /\ clean # NoClean => clean.job \in 1 .. n

(* One command waits for the cleaning on the screen until its channel is   *)
(* closed, none for another.                                               *)
Asked ==
  /\ asks \in [1 .. MaxCleans -> Nat]
  /\ ~quit => \A k \in 1 .. MaxCleans :
       asks[k] = IF clean # NoClean /\ clean.job = k /\ ~clean.closed THEN 1 ELSE 0

Notes == [label : {LabelOf(t) : t \in Target}, good : BOOLEAN]

Works(j) ==
  /\ j.done \in Seq(Target) /\ j.bad \in Seq(Target) /\ j.ch \in Seq(Notes)
  /\ j.over => ~j.busy

(* Targets the goroutine is done with, and those the screen knows of.      *)
Answered(j) == Len(j.done) + Len(j.bad)
Marked(j)   == Answered(j) - Len(j.ch)

(* The rows of c are the targets of j in their order: G went well, the     *)
(* rest of those answered did not; the first ones are marked, the next are *)
(* in the channel, the last are still to do.                               *)
Books(j, c, G) ==
  /\ DOMAIN c = CleanFields
  /\ c.items \in Seq(Target) /\ Once(c.items)
  /\ Answered(j) + Len(j.todo) = Len(c.items)
  /\ \A k \in DOMAIN j.todo : j.todo[k] = c.items[Answered(j) + k]
  /\ Len(j.ch) <= Answered(j)
  /\ G \subseteq 1 .. Answered(j) /\ Cardinality(G) = Len(j.done)
  /\ \A k \in DOMAIN j.ch : /\ j.ch[k].label = LabelOf(c.items[Marked(j) + k])
                            /\ j.ch[k].good <=> Marked(j) + k \in G
  /\ DOMAIN c.marks = 1 .. Len(c.items)
  /\ \A k \in DOMAIN c.marks :
       c.marks[k] = IF k > Marked(j) THEN "waiting" ELSE IF k \in G THEN "done" ELSE "failed"
  /\ c.closed => j.over /\ j.ch = <<>>

Kept == clean # NoClean =>
          \A j \in jobs : j.id = clean.job => \E G : Books(j, clean, G)

Reported ==
  \A j \in jobs : j.id = report.job =>
    /\ j.over
    /\ report.done = Len(j.done)
    /\ report.failed = Len(j.bad)
    /\ report.pending = Len(j.todo)

RInv == /\ Screen /\ (\E n \in Nat : Numbered(n)) /\ Asked
        /\ (\A j \in jobs : Works(j)) /\ Kept /\ Reported

-----------------------------------------------------------------------------
(* The stack of modals: what is pushed is on top.                          *)
LEMMA PushedIsOnTop ==
  ASSUME NEW K, NEW s \in Seq(K), NEW kind \in K
  PROVE  Pushed(s, kind) \in Seq(K) /\ TopOf(Pushed(s, kind)) = kind
<1> DEFINE at == {i \in DOMAIN s : s[i] = kind}
           i  == CHOOSE i \in at : TRUE
           kept == SubSeq(s, 1, i - 1) \o SubSeq(s, i + 1, Len(s))
<1>1. ASSUME NEW k \in Seq(K)
      PROVE  Append(k, kind) \in Seq(K) /\ TopOf(Append(k, kind)) = kind
  <2>1. PICK x : x = Append(k, kind)
    OBVIOUS
  <2>2. x \in Seq(K) /\ x # <<>> /\ Len(x) = Len(k) + 1 /\ x[Len(k) + 1] = kind
    BY <2>1, AppendProperties
  <2>3. TopOf(x) = kind
    BY <2>2 DEF TopOf
  <2> QED  BY <2>1, <2>2, <2>3
<1>2. CASE at = {}
  BY <1>1, <1>2 DEF Pushed
<1>3. CASE at # {}
  <2>1. i \in at
    BY <1>3
  <2> HIDE DEF i
  <2>2. kept \in Seq(K)
    BY <2>1
  <2> HIDE DEF kept
  <2>3. Pushed(s, kind) = Append(kept, kind)
    BY <1>3 DEF Pushed, kept, i
  <2> QED  BY <1>1, <2>2, <2>3
<1> QED  BY <1>2, <1>3

LEMMA ClosedIsStack ==
  ASSUME NEW K, NEW s \in Seq(K)
  PROVE  Closed(s) \in Seq(K)
<1>1. CASE s = <<>>
  BY <1>1 DEF Closed
<1>2. CASE s # <<>>
  BY <1>2 DEF Closed
<1> QED  BY <1>1, <1>2

(* A plan has no target twice.                                             *)
LEMMA PlansHaveEachOnce ==
  ASSUME PlanInv, NEW p \in Plans(Chosen)
  PROVE  Once(p)
<1> DEFINE S == {w.target : w \in Chosen}
           n == Cardinality(S)
<1>1. p \in [1 .. n -> S] /\ \A i, j \in 1 .. n : p[i] = p[j] => i = j
  BY DEF Plans, SetToSeqs, IsInjective
<1> HIDE DEF S, n
<1> QED  BY <1>1 DEF Once

-----------------------------------------------------------------------------
(* Steps of scans, of the host and of the keys of the table.               *)
LEMMA ElseSame ==
  ASSUME RInv, UNCHANGED <<plan, clean, stack, spins, report, jobs, asks, decided, quit>>
  PROVE  RInv'
BY DEF RInv, Screen, Numbered, Asked, Works, Kept, Reported, Once

(* Only the screen changes.                                                *)
LEMMA ScreenOnly ==
  ASSUME RInv, Screen', UNCHANGED <<clean, report, jobs, asks, quit>>
  PROVE  RInv'
BY DEF RInv, Numbered, Asked, Works, Kept, Reported

LEMMA KeysKeepReport ==
  ASSUME Patient, IInv, RInv, Keys
  PROVE  RInv'
<1>1. CASE Toggle \/ RefreshKey \/ Back \/ LeaveTab \/ EnterTab
  <2>1. UNCHANGED <<plan, clean, stack, spins, report, jobs, asks, decided, quit>>
    BY <1>1 DEF Toggle, RefreshKey, Back, LeaveTab, EnterTab
  <2> QED  BY <2>1, ElseSame
<1>2. CASE RequestClean
  <2>1. /\ stack = <<>> /\ clean = NoClean /\ plan' \in Plans(Chosen)
        /\ stack' = Pushed(stack, "confirm")
        /\ UNCHANGED <<clean, spins, report, jobs, asks, decided, quit>>
    BY <1>2 DEF RequestClean, Free
  <2>2. Once(plan') /\ stack' \in Seq(Modals)
    BY <2>1, PlansHaveEachOnce, PushedIsOnTop DEF IInv, RInv, Screen, Modals
  <2>3. Screen'
    BY <2>1, <2>2 DEF RInv, Screen, Once
  <2> QED  BY <2>1, <2>3, ScreenOnly
<1>3. CASE Decide
  <2>1. /\ TopOf(stack) = "confirm" /\ decided = {}
        /\ UNCHANGED <<plan, clean, stack, spins, report, jobs, asks, quit>>
    BY <1>3 DEF Decide, Patient
  <2>2. PICK yes \in BOOLEAN :
          decided' = decided \cup {[yes |-> yes, n |-> Cardinality(decided)]}
    BY <1>3 DEF Decide
  <2>3. Screen'
    BY <2>1, <2>2 DEF RInv, Screen, Once
  <2> QED  BY <2>1, <2>3, ScreenOnly
<1>4. CASE EscModal
  <2>1. /\ decided = {} /\ stack' = Closed(stack) /\ (plan' = <<>> \/ plan' = plan)
        /\ TopOf(stack) = "progress" => ~spins
        /\ UNCHANGED <<clean, spins, report, jobs, asks, decided, quit>>
    BY <1>4 DEF EscModal, Patient
  <2>2. clean = NoClean /\ stack' \in Seq(Modals)
    BY <2>1, ClosedIsStack DEF RInv, Screen
  <2>3. Once(<<>>)
    BY DEF Once
  <2>4. Once(plan')
    BY <2>1, <2>3 DEF RInv, Screen
  <2>5. Screen'
    BY <2>1, <2>2, <2>4 DEF Screen, Once
  <2> QED  BY <2>1, <2>5, ScreenOnly
<1> QED  BY <1>1, <1>2, <1>3, <1>4 DEF Keys

-----------------------------------------------------------------------------
(* The number of a cleaning.                                               *)
LEMMA NewIdIsNext ==
  ASSUME NEW n \in Nat, Numbered(n)
  PROVE  NewId = n + 1
<1>1. {k \in 1 .. MaxCleans : \E j \in jobs : j.id = k} = 1 .. n
  BY DiskTabAssumption DEF Numbered
<1>2. Cardinality(1 .. n) = n
  BY FS_Interval
<1> QED  BY <1>1, <1>2 DEF NewId

LEMMA DecidedKeepsReport ==
  ASSUME Patient, IInv, RInv, OnDecided
  PROVE  RInv'
<1>1. clean = NoClean /\ decided' = {} /\ plan' = <<>> /\ UNCHANGED <<report, quit>> /\ ~quit
  BY DEF OnDecided, RInv, Screen
<1>2. Once(plan')
  BY <1>1 DEF Once
<1>3. Closed(stack) \in Seq(Modals)
  BY ClosedIsStack DEF RInv, Screen
<1>4. CASE stack' = Closed(stack) /\ UNCHANGED <<jobs, asks, clean, spins>>
  <2>1. Screen'
    BY <1>1, <1>2, <1>3, <1>4 DEF Screen
  <2> QED  BY <1>1, <1>4, <2>1, ScreenOnly
<1>5. CASE /\ NewId <= MaxCleans
           /\ jobs' = jobs \cup {NewJob(plan)}
           /\ asks' = [asks EXCEPT ![NewId] = 1]
           /\ clean' = [NoClean EXCEPT !.job = NewId, !.items = plan,
                          !.marks = [k \in DOMAIN plan |-> "waiting"]]
           /\ stack' = Pushed(Closed(stack), "progress")
           /\ spins' = TRUE
  <2>1. PICK n \in Nat : Numbered(n)
    BY DEF RInv
  <2>2. NewId = n + 1 /\ n + 1 \in 1 .. MaxCleans
    BY <1>5, <2>1, NewIdIsNext, DiskTabAssumption
  <2> DEFINE k == NewJob(plan)
  <2>3. /\ k.id = n + 1 /\ k.todo = plan /\ k.done = <<>> /\ k.bad = <<>> /\ k.ch = <<>>
        /\ ~k.busy /\ ~k.over
    BY <2>2 DEF NewJob
  <2>4. /\ DOMAIN clean' = CleanFields /\ clean'.job = n + 1 /\ clean'.items = plan
        /\ clean'.marks = [i \in DOMAIN plan |-> "waiting"]
        /\ ~clean'.closed /\ clean' # NoClean
    <3> DEFINE m == [i \in DOMAIN plan |-> "waiting"]
    <3>1. clean' = [NoClean EXCEPT !.job = n + 1, !.items = plan, !.marks = m]
      BY <1>5, <2>2
    <3> HIDE DEF m
    <3>2. clean' = [job |-> n + 1, items |-> plan, marks |-> m, closed |-> FALSE, result |-> FALSE]
      BY <3>1 DEF NoClean
    <3>3. clean'.job # NoClean.job
      BY <2>2, <3>2 DEF NoClean
    <3>4. clean' # NoClean
      BY <3>3
    <3> QED  BY <3>2, <3>4 DEF CleanFields, m
  <2>5. plan \in Seq(Target) /\ Once(plan) /\ Len(plan) \in Nat /\ DOMAIN plan = 1 .. Len(plan)
    BY DEF IInv, PlanInv, RInv, Screen
  <2>6. jobs' = jobs \cup {k}
    BY <1>5
  <2> HIDE DEF k
  <2>7. Screen'
    BY <1>1, <1>2, <1>3, <1>5, <2>4, PushedIsOnTop DEF Screen, Modals
  <2>8. Numbered(n + 1)'
    BY <1>1, <2>1, <2>2, <2>3, <2>4, <2>6 DEF Numbered
  <2>9. Asked'
    BY <1>1, <1>5, <2>2, <2>4 DEF Asked, RInv
  <2>10. Works(k)
    <3>1. <<>> \in Seq(Target) /\ <<>> \in Seq(Notes)
      OBVIOUS
    <3> QED  BY <2>3, <3>1 DEF Works
  <2>11. Answered(k) = 0 /\ Marked(k) = 0 /\ Len(k.ch) = 0 /\ DOMAIN k.ch = {}
    BY <2>3 DEF Answered, Marked
  <2>12. Books(k, clean', {})
    BY <2>3, <2>4, <2>5, <2>11, FS_EmptySet DEF Books
  <2>13. \A j \in jobs : j.id # n + 1
    BY <2>1 DEF Numbered
  <2>14. Kept'
    <3>1. SUFFICES ASSUME NEW j \in jobs', j.id = clean'.job
                   PROVE  \E G : Books(j, clean', G)
      BY DEF Kept
    <3>2. j = k
      BY <2>4, <2>6, <2>13, <3>1
    <3> QED  BY <2>12, <3>2
  <2>15. Reported'
    BY <1>1, <2>1, <2>3, <2>6 DEF Reported, Numbered, RInv
  <2>16. \A j \in jobs' : Works(j)
    BY <2>6, <2>10 DEF RInv
  <2>17. (\A j \in jobs : Works(j))'
    BY <2>16 DEF Works
  <2> QED  BY <2>2, <2>7, <2>8, <2>9, <2>14, <2>15, <2>17 DEF RInv
<1> QED  BY <1>4, <1>5 DEF OnDecided

-----------------------------------------------------------------------------
(* A goroutine goes on.                                                    *)
LEMMA GoesOn ==
  ASSUME RInv, NEW j \in jobs, NEW k, k.id = j.id, BecomesJob(j, k), Works(k),
         UNCHANGED <<plan, clean, stack, spins, report, asks, decided, quit>>,
         clean # NoClean /\ j.id = clean.job => \E G : Books(k, clean, G),
         j.id # report.job
  PROVE  RInv'
<1>1. jobs' = (jobs \ {j}) \cup {k}
  BY DEF BecomesJob
<1>2. Screen' /\ Asked'
  BY DEF RInv, Screen, Asked, Once
<1>3. PICK n \in Nat : Numbered(n)
  BY DEF RInv
<1>4. Numbered(n)'
  BY <1>1, <1>3 DEF Numbered
<1>5. (\A i \in jobs : Works(i))'
  BY <1>1 DEF RInv, Works
<1>6. Kept'
  <2>1. SUFFICES ASSUME clean # NoClean, NEW i \in jobs', i.id = clean.job
                 PROVE  \E G : Books(i, clean, G)
    BY DEF Kept
  <2>2. CASE i = k
    BY <2>1, <2>2
  <2>3. CASE i \in jobs
    BY <2>1, <2>3 DEF Kept, RInv
  <2> QED  BY <1>1, <2>2, <2>3
<1>7. Reported'
  BY <1>1 DEF Reported, RInv
<1> QED  BY <1>2, <1>3, <1>4, <1>5, <1>6, <1>7 DEF RInv

LEMMA OneLonger ==
  ASSUME NEW S, NEW s \in Seq(S), NEW r \in Seq(S), NEW x \in S, NEW t, t = Append(s, x)
  PROVE  /\ t \in Seq(S) /\ Len(t) = Len(s) + 1
         /\ Len(t) + Len(r) = Len(s) + Len(r) + 1
         /\ Len(r) + Len(t) = Len(r) + Len(s) + 1
         /\ Len(s) + Len(r) \in Nat
<1> DEFINE a == Len(s)
           b == Len(r)
<1>1. a \in Nat /\ b \in Nat /\ t \in Seq(S) /\ Len(t) = a + 1
  OBVIOUS
<1> HIDE DEF a, b
<1>2. (a + 1) + b = a + b + 1 /\ b + (a + 1) = b + a + 1 /\ a + b \in Nat
  BY <1>1
<1> QED  BY <1>1, <1>2 DEF a, b

(* One target is done with.                                                *)
LEMMA OneAnswered ==
  ASSUME NEW j, Spared(j), Works(j), j.todo # <<>>, NEW c, NEW G, Books(j, c, G),
         NEW k \in {Removed(j), NotRemoved(j)}, ~j.over
  PROVE  \E H : Books(k, c, H)
<1> DEFINE q == Answered(j) + 1
<1>1. /\ Len(j.done) \in Nat /\ Len(j.bad) \in Nat /\ Len(j.ch) \in Nat /\ Len(j.todo) \in Nat
      /\ Len(j.todo) > 0 /\ Len(j.todo) # 0
  BY DEF Spared, Works
<1>2. /\ Head(j.todo) = j.todo[1] /\ 1 \in DOMAIN j.todo
      /\ Len(Tail(j.todo)) = Len(j.todo) - 1
      /\ \A i \in 1 .. Len(j.todo) - 1 : Tail(j.todo)[i] = j.todo[i + 1]
      /\ DOMAIN Tail(j.todo) = 1 .. Len(j.todo) - 1 /\ Head(j.todo) \in Target
  BY <1>1 DEF Spared
<1>3. Head(j.todo) = c.items[q]
  BY <1>2 DEF Books
<1>4. PICK g \in BOOLEAN :
        /\ k.ch = Append(j.ch, [label |-> LabelOf(Head(j.todo)), good |-> g])
        /\ k.todo = Tail(j.todo) /\ k.over = j.over
        /\ k.done = IF g THEN Append(j.done, Head(j.todo)) ELSE j.done
        /\ k.bad = IF g THEN j.bad ELSE Append(j.bad, Head(j.todo))
  <2>1. DOMAIN j = JobFields
    BY DEF Spared
  <2>2. CASE k = Removed(j)
    <3>1. /\ k.ch = Told(j, TRUE) /\ k.todo = Tail(j.todo) /\ k.over = j.over
          /\ k.done = Append(j.done, Head(j.todo)) /\ k.bad = j.bad
      BY <2>1, <2>2 DEF Removed, JobFields
    <3> QED  BY <3>1 DEF Told
  <2>3. CASE k = NotRemoved(j)
    <3>1. /\ k.ch = Told(j, FALSE) /\ k.todo = Tail(j.todo) /\ k.over = j.over
          /\ k.bad = Append(j.bad, Head(j.todo)) /\ k.done = j.done
      BY <2>1, <2>3 DEF NotRemoved, JobFields
    <3> QED  BY <3>1 DEF Told
  <2> QED  BY <2>2, <2>3
<1> DEFINE note == [label |-> LabelOf(Head(j.todo)), good |-> g]
<1>5. note.label = LabelOf(c.items[q]) /\ (note.good <=> g) /\ note \in Notes
  BY <1>2, <1>3 DEF Notes
<1>6. k.ch = Append(j.ch, note)
  BY <1>4
<1> HIDE DEF note
<1>7. /\ Len(k.ch) = Len(j.ch) + 1 /\ DOMAIN k.ch = 1 .. Len(j.ch) + 1
      /\ \A i \in 1 .. Len(j.ch) : k.ch[i] = j.ch[i]
      /\ k.ch[Len(j.ch) + 1] = note
  BY <1>5, <1>6 DEF Works
<1>8. /\ k.done \in Seq(Target) /\ k.bad \in Seq(Target)
      /\ g => Len(k.done) = Len(j.done) + 1
      /\ ~g => Len(k.done) = Len(j.done)
      /\ Len(k.done) + Len(k.bad) = Len(j.done) + Len(j.bad) + 1
  <2> DEFINE d == j.done
             b == j.bad
             x == Head(j.todo)
             dd == k.done
             bb == k.bad
  <2>1. /\ d \in Seq(Target) /\ b \in Seq(Target) /\ x \in Target
        /\ dd = (IF g THEN Append(d, x) ELSE d) /\ bb = (IF g THEN b ELSE Append(b, x))
    BY <1>2, <1>4 DEF Works
  <2> HIDE DEF d, b, x, dd, bb
  <2>2. CASE g
    <3>1. dd = Append(d, x) /\ bb = b
      BY <2>1, <2>2
    <3>2. /\ dd \in Seq(Target) /\ bb \in Seq(Target) /\ Len(dd) = Len(d) + 1
          /\ Len(dd) + Len(bb) = Len(d) + Len(b) + 1
      BY <2>1, <3>1, OneLonger
    <3> QED  BY <2>2, <3>2 DEF d, b, dd, bb
  <2>3. CASE ~g
    <3>1. bb = Append(b, x) /\ dd = d
      BY <2>1, <2>3
    <3>2. /\ dd \in Seq(Target) /\ bb \in Seq(Target) /\ Len(dd) = Len(d)
          /\ Len(dd) + Len(bb) = Len(d) + Len(b) + 1
      BY <2>1, <3>1, OneLonger
    <3> QED  BY <2>3, <3>2 DEF d, b, dd, bb
  <2> QED  BY <1>4, <2>2, <2>3
<1>9. Answered(k) = Answered(j) + 1 /\ Marked(k) = Marked(j) /\ q = Marked(j) + Len(j.ch) + 1
      /\ Answered(j) \in Nat /\ Marked(j) \in Nat
  <2>1. Len(j.ch) <= Len(j.done) + Len(j.bad)
    BY DEF Books, Answered
  <2> DEFINE a == Len(j.done) + Len(j.bad)
             b == Len(k.done) + Len(k.bad)
             l == Len(j.ch)
  <2>2. a \in Nat /\ l \in Nat /\ l <= a /\ b = a + 1 /\ Len(k.ch) = l + 1
    <3>1. \A m, n \in Nat : m + n \in Nat
      OBVIOUS
    <3> QED  BY <1>1, <1>7, <1>8, <2>1, <3>1
  <2>3. Answered(j) = a /\ Answered(k) = b /\ Marked(j) = a - l /\ Marked(k) = b - Len(k.ch)
    BY DEF Answered, Marked
  <2> HIDE DEF a, b, l
  <2>4. q = a + 1 /\ Marked(k) = a - l /\ a - l \in Nat /\ a + 1 = (a - l) + l + 1
    BY <2>2, <2>3
  <2> QED  BY <2>2, <2>3, <2>4 DEF l
<1> DEFINE H == IF g THEN G \cup {q} ELSE G
<1>10. IsFiniteSet(G) /\ q \notin G
  <2>1. IsFiniteSet(1 .. Answered(j))
    BY <1>9, FS_Interval
  <2>2. IsFiniteSet(G)
    BY <2>1, FS_Subset DEF Books
  <2> QED  BY <2>2, <1>9 DEF Books
<1>11. Cardinality(H) = Len(k.done)
  <2>1. Cardinality(G) = Len(j.done) /\ Cardinality(G \cup {q}) = Cardinality(G) + 1
    BY <1>10, FS_AddElement DEF Books
  <2> QED  BY <1>4, <1>8, <2>1
<1>12. H \subseteq 1 .. Answered(k) /\ \A i \in 1 .. Answered(j) : i \in H <=> i \in G
  <2>1. G \subseteq 1 .. Answered(j)
    BY DEF Books
  <2>2. H \subseteq G \cup {q} /\ G \subseteq H /\ q \in 1 .. Answered(k)
    BY <1>9
  <2>3. 1 .. Answered(j) \subseteq 1 .. Answered(k) /\ q \notin 1 .. Answered(j)
    BY <1>9
  <2> HIDE DEF H, q
  <2> QED  BY <2>1, <2>2, <2>3
<1>13. q \in H <=> g
  BY <1>10
<1> HIDE DEF H
<1>14. ASSUME NEW i \in DOMAIN k.ch
       PROVE  /\ k.ch[i].label = LabelOf(c.items[Marked(k) + i])
              /\ k.ch[i].good <=> Marked(k) + i \in H
  <2>1. CASE i \in 1 .. Len(j.ch)
    <3>1. i \in DOMAIN j.ch /\ Marked(j) + i \in 1 .. Answered(j)
      BY <1>9, <2>1, <1>1 DEF Works
    <3> QED  BY <1>7, <1>9, <1>12, <2>1, <3>1 DEF Books
  <2>2. CASE i = Len(j.ch) + 1
    <3>1. Marked(k) + i = q
      BY <1>9, <2>2, <1>1
    <3> QED  BY <1>5, <1>7, <1>13, <2>2, <3>1
  <2> QED  BY <1>7, <2>1, <2>2
<1>15. ASSUME NEW i \in DOMAIN k.todo
       PROVE  k.todo[i] = c.items[Answered(k) + i]
  <2>1. i \in 1 .. Len(j.todo) - 1 /\ i + 1 \in DOMAIN j.todo
    BY <1>1, <1>2, <1>4, <1>15 DEF Spared
  <2>2. k.todo[i] = j.todo[i + 1]
    BY <1>2, <1>4, <2>1
  <2>3. j.todo[i + 1] = c.items[Answered(j) + (i + 1)]
    BY <2>1 DEF Books
  <2>4. Answered(j) + (i + 1) = Answered(k) + i
    BY <1>9, <2>1
  <2> QED  BY <2>2, <2>3, <2>4
<1>16. Answered(k) + Len(k.todo) = Len(c.items) /\ Len(k.ch) <= Answered(k)
  <2>1. Answered(j) + Len(j.todo) = Len(c.items) /\ Len(j.ch) <= Answered(j)
    BY DEF Books
  <2>2. Len(k.todo) = Len(j.todo) - 1 /\ Len(k.ch) = Len(j.ch) + 1
    BY <1>2, <1>4, <1>7
  <2>3. PICK x \in Nat, y \in Nat, z \in Nat :
          x = Answered(j) /\ y = Len(j.todo) /\ z = Len(j.ch)
    BY <1>1, <1>9
  <2>4. Answered(k) = x + 1 /\ Len(k.todo) = y - 1 /\ Len(k.ch) = z + 1 /\ z <= x
    BY <1>9, <2>1, <2>2, <2>3
  <2>5. (x + 1) + (y - 1) = x + y
    BY <2>3
  <2> QED  BY <2>1, <2>3, <2>4, <2>5
<1>17. ASSUME NEW i \in DOMAIN c.marks
       PROVE  c.marks[i] = IF i > Marked(k) THEN "waiting" ELSE IF i \in H THEN "done" ELSE "failed"
  <2>1. i \in 1 .. Len(c.items) /\ (i <= Marked(j) => i \in 1 .. Answered(j))
    BY <1>1, <1>9 DEF Books, Marked
  <2> QED  BY <1>9, <1>12, <2>1 DEF Books
<1>18. Books(k, c, H)
  BY <1>11, <1>12, <1>14, <1>15, <1>16, <1>17, <1>4 DEF Books
<1> QED  BY <1>18

LEMMA SameBooks ==
  ASSUME NEW j, NEW k, NEW c, NEW G, Books(j, c, G), k.todo = j.todo, k.done = j.done,
         k.bad = j.bad, k.ch = j.ch, k.over = j.over \/ k.over
  PROVE  Books(k, c, G)
<1>1. Answered(k) = Answered(j) /\ Marked(k) = Marked(j)
  BY DEF Answered, Marked
<1>2. c.closed => k.over /\ k.ch = <<>>
  BY DEF Books
<1> QED  BY <1>1, <1>2, Zenon DEF Books

LEMMA CleanStepKeepsReport ==
  ASSUME IInv, RInv, NEW j \in jobs, BeginsTarget(j) \/ EndsTarget(j) \/ EndsApply(j)
  PROVE  RInv'
<1>1. UNCHANGED <<plan, clean, stack, spins, report, asks, decided, quit>>
  BY DEF BeginsTarget, EndsTarget, EndsApply
<1>2. Spared(j) /\ DOMAIN j = JobFields /\ Works(j)
  BY DEF IInv, Spares, Spared, RInv
<1>3. ~j.over /\ j.id # report.job
  <2>1. ~j.over
    BY <1>2 DEF BeginsTarget, EndsTarget, EndsApply, Works
  <2> QED  BY <2>1 DEF RInv, Reported
<1>4. clean # NoClean /\ j.id = clean.job => \E G : Books(j, clean, G)
  BY DEF RInv, Kept
<1>5. CASE BeginsTarget(j) \/ EndsApply(j)
  <2>1. PICK k \in {[j EXCEPT !.busy = TRUE], [j EXCEPT !.over = TRUE]} :
          BecomesJob(j, k) /\ (k.over => ~k.busy)
    <3>1. CASE BeginsTarget(j)
      <4>1. ~[j EXCEPT !.busy = TRUE].over
        BY <1>2, <1>3 DEF JobFields
      <4> QED  BY <3>1, <4>1 DEF BeginsTarget
    <3>2. CASE EndsApply(j)
      <4>1. ~j.busy /\ BecomesJob(j, [j EXCEPT !.over = TRUE])
        BY <3>2 DEF EndsApply
      <4>2. ~[j EXCEPT !.over = TRUE].busy
        BY <1>2, <4>1 DEF JobFields
      <4> QED  BY <4>1, <4>2
    <3> QED  BY <1>5, <3>1, <3>2
  <2>2. /\ k.id = j.id /\ k.todo = j.todo /\ k.done = j.done /\ k.bad = j.bad /\ k.ch = j.ch
        /\ k.over = j.over \/ k.over
    BY <1>2 DEF JobFields
  <2>3. Works(k)
    BY <1>2, <2>1, <2>2 DEF Works
  <2>4. clean # NoClean /\ j.id = clean.job => \E G : Books(k, clean, G)
    BY <1>4, <2>2, SameBooks
  <2> QED  BY <1>1, <1>3, <2>1, <2>2, <2>3, <2>4, GoesOn
<1>6. CASE EndsTarget(j)
  <2>1. j.todo # <<>> /\ Head(j.todo) \in Target
    <3>1. j.todo \in Seq(Target) /\ j.todo # <<>>
      BY <1>2, <1>6 DEF EndsTarget, Spared
    <3> QED  BY <3>1
  <2>2. PICK k \in {Removed(j), NotRemoved(j)} : BecomesJob(j, k)
    BY <1>6 DEF EndsTarget
  <2> DEFINE x == Head(j.todo)
  <2>3. PICK g \in BOOLEAN :
          /\ k.id = j.id /\ k.ch = Append(j.ch, [label |-> LabelOf(x), good |-> g])
          /\ k.done \in {j.done, Append(j.done, x)} /\ k.bad \in {j.bad, Append(j.bad, x)}
          /\ ~k.busy
    <3>1. CASE k = Removed(j)
      <4>1. /\ k.id = j.id /\ k.ch = Told(j, TRUE) /\ ~k.busy
            /\ k.done = Append(j.done, x) /\ k.bad = j.bad
        BY <1>2, <3>1 DEF Removed, JobFields
      <4> QED  BY <4>1 DEF Told
    <3>2. CASE k = NotRemoved(j)
      <4>1. /\ k.id = j.id /\ k.ch = Told(j, FALSE) /\ ~k.busy
            /\ k.bad = Append(j.bad, x) /\ k.done = j.done
        BY <1>2, <3>2 DEF NotRemoved, JobFields
      <4> QED  BY <4>1 DEF Told
    <3> QED  BY <3>1, <3>2
  <2>4. Works(k)
    <3> DEFINE note == [label |-> LabelOf(x), good |-> g]
    <3>1. note \in Notes
      BY <2>1 DEF Notes
    <3> HIDE DEF note
    <3>2. k.ch \in Seq(Notes)
      BY <1>2, <2>3, <3>1 DEF Works, note
    <3> HIDE DEF x
    <3>3. \A s \in Seq(Target) : Append(s, x) \in Seq(Target)
      BY <2>1 DEF x
    <3>4. k.done \in Seq(Target) /\ k.bad \in Seq(Target)
      BY <1>2, <2>3, <3>3 DEF Works
    <3> QED  BY <2>3, <3>2, <3>4 DEF Works
  <2> HIDE DEF x
  <2>5. clean # NoClean /\ j.id = clean.job => \E G : Books(k, clean, G)
    BY <1>2, <1>3, <1>4, <2>1, OneAnswered
  <2> QED  BY <1>1, <1>3, <2>2, <2>3, <2>4, <2>5, GoesOn
<1> QED  BY <1>5, <1>6

-----------------------------------------------------------------------------
(* Goroutines that are told to stop are what they were.                    *)
LEMMA StoppedAlike ==
  ASSUME IInv, RInv, NEW n,
         jobs' = {[j EXCEPT !.live = @ /\ j.id # n] : j \in jobs},
         report'.job = report.job \/ \E j \in jobs : report'.job = j.id, clean' = NoClean
  PROVE  /\ \E m \in Nat : Numbered(m)'
         /\ (\A j \in jobs : Works(j))'
         /\ \A k \in jobs' : \E j \in jobs : /\ k.id = j.id /\ k.over = j.over /\ k.done = j.done
                                             /\ k.bad = j.bad /\ k.todo = j.todo
<1> DEFINE f(j) == [j EXCEPT !.live = @ /\ j.id # n]
<1>1. \A j \in jobs : /\ f(j).id = j.id /\ f(j).over = j.over /\ f(j).done = j.done
                      /\ f(j).bad = j.bad /\ f(j).todo = j.todo /\ f(j).ch = j.ch
                      /\ f(j).busy = j.busy
  BY DEF IInv, Spares, Spared, JobFields
<1>2. jobs' = {f(j) : j \in jobs}
  OBVIOUS
<1> HIDE DEF f
<1>3. \A k \in jobs' : \E j \in jobs : k = f(j)
  BY <1>2
<1>4. \A j \in jobs : f(j) \in jobs'
  BY <1>2
<1>5. PICK m \in Nat : Numbered(m)
  BY DEF RInv
<1>6. Numbered(m)'
  <2>1. \A j \in jobs' : j.id \in 1 .. m
    BY <1>1, <1>3, <1>5 DEF Numbered
  <2>2. \A k \in 1 .. m : \E j \in jobs' : j.id = k
    BY <1>1, <1>4, <1>5 DEF Numbered
  <2>3. \A j, k \in jobs' : j.id = k.id => j = k
    BY <1>1, <1>3, <1>5 DEF Numbered
  <2>4. report'.job \in 0 .. m
    BY <1>5 DEF Numbered
  <2> QED  BY <1>5, <2>1, <2>2, <2>3, <2>4 DEF Numbered
<1>7. \A k \in jobs' : Works(k)
  <2>1. SUFFICES ASSUME NEW k \in jobs' PROVE Works(k)
    OBVIOUS
  <2>2. PICK j \in jobs : k = f(j)
    BY <1>3
  <2>3. Works(j)
    BY DEF RInv
  <2>4. /\ k.over = j.over /\ k.busy = j.busy /\ k.done = j.done /\ k.bad = j.bad
        /\ k.ch = j.ch
    BY <1>1, <2>2
  <2> QED  BY <2>3, <2>4, Zenon DEF Works
<1>8. (\A j \in jobs : Works(j))'
  BY <1>7 DEF Works
<1> QED  BY <1>1, <1>3, <1>6, <1>8

LEMMA ShutdownKeepsReport ==
  ASSUME IInv, RInv, Shutdown
  PROVE  RInv'
<1>1. /\ quit' /\ clean' = NoClean /\ UNCHANGED <<plan, stack, spins, report, asks, decided>>
      /\ jobs' = {[j EXCEPT !.live = @ /\ j.id # clean.job] : j \in jobs}
  BY DEF Shutdown
<1>2. /\ \E m \in Nat : Numbered(m)'
      /\ (\A j \in jobs : Works(j))'
      /\ \A k \in jobs' : \E j \in jobs : /\ k.id = j.id /\ k.over = j.over /\ k.done = j.done
                                          /\ k.bad = j.bad /\ k.todo = j.todo
  BY <1>1, StoppedAlike
<1>3. Screen'
  BY <1>1 DEF RInv, Screen, Once
<1>4. Asked'
  BY <1>1 DEF RInv, Asked
<1>5. Kept'
  BY <1>1 DEF Kept
<1>6. Reported'
  BY <1>1, <1>2 DEF RInv, Reported
<1> QED  BY <1>2, <1>3, <1>4, <1>5, <1>6 DEF RInv

-----------------------------------------------------------------------------
(* What is read marks the row of its target, for no other has its name.    *)
LEMMA MarksItsRow ==
  ASSUME Patient, NEW j, Works(j), Spared(j), NEW c, NEW G, Books(j, c, G),
         j.ch # <<>>, ~c.closed
  PROVE  LET k == [j EXCEPT !.ch = Tail(@)]
             d == Mark(c, Head(j.ch))
         IN Works(k) /\ Books(k, d, G) /\ d.job = c.job /\ d.closed = c.closed
<1> DEFINE k == [j EXCEPT !.ch = Tail(@)]
           d == Mark(c, Head(j.ch))
           q == Marked(j) + 1
           n == Len(c.items)
<1>1. /\ Len(j.ch) \in Nat /\ Len(j.ch) # 0 /\ 1 \in DOMAIN j.ch /\ Head(j.ch) = j.ch[1]
      /\ Tail(j.ch) \in Seq(Notes) /\ Len(Tail(j.ch)) = Len(j.ch) - 1
      /\ DOMAIN Tail(j.ch) = 1 .. Len(j.ch) - 1
      /\ \A i \in 1 .. Len(j.ch) - 1 : Tail(j.ch)[i] = j.ch[i + 1] /\ i + 1 \in DOMAIN j.ch
  BY DEF Works
<1>2. /\ k.todo = j.todo /\ k.done = j.done /\ k.bad = j.bad /\ k.over = j.over
      /\ k.busy = j.busy /\ k.ch = Tail(j.ch)
  BY DEF Spared, JobFields
<1> HIDE DEF k
<1>3. Works(k)
  BY <1>1, <1>2, Zenon DEF Works
<1>4. Answered(j) \in Nat /\ Len(j.ch) <= Answered(j) /\ n \in Nat /\ Answered(j) <= n
  <2> DEFINE a == Len(j.done)
             b == Len(j.bad)
             t == Len(j.todo)
  <2>1. a \in Nat /\ b \in Nat
    BY DEF Works
  <2>2. Len(j.ch) <= a + b /\ a + b + t = n /\ n \in Nat /\ t \in Nat
    <3>1. c.items \in Seq(Target) /\ j.todo \in Seq(Target)
      BY DEF Books, Spared
    <3>2. Len(j.ch) <= a + b /\ a + b + t = n
      BY DEF Books, Answered
    <3>3. \A s \in Seq(Target) : Len(s) \in Nat
      OBVIOUS
    <3> QED  BY <3>1, <3>2, <3>3, Zenon
  <2>3. Answered(j) = a + b
    BY DEF Answered
  <2> HIDE DEF a, b, t, n
  <2> QED  BY <2>1, <2>2, <2>3
<1>5. /\ Marked(j) \in Nat /\ q \in 1 .. Answered(j) /\ q \in 1 .. n
      /\ Answered(k) = Answered(j) /\ Marked(k) = q
  <2> DEFINE a == Answered(j)
             l == Len(j.ch)
  <2>1. Answered(k) = a /\ Marked(j) = a - l /\ Marked(k) = a - (l - 1)
    BY <1>1, <1>2 DEF Answered, Marked
  <2>2. a \in Nat /\ l \in Nat /\ l # 0 /\ l <= a /\ a <= n /\ n \in Nat
    BY <1>1, <1>4
  <2> HIDE DEF a, l, n
  <2> QED  BY <2>1, <2>2 DEF a
<1>6. /\ DOMAIN c.items = 1 .. n /\ Once(c.items) /\ \A i \in 1 .. n : c.items[i] \in Target
      /\ DOMAIN c.marks = 1 .. n /\ DOMAIN c = CleanFields
  BY DEF Books
<1>7. Head(j.ch).label = LabelOf(c.items[q]) /\ (Head(j.ch).good <=> q \in G)
  BY <1>1 DEF Books
<1>8. {i \in DOMAIN c.items : LabelOf(c.items[i]) = Head(j.ch).label} = {q}
  BY <1>5, <1>6, <1>7 DEF Patient, Once
<1>9. (CHOOSE i \in {q} : \A l \in {q} : i <= l) = q
  BY <1>5
<1> DEFINE m == IF Head(j.ch).good THEN "done" ELSE "failed"
<1>10. d = [c EXCEPT !.marks[q] = m]
  BY <1>8, <1>9 DEF Mark
<1> HIDE DEF d, m, q, n
<1>11. /\ DOMAIN d = CleanFields /\ d.job = c.job /\ d.closed = c.closed /\ d.items = c.items
       /\ d.marks = [c.marks EXCEPT ![q] = m]
  BY <1>6, <1>10 DEF CleanFields
<1>12. ASSUME NEW i \in DOMAIN k.ch
       PROVE  /\ k.ch[i].label = LabelOf(d.items[Marked(k) + i])
              /\ k.ch[i].good <=> Marked(k) + i \in G
  <2>1. i \in 1 .. Len(j.ch) - 1 /\ i + 1 \in DOMAIN j.ch /\ k.ch[i] = j.ch[i + 1]
    BY <1>1, <1>2
  <2>2. Marked(j) + (i + 1) = Marked(k) + i
    BY <1>5, <1>1, <2>1 DEF q
  <2>3. /\ j.ch[i + 1].label = LabelOf(c.items[Marked(j) + (i + 1)])
        /\ j.ch[i + 1].good <=> Marked(j) + (i + 1) \in G
    BY <2>1 DEF Books
  <2> QED  BY <1>11, <2>1, <2>2, <2>3
<1>13. ASSUME NEW i \in DOMAIN d.marks
       PROVE  d.marks[i] = IF i > Marked(k) THEN "waiting" ELSE IF i \in G THEN "done" ELSE "failed"
  <2>1. /\ i \in DOMAIN c.marks /\ i \in Nat /\ q \in Nat
        /\ d.marks[i] = IF i = q THEN m ELSE c.marks[i]
    <3>1. i \in 1 .. n /\ q \in 1 .. n
      BY <1>5, <1>6, <1>11, <1>13
    <3> QED  BY <1>6, <1>11, <3>1
  <2>2. c.marks[i] = IF i > Marked(j) THEN "waiting" ELSE IF i \in G THEN "done" ELSE "failed"
    BY <2>1 DEF Books
  <2>3. i # q => (i > Marked(k) <=> i > Marked(j))
    BY <1>5, <2>1 DEF q
  <2>4. ~(q > Marked(k))
    BY <1>5, <2>1
  <2> QED  BY <1>7, <2>1, <2>2, <2>3, <2>4 DEF m
<1>14. Len(k.ch) <= Answered(k)
  BY <1>1, <1>2, <1>4, <1>5
<1>15. /\ DOMAIN d.marks = 1 .. Len(d.items)
       /\ d.items \in Seq(Target) /\ Once(d.items)
       /\ Answered(k) + Len(k.todo) = Len(d.items)
       /\ \A i \in DOMAIN k.todo : k.todo[i] = d.items[Answered(k) + i]
       /\ G \subseteq 1 .. Answered(k) /\ Cardinality(G) = Len(k.done)
       /\ ~d.closed
  BY <1>2, <1>5, <1>6, <1>11 DEF Books, n
<1>16. Books(k, d, G)
  BY <1>11, <1>12, <1>13, <1>14, <1>15, Zenon DEF Books
<1> QED  BY <1>3, <1>11, <1>16 DEF k, d

LEMMA ProgressKeepsReport ==
  ASSUME Patient, IInv, RInv, NEW j \in jobs, OnProgress(j)
  PROVE  RInv'
<1>1. PICK n \in Nat : Numbered(n)
  BY DEF RInv
<1>2. /\ j.id \in 1 .. MaxCleans /\ ~quit /\ asks[j.id] > 0 /\ j.ch # <<>>
  <2>1. j.id \in 1 .. n /\ n <= MaxCleans /\ MaxCleans \in Nat
    BY <1>1, DiskTabAssumption DEF Numbered
  <2> QED  BY <2>1 DEF OnProgress
<1>3. clean # NoClean /\ clean.job = j.id /\ ~clean.closed /\ asks[j.id] = 1
  BY <1>2 DEF RInv, Asked
<1> DEFINE k == [j EXCEPT !.ch = Tail(@)]
           d == Mark(clean, Head(j.ch))
<1>4. /\ asks' = asks /\ jobs' = (jobs \ {j}) \cup {k} /\ clean' = d
      /\ stack' = Pushed(stack, "progress")
      /\ UNCHANGED <<plan, spins, report, decided, quit>>
  <2>1. asks' = [[asks EXCEPT ![j.id] = @ - 1] EXCEPT ![j.id] = @ + 1]
    BY <1>3 DEF OnProgress
  <2>2. asks' = asks
    BY <1>2, <1>3, <2>1 DEF RInv, Asked
  <2> QED  BY <1>3, <2>2 DEF OnProgress
<1>5. Spared(j) /\ Works(j) /\ DOMAIN j = JobFields
  BY DEF IInv, Spares, Spared, RInv
<1>6. PICK G : Books(j, clean, G)
  BY <1>3 DEF RInv, Kept
<1>7. Works(k) /\ Books(k, d, G) /\ d.job = clean.job /\ d.closed = clean.closed
  BY <1>2, <1>3, <1>5, <1>6, MarksItsRow
<1>8. /\ k.id = j.id /\ k.over = j.over /\ k.done = j.done /\ k.bad = j.bad /\ k.todo = j.todo
  BY <1>5 DEF JobFields
<1> HIDE DEF k, d
<1>9. clean' # NoClean /\ clean'.job = j.id /\ ~clean'.closed
  BY <1>2, <1>3, <1>4, <1>7 DEF NoClean
<1>10. Screen'
  <2>1. stack' \in Seq(Modals) /\ TopOf(stack') = "progress"
    BY <1>4, PushedIsOnTop DEF RInv, Screen, Modals
  <2> QED  BY <1>3, <1>4, <2>1 DEF RInv, Screen, Once
<1>11. Numbered(n)'
  BY <1>1, <1>3, <1>4, <1>8, <1>9 DEF Numbered
<1>12. Asked'
  BY <1>3, <1>4, <1>9 DEF RInv, Asked
<1>13. (\A i \in jobs : Works(i))'
  BY <1>4, <1>7 DEF RInv, Works
<1>14. Kept'
  <2>1. SUFFICES ASSUME NEW i \in jobs', i.id = clean'.job
                 PROVE  \E H : Books(i, clean', H)
    BY DEF Kept
  <2>2. i = k
    BY <1>1, <1>4, <1>9, <2>1 DEF Numbered
  <2> QED  BY <1>4, <1>7, <2>2
<1>15. Reported'
  BY <1>4, <1>8 DEF RInv, Reported
<1> QED  BY <1>10, <1>11, <1>12, <1>13, <1>14, <1>15 DEF RInv

(* Once all progress was read the marks count what happened.               *)
LEMMA Tallies ==
  ASSUME NEW j, Spared(j), Works(j), j.ch = <<>>, NEW c, NEW G, Books(j, c, G)
  PROVE  /\ Count(c, "done") = Len(j.done)
         /\ Count(c, "failed") = Len(j.bad)
         /\ Count(c, "waiting") = Len(j.todo)
<1> DEFINE a == Len(j.done)
           b == Len(j.bad)
           t == Len(j.todo)
           n == Len(c.items)
           marks == c.marks
<1>1. a \in Nat /\ b \in Nat /\ t \in Nat /\ n \in Nat
  <2>1. c.items \in Seq(Target) /\ j.todo \in Seq(Target) /\ j.done \in Seq(Target)
        /\ j.bad \in Seq(Target)
    BY DEF Books, Spared, Works
  <2>2. \A s \in Seq(Target) : Len(s) \in Nat
    OBVIOUS
  <2> QED  BY <2>1, <2>2, Zenon
<1>2. Answered(j) = a + b /\ Marked(j) = a + b
  <2>1. Len(j.ch) = 0 /\ Answered(j) = a + b /\ Marked(j) = (a + b) - Len(j.ch)
    BY DEF Answered, Marked
  <2> HIDE DEF a, b
  <2> QED  BY <1>1, <2>1
<1>3. /\ a + b + t = n /\ G \subseteq 1 .. a + b /\ Cardinality(G) = a
      /\ DOMAIN marks = 1 .. n
      /\ \A k \in 1 .. n :
           marks[k] = IF k > a + b THEN "waiting" ELSE IF k \in G THEN "done" ELSE "failed"
  <2>1. /\ Answered(j) + t = n /\ G \subseteq 1 .. Answered(j) /\ Cardinality(G) = a
        /\ DOMAIN marks = 1 .. n
        /\ \A k \in DOMAIN marks :
             marks[k] = IF k > Marked(j) THEN "waiting" ELSE IF k \in G THEN "done" ELSE "failed"
    BY DEF Books
  <2> HIDE DEF a, b, t, n, marks
  <2> QED  BY <1>2, <2>1
<1>4. \A what : Count(c, what) = Cardinality({k \in DOMAIN marks : marks[k] = what})
  BY DEF Count
<1> HIDE DEF a, b, t, n, marks
<1>5. {k \in DOMAIN marks : marks[k] = "done"} = G
  <2>1. \A k \in G : k \in 1 .. n /\ ~(k > a + b)
    BY <1>1, <1>3
  <2>2. \A k \in 1 .. n : k \in G <=> marks[k] = "done"
    BY <1>3, <2>1
  <2> QED  BY <1>3, <2>1, <2>2
<1>6. {k \in DOMAIN marks : marks[k] = "failed"} = (1 .. a + b) \ G
  BY <1>1, <1>3
<1>7. {k \in DOMAIN marks : marks[k] = "waiting"} = a + b + 1 .. n
  BY <1>1, <1>3
<1>8. Cardinality((1 .. a + b) \ G) = b
  <2>1. IsFiniteSet(1 .. a + b) /\ Cardinality(1 .. a + b) = a + b
    <3>1. 1 \in Int /\ a + b \in Int /\ (IF 1 > a + b THEN 0 ELSE (a + b) - 1 + 1) = a + b
      BY <1>1
    <3> QED  BY <3>1, FS_Interval
  <2>2. (1 .. a + b) \cap G = G
    BY <1>3
  <2>3. Cardinality((1 .. a + b) \ G) = Cardinality(1 .. a + b) - Cardinality((1 .. a + b) \cap G)
    BY <2>1, FS_Difference
  <2>4. Cardinality((1 .. a + b) \ G) = (a + b) - a
    BY <1>3, <2>1, <2>2, <2>3
  <2> QED  BY <1>1, <2>4
<1>9. Cardinality(a + b + 1 .. n) = t
  <2>1. /\ a + b + 1 \in Int /\ n \in Int
        /\ (IF a + b + 1 > n THEN 0 ELSE n - (a + b + 1) + 1) = t
    BY <1>1, <1>3
  <2> QED  BY <2>1, FS_Interval
<1> QED  BY <1>3, <1>4, <1>5, <1>6, <1>7, <1>8, <1>9 DEF a, b, t

(* The end, or the end of the progress, came: the report when both did.    *)
LEMMA FinishKeepsReport ==
  ASSUME IInv, RInv, NEW j \in jobs, j.id = clean.job, clean # NoClean, j.over, ~quit,
         NEW c, Finish(c), c # NoClean, DOMAIN c = CleanFields, c.job = clean.job,
         c.items = clean.items, c.marks = clean.marks, c.closed => j.ch = <<>>,
         asks' \in [1 .. MaxCleans -> Nat],
         \A k \in 1 .. MaxCleans : asks'[k] = IF c.job = k /\ ~c.closed THEN 1 ELSE 0,
         UNCHANGED <<plan, decided, quit>>
  PROVE  RInv'
<1>1. Spared(j) /\ Works(j)
  BY DEF IInv, Spares, RInv
<1>2. PICK G : Books(j, clean, G)
  BY DEF RInv, Kept
<1>3. Books(j, c, G)
  BY <1>2, Zenon DEF Books
<1>4. decided = {} /\ stack \in Seq(Modals) /\ TopOf(stack) = "progress" /\ spins /\ Once(plan)
  BY DEF RInv, Screen
<1>5. PICK n \in Nat : Numbered(n)
  BY DEF RInv
<1>6. CASE Settled(c)
  <2>1. /\ report' = [job |-> c.job, done |-> Count(c, "done"),
                      failed |-> Count(c, "failed"), pending |-> Count(c, "waiting")]
        /\ stack' = Pushed(stack, "progress") /\ clean' = NoClean
        /\ jobs' = {[i EXCEPT !.live = @ /\ i.id # c.job] : i \in jobs}
        /\ c.closed
    BY <1>6 DEF Finish, Settled
  <2>2. /\ report'.job = j.id /\ report'.done = Len(j.done)
        /\ report'.failed = Len(j.bad) /\ report'.pending = Len(j.todo)
    BY <1>1, <1>3, <2>1, Tallies
  <2>3. /\ \E m \in Nat : Numbered(m)'
        /\ (\A i \in jobs : Works(i))'
        /\ \A k \in jobs' : \E i \in jobs : /\ k.id = i.id /\ k.over = i.over /\ k.done = i.done
                                            /\ k.bad = i.bad /\ k.todo = i.todo
    BY <2>1, <2>2, StoppedAlike
  <2>4. Screen'
    <3>1. stack' \in Seq(Modals) /\ TopOf(stack') = "progress"
      BY <1>4, <2>1, PushedIsOnTop DEF Modals
    <3> QED  BY <1>4, <2>1, <3>1 DEF Screen, Once
  <2>5. Asked'
    BY <2>1 DEF Asked
  <2>6. Kept'
    BY <2>1 DEF Kept
  <2>7. Reported'
    <3>1. SUFFICES ASSUME NEW k \in jobs', k.id = report'.job
                   PROVE  /\ k.over /\ report'.done = Len(k.done)
                          /\ report'.failed = Len(k.bad) /\ report'.pending = Len(k.todo)
      BY DEF Reported
    <3>2. PICK i \in jobs : /\ k.id = i.id /\ k.over = i.over /\ k.done = i.done
                            /\ k.bad = i.bad /\ k.todo = i.todo
      BY <2>3
    <3>3. i = j
      BY <1>5, <2>2, <3>1, <3>2 DEF Numbered
    <3> QED  BY <2>2, <3>2, <3>3
  <2> QED  BY <2>3, <2>4, <2>5, <2>6, <2>7 DEF RInv
<1>7. CASE ~Settled(c)
  <2>1. clean' = c /\ UNCHANGED <<report, stack, spins, jobs>>
    BY <1>7 DEF Finish
  <2>2. Screen'
    BY <1>4, <2>1 DEF Screen, Once
  <2>3. Numbered(n)'
    BY <1>5, <2>1 DEF Numbered
  <2>4. Asked'
    BY <2>1 DEF Asked
  <2>5. (\A i \in jobs : Works(i))'
    BY <2>1 DEF RInv, Works
  <2>6. Kept'
    <3>1. SUFFICES ASSUME NEW i \in jobs, i.id = c.job
                   PROVE  \E H : Books(i, c, H)
      BY <2>1 DEF Kept
    <3>2. i = j
      BY <1>5, <3>1 DEF Numbered
    <3> QED  BY <1>3, <3>2
  <2>7. Reported'
    BY <2>1 DEF RInv, Reported
  <2> QED  BY <2>2, <2>3, <2>4, <2>5, <2>6, <2>7 DEF RInv
<1> QED  BY <1>6, <1>7

LEMMA ClosedKeepsReport ==
  ASSUME IInv, RInv, NEW j \in jobs, OnClosed(j)
  PROVE  RInv'
<1>1. PICK n \in Nat : Numbered(n)
  BY DEF RInv
<1>2. j.id \in 1 .. MaxCleans /\ ~quit /\ asks[j.id] > 0 /\ j.over /\ j.ch = <<>>
  <2>1. j.id \in 1 .. n /\ n <= MaxCleans /\ MaxCleans \in Nat
    BY <1>1, DiskTabAssumption DEF Numbered
  <2> QED  BY <2>1 DEF OnClosed
<1>3. clean # NoClean /\ clean.job = j.id /\ ~clean.closed /\ asks[j.id] = 1
  BY <1>2 DEF RInv, Asked
<1> DEFINE c == [clean EXCEPT !.closed = TRUE]
<1>4. DOMAIN clean = CleanFields
  BY <1>3 DEF RInv, Kept, Books
<1>5. /\ DOMAIN c = CleanFields /\ c.job = clean.job /\ c.items = clean.items
      /\ c.marks = clean.marks /\ c.closed /\ c # NoClean
  BY <1>4 DEF CleanFields, NoClean
<1>6. Finish(c) /\ asks' = [asks EXCEPT ![j.id] = @ - 1] /\ UNCHANGED <<plan, decided, quit>>
  BY <1>3 DEF OnClosed
<1> HIDE DEF c
<1>7. /\ asks' \in [1 .. MaxCleans -> Nat]
      /\ \A k \in 1 .. MaxCleans : asks'[k] = IF c.job = k /\ ~c.closed THEN 1 ELSE 0
  BY <1>2, <1>3, <1>5, <1>6 DEF RInv, Asked
<1> QED  BY <1>2, <1>3, <1>5, <1>6, <1>7, FinishKeepsReport

LEMMA DoneKeepsReport ==
  ASSUME IInv, RInv, NEW j \in jobs, OnApplyDone(j)
  PROVE  RInv'
<1> DEFINE c == [clean EXCEPT !.result = TRUE]
<1>1. /\ ~quit /\ j.over /\ clean # NoClean /\ j.id = clean.job /\ Finish(c)
      /\ UNCHANGED <<plan, decided, quit, asks>>
  BY DEF OnApplyDone
<1>2. DOMAIN clean = CleanFields /\ (clean.closed => j.ch = <<>>)
  BY <1>1 DEF RInv, Kept, Books
<1>3. /\ DOMAIN c = CleanFields /\ c.job = clean.job /\ c.items = clean.items
      /\ c.marks = clean.marks /\ c.closed = clean.closed /\ c # NoClean
  BY <1>2 DEF CleanFields, NoClean
<1> HIDE DEF c
<1>4. /\ asks' \in [1 .. MaxCleans -> Nat]
      /\ \A k \in 1 .. MaxCleans : asks'[k] = IF c.job = k /\ ~c.closed THEN 1 ELSE 0
  BY <1>1, <1>3 DEF RInv, Asked
<1> QED  BY <1>1, <1>2, <1>3, <1>4, FinishKeepsReport

-----------------------------------------------------------------------------
LEMMA InitReports == Init => RInv
<1> SUFFICES ASSUME Init PROVE RInv
  OBVIOUS
<1>1. Screen
  BY DEF Init, Screen, Once, TopOf
<1>2. Numbered(0)
  BY DiskTabAssumption DEF Init, Numbered, NoReport
<1>3. Asked /\ Kept /\ Reported /\ \A j \in jobs : Works(j)
  BY DEF Init, Asked, Kept, Reported
<1> QED  BY <1>1, <1>2, <1>3 DEF RInv

(* ReportTrue: the numbers a report shows are those of the targets that    *)
(* are gone, that failed and that were not tried, in whatever order the    *)
(* end and the last progress came, when keys are answered one by one and   *)
(* no two targets have the same name on the screen.                        *)
THEOREM ReportsAreTrue ==
  ASSUME Patient
  PROVE  Spec => []ReportTrue
<1>1. (Init => IInv) /\ (IInv /\ [Next]_vars => IInv')
  BY Invariance
<1>2. Patient /\ IInv /\ RInv /\ [Next]_vars => RInv'
  <2> SUFFICES ASSUME IInv, RInv, [Next]_vars PROVE RInv'
    OBVIOUS
  <2>1. CASE Keys
    BY <2>1, KeysKeepReport
  <2>2. CASE ScanStep \/ JobBegins \/ JobEnds \/ Detect \/ UNCHANGED vars
    <3>1. UNCHANGED <<plan, clean, stack, spins, report, jobs, asks, decided, quit>>
      BY <2>2 DEF ScanStep, OnUsage, OnScanned, Drops, JobBegins, JobEnds, Detect, vars
    <3> QED  BY <3>1, ElseSame
  <2>3. CASE CleanStep
    BY <2>3, CleanStepKeepsReport DEF CleanStep
  <2>4. CASE Received
    BY <2>4, DecidedKeepsReport, ProgressKeepsReport, ClosedKeepsReport, DoneKeepsReport
       DEF Received
  <2>5. CASE Shutdown
    BY <2>5, ShutdownKeepsReport
  <2> QED  BY <2>1, <2>2, <2>3, <2>4, <2>5 DEF Next
<1>3. RInv => ReportTrue
  BY DEF RInv, Reported, ReportTrue
<1> QED  BY <1>1, <1>2, <1>3, InitReports, PTL DEF Spec
=============================================================================
