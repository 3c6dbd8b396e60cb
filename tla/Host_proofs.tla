---------------------------- MODULE Host_proofs ----------------------------
(***************************************************************************)
(* Proofs about what the program does to its host: the external commands   *)
(* and the audit log (Executor), for any number of commands and rotations, *)
(* what a cut-off command leaves behind and that every command is on       *)
(* record, or its loss is reported, exactly once; about what a job needs   *)
(* of its host (JobReq), that what the diagnosis calls good is good; about *)
(* what a detection makes of the host (Discovery), to which runner each    *)
(* unit goes and what the diagnosis may call one; about the result the     *)
(* detail screen of the diagnosis shows (DoctorTab); and about the         *)
(* arguments the record keeps (Mask), that no secret is left in them.      *)
(***************************************************************************)
EXTENDS Executor, JobReq, Discovery, DoctorTab, Mask, FiniteSetTheorems, SequenceTheorems,
        WellFoundedInduction, TLAPS

Run ==
  [pc : {"idle", "up", "reaped", "ended", "append", "done"}, silent : BOOLEAN,
   leader : {"none", "up", "ok", "bad", "killed"}, child : {"none", "in", "out"},
   ctx : {"live", "over"}, cut : BOOLEAN, res : {"none", "start", "ok", "over", "exit"}]

(* The calls are calls, whatever the log does.                             *)
CallsInv == runs \in [Cmds -> Run]

(* Once a command is cut off its process group is gone, and stays so: only *)
(* the leader forks.                                                       *)
CutGone == \A c \in Cmds : runs[c].cut => runs[c].leader # "up" /\ runs[c].child # "in"

GoneInv == CallsInv /\ CutGone

LogFile == [recs : Seq(Cmds), archived : BOOLEAN]

(* The log has at most one writer, who has a record to write; the writer   *)
(* about to write holds a file that is not archived; and a call is told of *)
(* in no place before it is done, and in one place from then on.           *)
LogTypes ==
  /\ files \in Seq(LogFile) /\ sink \in Seq(Cmds)
  /\ path \in DOMAIN files \cup {0, Foreign} /\ fd \in DOMAIN files

OneWriter ==
  \A c \in Cmds :
    /\ runs[c].pc = "append" => writing = c
    /\ writing = c => runs[c].pc \in {"ended", "append"} /\ ~runs[c].silent

HoldsCurrent ==
  /\ path \in DOMAIN files => ~files[path].archived
  /\ \A c \in Cmds : runs[c].pc = "append" => ~files[fd].archived

IsTold(r) == r.pc = "done" /\ ~r.silent

Once ==
  \A c \in Cmds : IF IsTold(runs[c]) THEN \E x : Told(c) = {x} ELSE Told(c) = {}

RecordInv == LogTypes /\ OneWriter /\ HoldsCurrent /\ Once

(* The places where command c is told of, in log files F and sink s.       *)
Places(F, s, c) ==
  (UNION {{<<f, i>> : i \in {j \in DOMAIN F[f].recs : F[f].recs[j] = c}} : f \in DOMAIN F})
    \cup {<<0, i>> : i \in {j \in DOMAIN s : s[j] = c}}

-----------------------------------------------------------------------------
(* A call may become whatever a call can be, but not what is cut off and   *)
(* still running.                                                          *)
LEMMA SetKeepsGone ==
  ASSUME GoneInv, NEW c \in Cmds, NEW r \in Run, Set(c, r),
         r.cut => r.leader # "up" /\ r.child # "in"
  PROVE  GoneInv'
BY DEF GoneInv, CallsInv, CutGone, Set

(* Processes come and go.                                                  *)
LEMMA ProcessKeepsGone ==
  ASSUME GoneInv, NEW c \in Cmds, Begin(c) \/ Process(c)
  PROVE  GoneInv'
<1>r. runs[c] \in Run /\ (runs[c].cut => runs[c].leader # "up" /\ runs[c].child # "in")
  BY DEF GoneInv, CallsInv, CutGone
<1>1. CASE Begin(c)
  <2>1. PICK silent \in BOOLEAN :
          \/ Set(c, [Idle EXCEPT !.pc = "ended", !.silent = silent, !.res = "start"])
          \/ Set(c, [Idle EXCEPT !.pc = "up", !.silent = silent, !.leader = "up"])
    BY <1>1 DEF Begin
  <2>2. /\ [Idle EXCEPT !.pc = "ended", !.silent = silent, !.res = "start"] \in Run
        /\ ~[Idle EXCEPT !.pc = "ended", !.silent = silent, !.res = "start"].cut
    BY DEF Idle, Run
  <2>3. /\ [Idle EXCEPT !.pc = "up", !.silent = silent, !.leader = "up"] \in Run
        /\ ~[Idle EXCEPT !.pc = "up", !.silent = silent, !.leader = "up"].cut
    BY DEF Idle, Run
  <2> QED  BY <2>1, <2>2, <2>3, SetKeepsGone
<1>2. CASE Forks(c)
  <2>1. PICK k \in {"in", "out"} : Set(c, [runs[c] EXCEPT !.child = k])
    BY <1>2 DEF Forks
  <2>2. [runs[c] EXCEPT !.child = k] \in Run
    BY <1>r DEF Run
  <2>3. ~[runs[c] EXCEPT !.child = k].cut
    BY <1>r, <1>2 DEF Run, Forks
  <2> QED  BY <2>1, <2>2, <2>3, SetKeepsGone
<1>3. CASE LeaderExits(c)
  <2>1. PICK how \in {"ok", "bad"} : Set(c, [runs[c] EXCEPT !.leader = how])
    BY <1>3 DEF LeaderExits
  <2>2. [runs[c] EXCEPT !.leader = how] \in Run
    BY <1>r DEF Run
  <2>3. ~[runs[c] EXCEPT !.leader = how].cut
    BY <1>r, <1>3 DEF Run, LeaderExits
  <2> QED  BY <2>1, <2>2, <2>3, SetKeepsGone
<1>4. CASE ChildExits(c)
  <2> DEFINE r == [runs[c] EXCEPT !.child = "none"]
  <2>1. r \in Run /\ (r.cut => r.leader # "up" /\ r.child # "in")
    BY <1>r DEF Run
  <2> QED  BY <1>4, <2>1, SetKeepsGone DEF ChildExits
<1>5. CASE ContextEnds(c)
  <2> DEFINE r == [runs[c] EXCEPT !.ctx = "over"]
  <2>1. r \in Run /\ (r.cut => r.leader # "up" /\ r.child # "in")
    BY <1>r DEF Run
  <2> QED  BY <1>5, <2>1, SetKeepsGone DEF ContextEnds
<1> QED  BY <1>1, <1>2, <1>3, <1>4, <1>5 DEF Process

(* Any field but the processes and the cut may change.                     *)
LEMMA RestKeepsGone ==
  ASSUME GoneInv, NEW c \in Cmds, NEW r \in Run, Set(c, r),
         r.cut = runs[c].cut, r.leader = runs[c].leader, r.child = runs[c].child
  PROVE  GoneInv'
BY SetKeepsGone DEF GoneInv, CutGone

(* killProcessGroup is the only step that cuts off, and it kills the group.*)
LEMMA CallKeepsGone ==
  ASSUME GoneInv, NEW c \in Cmds, Call(c)
  PROVE  GoneInv'
<1>r. runs[c] \in Run
  BY DEF GoneInv, CallsInv
<1>pc. \A pc \in {"reaped", "append", "done"} :
         LET r == [runs[c] EXCEPT !.pc = pc] IN
         /\ r \in Run
         /\ r.cut = runs[c].cut /\ r.leader = runs[c].leader /\ r.child = runs[c].child
  BY <1>r DEF Run
<1>pcs. \A pc \in {"reaped", "append", "done"} :
          Set(c, [runs[c] EXCEPT !.pc = pc]) => GoneInv'
  BY <1>pc, RestKeepsGone
<1>1. CASE Interrupted(c)
  <2> DEFINE r == [KilledGroup(runs[c]) EXCEPT !.cut = TRUE]
  <2>1. /\ KilledLeader(runs[c]) \in Run /\ KilledLeader(runs[c]).leader # "up"
    BY <1>r DEF KilledLeader, Run
  <2>2. /\ KilledGroup(runs[c]) \in Run
        /\ KilledGroup(runs[c]).leader # "up" /\ KilledGroup(runs[c]).child # "in"
    <3> HIDE DEF KilledLeader
    <3> QED  BY <2>1 DEF KilledGroup, Run
  <2>3. r \in Run /\ r.leader # "up" /\ r.child # "in"
    <3> HIDE DEF KilledGroup
    <3> QED  BY <2>2 DEF Run
  <2> QED  BY <1>1, <2>3, SetKeepsGone DEF Interrupted
<1>2. CASE Reaped(c)
  BY <1>2, <1>pcs DEF Reaped
<1>3. CASE Returns(c)
  <2> DEFINE res == Outcome(runs[c], runs[c].child # "none")
             r == [runs[c] EXCEPT !.pc = "ended", !.res = res]
  <2>1. res \in {"start", "ok", "over", "exit"}
    BY DEF Outcome
  <2>2. Set(c, r)
    BY <1>3 DEF Returns
  <2>3. /\ r \in Run
        /\ r.cut = runs[c].cut /\ r.leader = runs[c].leader /\ r.child = runs[c].child
    <3> HIDE DEF res
    <3> QED  BY <1>r, <2>1 DEF Run
  <2> QED  BY <2>2, <2>3, RestKeepsGone
<1>4. CASE Skips(c)
  BY <1>4, <1>pcs DEF Skips
<1>5. CASE Locks(c)
  BY <1>5 DEF Locks, GoneInv, CallsInv, CutGone
<1>6. CASE Prepares(c)
  BY <1>6, <1>pcs DEF Prepares, NotRecorded
<1>7. CASE Records(c)
  BY <1>7, <1>pcs DEF Records, NotRecorded
<1> QED  BY <1>1, <1>2, <1>3, <1>4, <1>5, <1>6, <1>7 DEF Call

(* Nothing that is cut off runs on, whoever moves.                         *)
LEMMA GoneIsInductive ==
  ASSUME GoneInv, [Next]_vars
  PROVE  GoneInv'
<1>1. CASE \E c \in Cmds : Begin(c) \/ Process(c) \/ Call(c)
  BY <1>1, ProcessKeepsGone, CallKeepsGone
<1>2. CASE Rotate \/ ForeignGoes \/ Archive \/ Close \/ Exit
  BY <1>2 DEF GoneInv, CallsInv, CutGone, Rotate, ForeignGoes, Archive, Close, Exit
<1>3. CASE UNCHANGED vars
  BY <1>3 DEF GoneInv, CallsInv, CutGone, vars
<1> QED  BY <1>1, <1>2, <1>3 DEF Next

(* A command that was cut off by its limit or by a cancellation has left   *)
(* nothing of its process group running, then or later.                    *)
THEOREM CutOffLeavesNothing == Spec => []CutOffKillsAll
<1>1. Init => GoneInv
  BY DEF Init, GoneInv, CallsInv, CutGone, Run, Idle
<1>2. GoneInv /\ [Next]_vars => GoneInv'
  BY GoneIsInductive
<1>3. GoneInv => CutOffKillsAll
  BY DEF GoneInv, CutGone, CutOffKillsAll
<1> QED  BY <1>1, <1>2, <1>3, PTL DEF Spec

-----------------------------------------------------------------------------
(* Where a command is told of is a line of a file or of the sink.          *)
LEMMA InPlaces ==
  ASSUME NEW F, NEW s, NEW c, NEW x
  PROVE  x \in Places(F, s, c)
           <=> \/ \E f \in DOMAIN F : \E i \in DOMAIN F[f].recs : F[f].recs[i] = c /\ x = <<f, i>>
               \/ \E i \in DOMAIN s : s[i] = c /\ x = <<0, i>>
BY DEF Places

(* A new file tells of nothing.                                            *)
LEMMA NewFileTellsNothing ==
  ASSUME NEW F \in Seq(LogFile), NEW s, NEW c
  PROVE  /\ Append(F, NewFile) \in Seq(LogFile)
         /\ \A f \in DOMAIN F : Append(F, NewFile)[f] = F[f]
         /\ DOMAIN Append(F, NewFile) = DOMAIN F \cup {Len(F) + 1}
         /\ Append(F, NewFile)[Len(F) + 1] = NewFile
         /\ Places(Append(F, NewFile), s, c) = Places(F, s, c)
<1> DEFINE G == Append(F, NewFile)
<1>1. NewFile \in LogFile /\ NewFile.recs = <<>>
  BY DEF NewFile, LogFile
<1>2. /\ G \in Seq(LogFile) /\ DOMAIN G = DOMAIN F \cup {Len(F) + 1}
      /\ G[Len(F) + 1] = NewFile /\ \A f \in DOMAIN F : G[f] = F[f]
  <2> HIDE DEF NewFile
  <2> QED  BY <1>1
<1>3. ASSUME NEW x PROVE x \in Places(G, s, c) <=> x \in Places(F, s, c)
  <2> HIDE DEF G
  <2> QED  BY <1>1, <1>2, InPlaces
<1> QED  BY <1>2, <1>3

(* To put a file into an archive changes nothing of what it tells.         *)
LEMMA ArchiveTellsTheSame ==
  ASSUME NEW F \in Seq(LogFile), NEW s, NEW c, NEW f \in DOMAIN F
  PROVE  LET G == [F EXCEPT ![f].archived = TRUE] IN
         /\ G \in Seq(LogFile) /\ DOMAIN G = DOMAIN F
         /\ \A g \in DOMAIN F : g # f => G[g] = F[g]
         /\ Places(G, s, c) = Places(F, s, c)
<1> DEFINE G == [F EXCEPT ![f].archived = TRUE]
<1>0. F[f] \in LogFile /\ [F[f] EXCEPT !.archived = TRUE] \in LogFile
  <2>1. F[f] \in LogFile
    OBVIOUS
  <2> QED  BY <2>1 DEF LogFile
<1>1. /\ DOMAIN G = DOMAIN F /\ \A g \in DOMAIN F : g # f => G[g] = F[g]
      /\ \A g \in DOMAIN F : G[g].recs = F[g].recs
      /\ G \in Seq(LogFile)
  <2>1. /\ G[f] = [F[f] EXCEPT !.archived = TRUE] /\ DOMAIN G = DOMAIN F
        /\ \A g \in DOMAIN F : g # f => G[g] = F[g]
    OBVIOUS
  <2>2. G[f].recs = F[f].recs
    BY <1>0, <2>1 DEF LogFile
  <2>3. G \in Seq(LogFile)
    BY <1>0
  <2> QED  BY <2>1, <2>2, <2>3
<1>2. ASSUME NEW x PROVE x \in Places(G, s, c) <=> x \in Places(F, s, c)
  <2> HIDE DEF G
  <2> QED  BY <1>1, InPlaces
<1> QED  BY <1>1, <1>2

(* A report of a record that failed is one more place for its command.     *)
LEMMA ReportIsOnePlace ==
  ASSUME NEW F, NEW s \in Seq(Cmds), NEW d \in Cmds, NEW c
  PROVE  /\ Append(s, d) \in Seq(Cmds)
         /\ Places(F, Append(s, d), c) = Places(F, s, c)
              \cup (IF c = d THEN {<<0, Len(s) + 1>>} ELSE {})
<1> DEFINE t == Append(s, d)
<1>1. /\ t \in Seq(Cmds) /\ DOMAIN t = DOMAIN s \cup {Len(s) + 1}
      /\ t[Len(s) + 1] = d /\ \A i \in DOMAIN s : t[i] = s[i]
  OBVIOUS
<1>2. ASSUME NEW x
      PROVE  x \in Places(F, t, c) <=> x \in Places(F, s, c)
               \cup (IF c = d THEN {<<0, Len(s) + 1>>} ELSE {})
  <2> HIDE DEF t
  <2> QED  BY <1>1, InPlaces
<1> QED  BY <1>1, <1>2

-----------------------------------------------------------------------------
(* What a step that leaves the log alone may do with a call: not make it   *)
(* one with a record to write, nor one that has written it.                *)
LEMMA SetKeepsRecords ==
  ASSUME CallsInv, RecordInv, NEW c \in Cmds, NEW r, Set(c, r), UNCHANGED logVars,
         \/ r.pc = runs[c].pc /\ r.silent = runs[c].silent
         \/ /\ runs[c].pc \notin {"append", "done"} /\ writing # c
            /\ r.pc # "append" /\ ~IsTold(r)
  PROVE  RecordInv'
<1>1. runs'[c] = r /\ \A d \in Cmds : d # c => runs'[d] = runs[d]
  BY DEF CallsInv, Set
<1>2. LogTypes' /\ OneWriter' /\ HoldsCurrent'
  BY <1>1 DEF RecordInv, LogTypes, OneWriter, HoldsCurrent, logVars
<1>3. ASSUME NEW d \in Cmds PROVE Told(d)' = Told(d) /\ (IsTold(runs[d])' <=> IsTold(runs[d]))
  BY <1>1 DEF Told, OnRecord, Reported, IsTold, logVars
<1>4. Once'
  BY <1>3 DEF RecordInv, Once
<1> QED  BY <1>2, <1>4 DEF RecordInv

(* The process and the wait for it.                                        *)
LEMMA CommandKeepsRecords ==
  ASSUME CallsInv, RecordInv, NEW c \in Cmds,
         \/ Begin(c) \/ Process(c) \/ Interrupted(c) \/ Reaped(c) \/ Returns(c) \/ Skips(c)
  PROVE  RecordInv'
<1>r. runs[c] \in Run
  BY DEF CallsInv
<1>w. writing = c => runs[c].pc \in {"ended", "append"} /\ ~runs[c].silent
  BY DEF RecordInv, OneWriter
<1>1. CASE Begin(c)
  <2>1. PICK silent \in BOOLEAN :
          \/ Set(c, [Idle EXCEPT !.pc = "ended", !.silent = silent, !.res = "start"])
          \/ Set(c, [Idle EXCEPT !.pc = "up", !.silent = silent, !.leader = "up"])
    BY <1>1 DEF Begin
  <2>2. /\ [Idle EXCEPT !.pc = "ended", !.silent = silent, !.res = "start"].pc = "ended"
        /\ [Idle EXCEPT !.pc = "up", !.silent = silent, !.leader = "up"].pc = "up"
    BY DEF Idle
  <2>3. runs[c].pc = "idle" /\ UNCHANGED logVars
    BY <1>1 DEF Begin, Quietly
  <2> QED  BY <1>w, <2>1, <2>2, <2>3, SetKeepsRecords DEF IsTold
<1>2. CASE Forks(c)
  <2>1. PICK k \in {"in", "out"} : Set(c, [runs[c] EXCEPT !.child = k])
    BY <1>2 DEF Forks
  <2> QED  BY <1>2, <1>r, <2>1, SetKeepsRecords DEF Forks, Quietly, Run
<1>3. CASE LeaderExits(c)
  <2>1. PICK how \in {"ok", "bad"} : Set(c, [runs[c] EXCEPT !.leader = how])
    BY <1>3 DEF LeaderExits
  <2> QED  BY <1>3, <1>r, <2>1, SetKeepsRecords DEF LeaderExits, Quietly, Run
<1>4. CASE ChildExits(c)
  BY <1>4, <1>r, SetKeepsRecords DEF ChildExits, Quietly, Run
<1>5. CASE ContextEnds(c)
  BY <1>5, <1>r, SetKeepsRecords DEF ContextEnds, Quietly, Run
<1>6. CASE Interrupted(c)
  <2> DEFINE r == [KilledGroup(runs[c]) EXCEPT !.cut = TRUE]
  <2>1. r.pc = runs[c].pc /\ r.silent = runs[c].silent
    BY <1>r DEF KilledGroup, KilledLeader, Run
  <2> QED  BY <1>6, <2>1, SetKeepsRecords DEF Interrupted, Quietly
<1>7. CASE Reaped(c)
  <2>1. [runs[c] EXCEPT !.pc = "reaped"].pc = "reaped"
    BY <1>r DEF Run
  <2> QED  BY <1>7, <1>w, <2>1, SetKeepsRecords DEF Reaped, Quietly, IsTold
<1>8. CASE Returns(c)
  <2> DEFINE r == [runs[c] EXCEPT !.pc = "ended", !.res = Outcome(runs[c], runs[c].child # "none")]
  <2>1. Set(c, r) /\ runs[c].pc = "reaped" /\ UNCHANGED logVars
    BY <1>8 DEF Returns, Quietly
  <2>2. r.pc = "ended"
    BY <1>r DEF Run
  <2> HIDE DEF r
  <2> QED  BY <1>w, <2>1, <2>2, SetKeepsRecords DEF IsTold
<1>9. CASE Skips(c)
  <2> DEFINE r == [runs[c] EXCEPT !.pc = "done"]
  <2>1. Set(c, r) /\ runs[c].pc = "ended" /\ runs[c].silent /\ UNCHANGED logVars
    BY <1>9 DEF Skips, Quietly
  <2>2. r.pc = "done" /\ r.silent = runs[c].silent
    BY <1>r DEF Run
  <2> HIDE DEF r
  <2> QED  BY <1>w, <2>1, <2>2, SetKeepsRecords DEF IsTold
<1> QED  BY <1>1, <1>2, <1>3, <1>4, <1>5, <1>6, <1>7, <1>8, <1>9 DEF Process

(* A log file that is not the one with the name may go to an archive while *)
(* nobody writes; a name that is given away points to no old file.         *)
LEMMA RotationKeepsRecords ==
  ASSUME ExecutorAssumption, CallsInv, RecordInv,
         Rotate \/ ForeignGoes \/ Archive \/ Close \/ Exit
  PROVE  RecordInv'
<1> USE DEF RecordInv
<1>r. runs' = runs /\ writing' = writing /\ sink' = sink /\ fd' = fd
  BY DEF Rotate, ForeignGoes, Archive, Close, Exit
<1>n. files \in Seq(LogFile) /\ DOMAIN files = 1 .. Len(files) /\ Len(files) \in Nat
  BY DEF LogTypes
<1>1. CASE Rotate /\ files' = Append(files, NewFile)
  <2>1. path' \in {0, Foreign, Len(files) + 1}
    BY <1>1 DEF Rotate
  <2>2. \A c : Places(files', sink, c) = Places(files, sink, c)
    BY <1>n, <1>1, NewFileTellsNothing
  <2>3. LogTypes' /\ HoldsCurrent'
    <3>1. NewFile.archived = FALSE
      BY DEF NewFile
    <3> QED  BY <1>r, <1>n, <1>1, <2>1, <3>1, NewFileTellsNothing DEF LogTypes, HoldsCurrent, Foreign
  <2>4. \A c \in Cmds : Told(c)' = Told(c)
    BY <1>r, <2>2 DEF Told, OnRecord, Reported, Places
  <2> QED  BY <1>r, <2>3, <2>4 DEF OneWriter, Once
<1>2. CASE files' = files /\ path' \in {path, 0, Foreign}
  <2>1. LogTypes' /\ HoldsCurrent'
    BY <1>r, <1>2, <1>n DEF LogTypes, HoldsCurrent, Foreign
  <2>2. \A c \in Cmds : Told(c)' = Told(c)
    BY <1>r, <1>2 DEF Told, OnRecord, Reported
  <2> QED  BY <1>r, <2>1, <2>2 DEF OneWriter, Once
<1>3. CASE Archive
  <2>1. PICK f \in DOMAIN files \ {path} : files' = [files EXCEPT ![f].archived = TRUE]
    BY <1>3 DEF Archive
  <2>2. ASSUME NEW c PROVE Places(files', sink, c) = Places(files, sink, c)
    <3>1. files \in Seq(LogFile) /\ f \in DOMAIN files
      BY <1>n
    <3>2. Places([files EXCEPT ![f].archived = TRUE], sink, c) = Places(files, sink, c)
      BY <3>1, ArchiveTellsTheSame
    <3> QED  BY <2>1, <3>2
  <2>3. writing = Nobody /\ path' = path
    BY <1>3 DEF Archive
  <2>4. LogTypes' /\ HoldsCurrent'
    BY <1>r, <1>n, <2>1, <2>3, ArchiveTellsTheSame
       DEF LogTypes, HoldsCurrent, OneWriter, ExecutorAssumption
  <2>5. \A c \in Cmds : Told(c)' = Told(c)
    BY <1>r, <2>2 DEF Told, OnRecord, Reported, Places
  <2> QED  BY <1>r, <2>4, <2>5 DEF OneWriter, Once
<1> QED  BY <1>1, <1>2, <1>3 DEF Rotate, ForeignGoes, Close, Exit

(* The lock goes to a command that has a record to write.                  *)
LEMMA LocksKeepsRecords ==
  ASSUME ExecutorAssumption, CallsInv, RecordInv, NEW c \in Cmds, Locks(c)
  PROVE  RecordInv'
<1>1. /\ runs' = runs /\ files' = files /\ path' = path /\ fd' = fd /\ sink' = sink
      /\ writing = Nobody /\ writing' = c /\ runs[c].pc = "ended" /\ ~runs[c].silent
  BY DEF Locks
<1>2. LogTypes' /\ HoldsCurrent'
  BY <1>1 DEF RecordInv, LogTypes, HoldsCurrent
<1>3. OneWriter'
  BY <1>1 DEF RecordInv, OneWriter, ExecutorAssumption
<1>4. Once'
  BY <1>1 DEF RecordInv, Once, Told, OnRecord, Reported
<1> QED  BY <1>2, <1>3, <1>4 DEF RecordInv

(* The writer is done with its record and gives the lock back: if this is  *)
(* its one place, every command is still told of as it has to be.          *)
LEMMA WriterIsDone ==
  ASSUME ExecutorAssumption, CallsInv, RecordInv, NEW c \in Cmds, writing = c,
         Set(c, [runs[c] EXCEPT !.pc = "done"]), writing' = Nobody,
         LogTypes', path' = path, fd' = fd,
         \A f \in DOMAIN files : files'[f].archived = files[f].archived,
         DOMAIN files' = DOMAIN files,
         NEW x,
         \A d \in Cmds : Told(d)' = Told(d) \cup (IF d = c THEN {x} ELSE {})
  PROVE  RecordInv'
<1>1. /\ runs[c] \in Run /\ runs[c].pc \in {"ended", "append"} /\ ~runs[c].silent
      /\ \A d \in Cmds : runs[d].pc = "append" => d = c
  BY DEF CallsInv, RecordInv, OneWriter
<1>2. /\ runs'[c].pc = "done" /\ runs'[c].silent = runs[c].silent
      /\ \A d \in Cmds : d # c => runs'[d] = runs[d]
  BY <1>1 DEF CallsInv, Set, Run
<1>3. OneWriter'
  BY <1>1, <1>2 DEF RecordInv, OneWriter, ExecutorAssumption
<1>4. HoldsCurrent'
  BY <1>1, <1>2 DEF RecordInv, LogTypes, HoldsCurrent
<1>5. Told(c) = {}
  BY <1>1 DEF RecordInv, Once, IsTold
<1>6. Once'
  BY <1>1, <1>2, <1>5 DEF RecordInv, Once, IsTold
<1> QED  BY <1>3, <1>4, <1>6 DEF RecordInv

(* reportAuditError                                                        *)
LEMMA NotRecordedIsReported ==
  ASSUME ExecutorAssumption, CallsInv, RecordInv, NEW c \in Cmds, writing = c, NotRecorded(c)
  PROVE  RecordInv'
<1>1. /\ Set(c, [runs[c] EXCEPT !.pc = "done"]) /\ writing' = Nobody
      /\ sink' = Append(sink, c) /\ files' = files /\ path' = path /\ fd' = fd
  BY DEF NotRecorded
<1>2. LogTypes'
  BY <1>1, ReportIsOnePlace DEF RecordInv, LogTypes
<1>3. ASSUME NEW d \in Cmds
      PROVE  Told(d)' = Told(d) \cup (IF d = c THEN {<<0, Len(sink) + 1>>} ELSE {})
  <2>1. Told(d) = Places(files, sink, d) /\ Told(d)' = Places(files', sink', d)
    BY DEF Told, OnRecord, Reported, Places
  <2> QED  BY <1>1, <2>1, ReportIsOnePlace DEF RecordInv, LogTypes
<1> QED  BY <1>1, <1>2, <1>3, WriterIsDone

(* reopenIfReplaced: from here to its write the writer's file is the log.  *)
LEMMA PreparesKeepsRecords ==
  ASSUME ExecutorAssumption, CallsInv, RecordInv, NEW c \in Cmds, Prepares(c)
  PROVE  RecordInv'
<1>1. CASE closed \/ (Replaced /\ path = Foreign)
  BY <1>1, NotRecordedIsReported DEF Prepares
<1>2. CASE ~(closed \/ (Replaced /\ path = Foreign))
  <2> DEFINE r == [runs[c] EXCEPT !.pc = "append"]
  <2>1. /\ Set(c, r) /\ writing = c /\ writing' = c /\ sink' = sink
        /\ runs[c].pc = "ended"
    BY <1>2 DEF Prepares
  <2>2. /\ runs[c] \in Run /\ ~runs[c].silent
        /\ \A d \in Cmds : runs[d].pc = "append" => d = c
    BY <2>1 DEF CallsInv, RecordInv, OneWriter
  <2>3. /\ runs'[c].pc = "append" /\ runs'[c].silent = runs[c].silent
        /\ \A d \in Cmds : d # c => runs'[d] = runs[d]
    BY <2>1, <2>2 DEF CallsInv, Set, Run
  <2>4. files \in Seq(LogFile) /\ DOMAIN files = 1 .. Len(files) /\ Len(files) \in Nat
    BY DEF RecordInv, LogTypes
  <2>5. /\ LogTypes' /\ fd' = path' /\ fd' \in DOMAIN files' /\ ~files'[fd'].archived
        /\ \A d : Places(files', sink, d) = Places(files, sink, d)
    <3>1. CASE Replaced /\ path = 0
      <4>1. files' = Append(files, NewFile) /\ path' = Len(files) + 1 /\ fd' = path'
        BY <1>2, <3>1 DEF Prepares
      <4>2. NewFile.archived = FALSE
        BY DEF NewFile
      <4> QED  BY <2>1, <2>4, <4>1, <4>2, NewFileTellsNothing DEF RecordInv, LogTypes
    <3>2. CASE Replaced /\ path # 0
      <4>1. files' = files /\ path' = path /\ fd' = path' /\ path # Foreign
        BY <1>2, <3>2 DEF Prepares
      <4> QED  BY <2>1, <3>2, <4>1 DEF RecordInv, LogTypes, HoldsCurrent
    <3>3. CASE ~Replaced
      <4>1. files' = files /\ path' = path /\ fd' = fd /\ path = fd
        BY <1>2, <3>3 DEF Prepares, Replaced
      <4> QED  BY <2>1, <4>1 DEF RecordInv, LogTypes, HoldsCurrent
    <3> QED  BY <3>1, <3>2, <3>3
  <2>6. OneWriter' /\ HoldsCurrent'
    BY <2>1, <2>2, <2>3, <2>5 DEF RecordInv, OneWriter, HoldsCurrent
  <2>7. \A d \in Cmds : Told(d)' = Told(d)
    BY <2>1, <2>5 DEF Told, OnRecord, Reported, Places
  <2>8. Once'
    BY <2>1, <2>3, <2>7 DEF RecordInv, Once, IsTold
  <2> QED  BY <2>5, <2>6, <2>8 DEF RecordInv
<1> QED  BY <1>1, <1>2

(* The write: the file it goes to is in no archive.                        *)
LEMMA RecordsKeepsRecords ==
  ASSUME ExecutorAssumption, CallsInv, RecordInv, NEW c \in Cmds, Records(c)
  PROVE  RecordInv'
<1>1. writing = c /\ runs[c].pc = "append"
  BY DEF Records
<1>2. CASE NotRecorded(c)
  BY <1>1, <1>2, NotRecordedIsReported
<1>3. CASE ~NotRecorded(c)
  <2>1. ~files[fd].archived /\ files \in Seq(LogFile) /\ fd \in DOMAIN files
    BY <1>1 DEF RecordInv, HoldsCurrent, LogTypes
  <2>2. /\ files' = [files EXCEPT ![fd].recs = Append(files[fd].recs, c)]
        /\ Set(c, [runs[c] EXCEPT !.pc = "done"]) /\ writing' = Nobody
        /\ path' = path /\ fd' = fd /\ sink' = sink
    BY <1>3, <2>1 DEF Records
  <2>3. /\ files' \in Seq(LogFile) /\ DOMAIN files' = DOMAIN files
        /\ files'[fd].recs = Append(files[fd].recs, c)
        /\ \A f \in DOMAIN files : f # fd => files'[f] = files[f]
        /\ \A f \in DOMAIN files : files'[f].archived = files[f].archived
    <3> DEFINE new == [files[fd] EXCEPT !.recs = Append(files[fd].recs, c)]
    <3>1. files[fd] \in LogFile
      BY <2>1
    <3>2. files[fd].recs \in Seq(Cmds)
      BY <3>1 DEF LogFile
    <3>3. /\ new \in LogFile /\ new.recs = Append(files[fd].recs, c)
          /\ new.archived = files[fd].archived
      <4>1. \A R \in Seq(Cmds) :
              LET r == [files[fd] EXCEPT !.recs = R] IN
              r \in LogFile /\ r.recs = R /\ r.archived = files[fd].archived
        BY <3>1 DEF LogFile
      <4>2. Append(files[fd].recs, c) \in Seq(Cmds)
        BY <3>2
      <4> QED  BY <4>1, <4>2
    <3>4. files' = [files EXCEPT ![fd] = new]
      BY <2>2
    <3> HIDE DEF new
    <3> QED  BY <2>1, <3>3, <3>4
  <2>4. LogTypes'
    BY <2>2, <2>3 DEF RecordInv, LogTypes
  <2>5. ASSUME NEW d \in Cmds
        PROVE  Told(d)' = Told(d) \cup (IF d = c THEN {<<fd, Len(files[fd].recs) + 1>>} ELSE {})
    <3>1. Told(d) = Places(files, sink, d) /\ Told(d)' = Places(files', sink', d)
      BY DEF Told, OnRecord, Reported, Places
    <3>2. Places(files', sink, d)
            = Places(files, sink, d) \cup (IF d = c THEN {<<fd, Len(files[fd].recs) + 1>>} ELSE {})
      <4> DEFINE n == Len(files[fd].recs) + 1
      <4>1. files[fd].recs \in Seq(Cmds)
        <5>1. files[fd] \in LogFile
          BY <2>1
        <5> QED  BY <5>1 DEF LogFile
      <4>2. /\ DOMAIN files'[fd].recs = DOMAIN files[fd].recs \cup {n}
            /\ files'[fd].recs[n] = c /\ n \notin DOMAIN files[fd].recs
            /\ \A i \in DOMAIN files[fd].recs : files'[fd].recs[i] = files[fd].recs[i]
        <5>1. PICK q \in Seq(Cmds) : q = files[fd].recs
          BY <4>1
        <5>2. PICK w : w = files'[fd].recs /\ w = Append(q, c)
          BY <2>3, <5>1
        <5>3. /\ w \in Seq(Cmds) /\ Len(w) = Len(q) + 1 /\ w[Len(q) + 1] = c
              /\ \A i \in 1 .. Len(q) : w[i] = q[i]
          BY <5>2, AppendProperties
        <5>4. /\ Len(q) \in Nat /\ DOMAIN q = 1 .. Len(q)
              /\ DOMAIN w = 1 .. Len(q) + 1
          BY <5>3, LenProperties
        <5> QED  BY <5>1, <5>2, <5>3, <5>4
      <4> HIDE DEF n
      <4>3. ASSUME NEW x
            PROVE  x \in Places(files', sink, d)
                     <=> x \in Places(files, sink, d) \cup (IF d = c THEN {<<fd, n>>} ELSE {})
        <5> DEFINE In(F) == \E f \in DOMAIN F : \E i \in DOMAIN F[f].recs :
                              F[f].recs[i] = d /\ x = <<f, i>>
        <5>1. In(files') <=> In(files) \/ (d = c /\ x = <<fd, n>>)
          BY <2>1, <2>3, <4>2
        <5>2. In(files') => x \in Places(files', sink, d)
          BY InPlaces
        <5>3. In(files) => x \in Places(files, sink, d)
          BY InPlaces
        <5>4. x \in Places(files', sink, d) => In(files') \/ x \in Places(files, sink, d)
          BY InPlaces
        <5>5. x \in Places(files, sink, d) => In(files) \/ x \in Places(files', sink, d)
          BY InPlaces
        <5> HIDE DEF In
        <5> QED  BY <5>1, <5>2, <5>3, <5>4, <5>5
      <4> QED  BY <4>3 DEF n
    <3> QED  BY <2>2, <3>1, <3>2
  <2> QED  BY <1>1, <2>2, <2>3, <2>4, <2>5, WriterIsDone
<1> QED  BY <1>2, <1>3

(* Whatever happens, to the log and to the commands.                       *)
LEMMA RecordsAreInductive ==
  ASSUME ExecutorAssumption, CallsInv, RecordInv, [Next]_vars
  PROVE  RecordInv'
<1>1. ASSUME NEW c \in Cmds, Begin(c) \/ Process(c) \/ Call(c) PROVE RecordInv'
  BY <1>1, CommandKeepsRecords, LocksKeepsRecords, PreparesKeepsRecords, RecordsKeepsRecords
     DEF Call
<1>2. CASE Rotate \/ ForeignGoes \/ Archive \/ Close \/ Exit
  BY <1>2, RotationKeepsRecords
<1>3. CASE UNCHANGED vars
  <2>1. LogTypes' /\ OneWriter' /\ HoldsCurrent'
    BY <1>3 DEF RecordInv, LogTypes, OneWriter, HoldsCurrent, vars, logVars
  <2>2. \A c \in Cmds : Told(c)' = Told(c)
    BY <1>3 DEF Told, OnRecord, Reported, vars, logVars
  <2>3. Once'
    BY <1>3, <2>2 DEF RecordInv, Once, vars
  <2> QED  BY <2>1, <2>3 DEF RecordInv
<1> QED  BY <1>1, <1>2, <1>3 DEF Next

(* Every command that is not a plain read is on record once, or its loss   *)
(* is reported once, though logrotate renames the file at any time and     *)
(* others write at the same time; it archives no file that is being        *)
(* written to.                                                             *)
THEOREM EveryCommandIsTold ==
  ASSUME ExecutorAssumption
  PROVE  Spec => []EveryRunTold
<1> DEFINE Inv == GoneInv /\ RecordInv
<1>1. Init => Inv
  <2> SUFFICES ASSUME Init PROVE GoneInv /\ RecordInv
    OBVIOUS
  <2>1. GoneInv
    BY DEF Init, GoneInv, CallsInv, CutGone, Run, Idle
  <2>2. files \in Seq(LogFile) /\ DOMAIN files = {1} /\ files[1] = NewFile /\ NewFile \in LogFile
    BY DEF Init, NewFile, LogFile
  <2>3. NewFile.recs = <<>> /\ NewFile.archived = FALSE
    BY DEF NewFile
  <2>4. LogTypes /\ HoldsCurrent
    BY <2>2, <2>3 DEF Init, LogTypes, HoldsCurrent
  <2>5. OneWriter
    BY DEF Init, OneWriter, Idle, ExecutorAssumption
  <2>6. ASSUME NEW c \in Cmds PROVE Told(c) = {}
    <3>1. Told(c) = Places(files, sink, c)
      BY DEF Told, OnRecord, Reported, Places
    <3>2. DOMAIN sink = {}
      BY DEF Init
    <3> QED  BY <2>2, <2>3, <3>1, <3>2, InPlaces
  <2>7. Once
    BY <2>6 DEF Init, Once, IsTold, Idle
  <2> QED  BY <2>1, <2>4, <2>5, <2>7 DEF RecordInv
<1>2. Inv /\ [Next]_vars => Inv'
  BY GoneIsInductive, RecordsAreInductive DEF GoneInv
<1>3. Inv => EveryRunTold
  <2> SUFFICES ASSUME RecordInv, NEW c \in Cmds, IsTold(runs[c])
               PROVE  Cardinality(Told(c)) = 1
    BY DEF EveryRunTold, IsTold
  <2>1. PICK x : Told(c) = {x}
    BY DEF RecordInv, Once
  <2> QED  BY <2>1, FS_Singleton
<1> QED  BY <1>1, <1>2, <1>3, PTL DEF Spec

-----------------------------------------------------------------------------
(* Listeners are numbered as they start, by the repairs.                   *)
PidsInv ==
  /\ repairs \in Nat /\ member \subseteq Runners
  /\ proc \in [Runners -> [pid : 0 .. repairs, group : BOOLEAN]]
  /\ seen \in [Runners -> 0 .. repairs]
  /\ check \in [stage : {"idle", "judge"}, seen : [Runners -> 0 .. repairs], member : SUBSET Runners]
  /\ verdict \in [Runners -> [is : {"none", "ok", "warn", "fail", "skip"}, pid : 0 .. repairs]]

(* A green verdict about a listener that still runs is true of it.         *)
GreenInv ==
  \A r \in Runners :
    verdict[r].is = "ok" /\ verdict[r].pid # 0 /\ proc[r].pid = verdict[r].pid => proc[r].group

JobReqInv == PidsInv /\ GreenInv

-----------------------------------------------------------------------------
(* A new listener has a PID no verdict has looked at, and a user added to  *)
(* or taken from the group changes no process.                             *)
LEMMA HostKeepsVerdicts ==
  ASSUME JobReqInv, Repair,
         NEW r \in Runners, Usermod(r) \/ Restart(r) \/ Stop(r)
  PROVE  JobReqInv'
<1>1. /\ repairs' = repairs + 1 /\ seen' = seen /\ check' = check /\ verdict' = verdict
      /\ \/ proc' = proc
         \/ proc' = [proc EXCEPT ![r] = [pid |-> repairs', group |-> r \in member]]
         \/ proc' = [proc EXCEPT ![r] = [pid |-> 0, group |-> FALSE]]
  BY DEF Repair, Usermod, Restart, Stop
<1> DEFINE pids == 0 .. repairs'
           has  == r \in member
<1>2. /\ pids = 0 .. (repairs + 1) /\ repairs' \in Nat /\ repairs' \in pids /\ 0 \in pids
      /\ \A p \in 0 .. repairs : p \in pids /\ p # repairs'
      /\ has \in BOOLEAN
  BY <1>1 DEF JobReqInv, PidsInv
<1>3. PidsInv'
  <2>1. repairs' \in Nat /\ member' \subseteq Runners /\ seen' \in [Runners -> pids]
    BY <1>1, <1>2 DEF JobReqInv, PidsInv, Usermod, Restart, Stop
  <2>2. check' \in [stage : {"idle", "judge"}, seen : [Runners -> pids], member : SUBSET Runners]
    <3>1. check.seen \in [Runners -> pids]
      BY <1>2 DEF JobReqInv, PidsInv
    <3> HIDE DEF pids
    <3> QED  BY <1>1, <3>1 DEF JobReqInv, PidsInv
  <2>3. verdict' \in [Runners -> [is : {"none", "ok", "warn", "fail", "skip"}, pid : pids]]
    <3> HIDE DEF pids
    <3> QED  BY <1>1, <1>2 DEF JobReqInv, PidsInv
  <2>4. proc \in [Runners -> [pid : pids, group : BOOLEAN]]
    <3> HIDE DEF pids
    <3> QED  BY <1>2 DEF JobReqInv, PidsInv
  <2>5. proc' \in [Runners -> [pid : pids, group : BOOLEAN]]
    <3> HIDE DEF pids, has
    <3>1. \/ proc' = proc
          \/ proc' = [proc EXCEPT ![r] = [pid |-> repairs', group |-> has]]
          \/ proc' = [proc EXCEPT ![r] = [pid |-> 0, group |-> FALSE]]
      BY <1>1 DEF has
    <3> DEFINE Proc == [pid : pids, group : BOOLEAN]
    <3>2. [pid |-> repairs', group |-> has] \in Proc /\ [pid |-> 0, group |-> FALSE] \in Proc
      BY <1>2
    <3>3. proc \in [Runners -> Proc]
      BY <2>4
    <3> HIDE DEF Proc
    <3>4. proc' \in [Runners -> Proc]
      BY <3>1, <3>2, <3>3
    <3> QED  BY <3>4 DEF Proc
  <2> QED  BY <2>1, <2>2, <2>3, <2>5 DEF PidsInv
<1>4. GreenInv'
  <2>1. \A q \in Runners : verdict[q].pid \in 0 .. repairs
    BY DEF JobReqInv, PidsInv
  <2>2. \A q \in Runners : proc'[q] = proc[q] \/ proc'[q].pid \in {0, repairs'}
    BY <1>1 DEF JobReqInv, PidsInv
  <2> QED  BY <1>1, <1>2, <2>1, <2>2 DEF JobReqInv, GreenInv
<1> QED  BY <1>3, <1>4 DEF JobReqInv

(* A verdict is green only if the listener it looks at is still there and  *)
(* has the group.                                                          *)
LEMMA JudgedTruly ==
  ASSUME JobReqInv, NEW r \in Runners, Judge(r)
  PROVE  JobReqInv'
<1>1. /\ verdict[r].is \in {"none"}
      /\ repairs' = repairs /\ proc' = proc /\ seen' = seen /\ check' = check /\ member' = member
  BY DEF Judge
<1> DEFINE is == IF r \in Numeric THEN JudgeByProc(r) ELSE JudgeByName(r)
<1>2. /\ is \in {"ok", "warn", "fail", "skip"}
      /\ is = "ok" /\ check.seen[r] # 0 => proc[r].pid = check.seen[r] /\ proc[r].group
  BY DEF JudgeByProc, JudgeByName, ByGroups
<1>3. verdict' = [verdict EXCEPT ![r] = [is |-> is, pid |-> check.seen[r]]]
  BY DEF Judge
<1> HIDE DEF is
<1>4. check.seen[r] \in 0 .. repairs
  BY DEF JobReqInv, PidsInv
<1> QED  BY <1>1, <1>2, <1>3, <1>4 DEF JobReqInv, PidsInv, GreenInv

(* A detection, and the beginning and the end of a diagnosis.              *)
LEMMA DiagnosisKeepsVerdicts ==
  ASSUME JobReqInv, Detect \/ BeginChecks \/ End
  PROVE  JobReqInv'
<1>1. CASE Detect
  BY <1>1 DEF Detect, JobReqInv, PidsInv, GreenInv
<1>2. CASE BeginChecks
  <2>1. /\ repairs' = repairs /\ proc' = proc /\ seen' = seen
        /\ check' = [stage |-> "judge", seen |-> seen, member |-> member]
        /\ verdict' = [r \in Runners |-> [is |-> "none", pid |-> 0]]
        /\ member' = member
    BY <1>2 DEF BeginChecks
  <2> QED  BY <2>1 DEF JobReqInv, PidsInv, GreenInv
<1>3. CASE End
  BY <1>3 DEF End, JobReqInv, PidsInv, GreenInv
<1> QED  BY <1>1, <1>2, <1>3

(* Where every check of a runner is green, a job on the listener that was  *)
(* looked at finds what it needs, for as long as that listener runs, with  *)
(* whatever is repaired between the reads of the diagnosis.                *)
THEOREM GreenHostsRunJobs == ReqSpec => []GreenJobsRun
<1>1. ReqInit => JobReqInv
  BY DEF ReqInit, JobReqInv, PidsInv, GreenInv
<1>2. JobReqInv /\ [ReqNext]_reqVars => JobReqInv'
  <2> SUFFICES ASSUME JobReqInv, [ReqNext]_reqVars PROVE JobReqInv'
    OBVIOUS
  <2>1. CASE UNCHANGED reqVars
    BY <2>1 DEF reqVars, JobReqInv, PidsInv, GreenInv
  <2>2. ASSUME NEW r \in Runners, Usermod(r) \/ Restart(r) \/ Stop(r)
        PROVE  Repair
    BY <2>2 DEF Usermod, Restart, Stop
  <2> QED  BY <2>1, <2>2, HostKeepsVerdicts, JudgedTruly, DiagnosisKeepsVerdicts DEF ReqNext
<1>3. JobReqInv => GreenJobsRun
  <2>1. /\ DockerCheck = "ok" => "docker" \in have
        /\ BuildxCheck = "ok" => "buildx" \in have
        /\ DaemonCheck = "ok" => "daemon" \in have
        /\ SudoCheck = "ok" => {"sudo", "exec", "time", "nopasswd"} \subseteq have
    BY DEF DockerCheck, BuildxCheck, DaemonCheck, SudoCheck, Unprobed
  <2> QED  BY <2>1 DEF JobReqInv, GreenInv, GreenJobsRun
<1> QED  BY <1>1, <1>2, <1>3, PTL DEF ReqSpec
-----------------------------------------------------------------------------
(* A set of numbers that is not empty has a least one, the one Min is:     *)
(* the intervals up to its members are ordered as they are.                *)
LEMMA MinOfNumbers ==
  ASSUME NEW S, S \subseteq Nat, S # {}
  PROVE  Min(S) \in S /\ \A y \in S : Min(S) <= y
<1>1. PICK m \in S : TRUE
  OBVIOUS
<1> DEFINE I == 1 .. m
           L == {s \in S : s <= m}
           T == {1 .. x : x \in L}
           R == StrictSubsetOrdering(I)
<1>2. IsWellFoundedOn(R, SUBSET I)
  <2>1. IsFiniteSet(I)
    BY FS_Interval
  <2>2. FiniteSubsetsOf(I) = SUBSET I
    BY <2>1, FS_FiniteSubsetsOfFinite
  <2> QED
    BY <2>2, FS_StrictSubsetOrderingWellFounded
<1>3. T \subseteq SUBSET I /\ T # {}
  BY <1>1
<1>4. \A A, B \in SUBSET I : A \subseteq B /\ A # B => <<A, B>> \in R
  BY DEF StrictSubsetOrdering
<1> HIDE DEF R, T
<1>5. PICK A \in T : \A B \in T : ~ (<<B, A>> \in R)
  BY <1>2, <1>3, WFMin
<1>6. PICK x \in L : A = 1 .. x
  BY <1>5 DEF T
<1>7. ASSUME NEW y \in S  PROVE  x <= y
  <2>1. SUFFICES ASSUME y < x  PROVE FALSE
    BY <1>6
  <2>2. y \in L /\ 1 .. y \in T
    BY <1>1, <1>6, <2>1 DEF T
  <2>3. 1 .. y \subseteq 1 .. x /\ 1 .. y # 1 .. x
    BY <1>6, <2>1
  <2> QED
    BY <1>3, <1>4, <1>5, <1>6, <2>2, <2>3
<1> QED
  BY <1>6, <1>7 DEF Min

LEMMA MaxOfOne ==
  ASSUME NEW x \in Nat, NEW S, S \subseteq {x}, S # {}
  PROVE  Max(S) = x
<1>1. S = {x}
  OBVIOUS
<1>2. \A y \in S : x >= y
  BY <1>1
<1> QED
  BY <1>1, <1>2 DEF Max

(* A unit to disable works in a directory of no runner known then.         *)
ToldInv == \A u \in told.units : UnitOf(u).dir # None /\ UnitOf(u).dir \notin told.known

(* A unit is claimed by one runner, which NamedBy then is, or by none.     *)
LEMMA ClaimedByOne ==
  ASSUME NEW u
  PROVE  /\ Cardinality(Claims(u)) = 1 => \E d : Claims(u) = {d} /\ NamedBy(u) = {d}
         /\ Cardinality(Claims(u)) # 1 => NamedBy(u) = {}
<1>1. IsFiniteSet(Claims(u))
  <2>1. Claims(u) \in SUBSET Dirs /\ IsFiniteSet(Dirs)
    BY DiscoveryAssumption DEF Claims, Found, CollectDirs
  <2> QED
    BY <2>1, FS_Subset
<1> QED
  BY <1>1, FS_Singleton DEF Claims, NamedBy

(* A runner gets the unit that it alone claims, if it is there,            *)
LEMMA ByNameIsTheClaimed ==
  ASSUME NEW d \in Found
  PROVE  /\ ByName[d] # None =>
              /\ ByName[d] \in Scanned /\ ~Gone(ByName[d])
              /\ d \in NamedBy(ByName[d])
         /\ \A u \in Scanned : ~Gone(u) /\ d \in NamedBy(u) => ByName[d] = u
<1> DEFINE N == {u \in Scanned : ~Gone(u) /\ d \in NamedBy(u)}
           s == host.dir[d].service
<1>1. N \subseteq {s} /\ N \subseteq Nat
  BY DiscoveryAssumption DEF NamedBy, Scanned
<1>2. ByName[d] = IF N = {} THEN None ELSE Max(N)
  BY DEF ByName
<1>3. N # {} => s \in N /\ Max(N) = s
  <2>1. N # {} => s \in N /\ s \in Nat
    BY <1>1
  <2> HIDE DEF N, s
  <2> QED
    BY <1>1, <2>1, MaxOfOne
<1>4. ASSUME NEW u \in N  PROVE  u = s
  BY <1>1
<1> QED
  BY <1>1, <1>2, <1>3, <1>4

(* and else one of those that work in its directory, if there are any.     *)
LEMMA ElseByDirectory ==
  ASSUME NEW d \in Found
  PROVE  /\ ByName[d] # None => Svc[d] = ByName[d]
         /\ ByName[d] = None /\ Svc[d] # None =>
              Svc[d] \in Second /\ UnitOf(Svc[d]).dir = d
         /\ Svc[d] = None => \A u \in Second : UnitOf(u).dir # d
<1> DEFINE N == {u \in Second : UnitOf(u).dir = d}
<1>1. N \subseteq Nat \ {0}
  BY DiscoveryAssumption DEF Second, Scanned
<1>2. Svc[d] = IF ByName[d] # None \/ N = {} THEN ByName[d] ELSE Min(N)
  BY DEF Svc
<1>3. N # {} => Min(N) \in N
  <2> HIDE DEF N
  <2> QED
    BY <1>1, MinOfNumbers
<1> QED
  BY <1>1, <1>2, <1>3 DEF None

LEMMA AttachedRightlyHolds == AttachedRightly
<1>1. ASSUME NEW d \in Found, Svc[d] # None
      PROVE  \/ d \in NamedBy(Svc[d]) /\ ~Gone(Svc[d])
             \/ Svc[d] \in Second /\ UnitOf(Svc[d]).dir = d
  BY <1>1, ByNameIsTheClaimed, ElseByDirectory
<1>2. ASSUME NEW d \in Found, Svc[d] # None
      PROVE  /\ ~Gone(Svc[d])
             /\ \/ Claims(Svc[d]) = {d}
                \/ Cardinality(Claims(Svc[d])) # 1 /\ UnitOf(Svc[d]).dir = d
             /\ \A e \in Found \ {d} : Svc[e] # Svc[d]
  <2>1. CASE d \in NamedBy(Svc[d]) /\ ~Gone(Svc[d])
    <3>1. Claims(Svc[d]) = {d} /\ NamedBy(Svc[d]) = {d}
      BY <2>1, ClaimedByOne
    <3> QED
      BY <1>1, <1>2, <2>1, <3>1 DEF Second
  <2>2. CASE Svc[d] \in Second /\ UnitOf(Svc[d]).dir = d
    <3>1. ~Gone(Svc[d]) /\ NamedBy(Svc[d]) = {}
      BY <2>2 DEF Second
    <3>2. Cardinality(Claims(Svc[d])) # 1
      BY <3>1, ClaimedByOne
    <3> QED
      BY <1>1, <1>2, <2>2, <3>1, <3>2
  <2> QED
    BY <1>1, <1>2, <2>1, <2>2
<1>3. ASSUME NEW u \in Scanned
      PROVE  (\E d \in Found : Svc[d] = u) \/ u \in Orphans \cup Warned
  <2>1. CASE Gone(u) \/ UnitOf(u).load = ""
    BY <2>1 DEF Warned
  <2>2. CASE ~Gone(u) /\ NamedBy(u) # {}
    <3>1. PICK d \in NamedBy(u) : d \in Found
      BY <2>2 DEF NamedBy
    <3>2. ByName[d] = u /\ u # None
      BY <2>2, <3>1, ByNameIsTheClaimed, DiscoveryAssumption DEF Scanned, None
    <3> QED
      BY <3>1, <3>2, ElseByDirectory
  <2>3. CASE u \in Second
    BY <2>3 DEF Orphans, Warned
  <2> QED
    BY <2>1, <2>2, <2>3 DEF Second
<1>4. ASSUME NEW u \in Orphans  PROVE  host.unit[u].dir \notin Found
  BY DEF Orphans, Second, UnitOf
<1>5. ASSUME NEW d \in Found, ManagedBy(d) \in {"standalone", "unknown"}
      PROVE  /\ host.listed
             /\ \A u \in Scanned : host.unit[u].load = "loaded" /\ host.unit[u].dir = d
                  => Cardinality(Claims(u)) = 1
  <2>1. Svc[d] = None /\ host.listed
    BY <1>5 DEF ManagedBy
  <2>2. ASSUME NEW u \in Scanned, host.unit[u].load = "loaded", host.unit[u].dir = d,
               Cardinality(Claims(u)) # 1
        PROVE  FALSE
    <3>1. u \in Second /\ UnitOf(u).dir = d
      BY <2>2, ClaimedByOne DEF Second, UnitOf, Gone
    <3> QED
      BY <2>1, <3>1, ElseByDirectory
  <2> QED
    BY <2>1, <2>2
<1>6. ASSUME NEW p \in ToSet(Procs), p.dir \in Dirs, host.dir[p.dir].config = "ok"
      PROVE  p.dir \in Found
  BY <1>6 DEF Found, CollectDirs, IsRunnerDir
<1> QED
  BY <1>2, <1>3, <1>4, <1>5, <1>6 DEF AttachedRightly

(* FR-01 to FR-05: each unit belongs to one runner, the one .service that  *)
(* names it or else its directory, no unit is dropped in silence, and what *)
(* systemd runs is not taken for run.sh: on every host, with any number of *)
(* directories, units and processes (attach, managedBy).                   *)
THEOREM UnitsAreAttached == ScanSpec => []AttachedRightly
BY AttachedRightlyHolds, PTL

(* FR-32: where the two checks of a runner's units are green there is one  *)
(* unit to act on, on every host, and it is not among those that the Doctor*)
(* tab tells to disable, once the runners were known (duplicateCheck,      *)
(* unitCheck, isOrphan).                                                   *)
THEOREM GreenUnitIsTheOne == ScanSpec => []GreenIsOneUnit
<1>1. ScanInit => ToldInv
  BY DEF ScanInit, ToldInv
<1>2. ToldInv /\ [ScanNext]_scanVars => ToldInv'
  <2> SUFFICES ASSUME ToldInv, [ScanNext]_scanVars  PROVE ToldInv'
    OBVIOUS
  <2>1. CASE Diagnose
    <3>1. \A u : UnitOf(u)' = UnitOf(u)
      BY <2>1 DEF Diagnose, UnitOf
    <3>2. told' = [units |-> OrphanCheck, known |-> known]
      BY <2>1 DEF Diagnose
    <3>3. \A u \in OrphanCheck : UnitOf(u).dir # None /\ UnitOf(u).dir \notin known
      BY DEF OrphanCheck, IsOrphan
    <3> QED
      BY <3>1, <3>2, <3>3 DEF ToldInv
  <2>2. CASE UNCHANGED <<host, told>>
    BY <2>2 DEF ToldInv, UnitOf
  <2> QED
    BY <2>1, <2>2 DEF ScanNext, Discover, scanVars
<1>3. ToldInv => GreenIsOneUnit
  <2> SUFFICES ASSUME ToldInv, NEW d \in Found, UnitsCheck(d) = "ok", UnitCheck(d) = "ok"
               PROVE  /\ host.dir[d].service = Svc[d]
                      /\ \A u \in Scanned : host.unit[u].load = "loaded" =>
                           /\ host.unit[u].dir = d => u = Svc[d]
                           /\ u = Svc[d] => host.unit[u].dir \in {None, d}
                      /\ told.known = Found => Svc[d] \notin told.units
    BY DEF GreenIsOneUnit
  <2>1. ExtraUnits(d) = {} /\ host.dir[d].service = Svc[d]
    BY DEF UnitsCheck
  <2>2. host.unit[Svc[d]].load # "fails" /\ host.unit[Svc[d]].dir \in {None, d}
    BY DEF UnitCheck
  <2>3. ASSUME NEW u \in Scanned, host.unit[u].load = "loaded", host.unit[u].dir = d
        PROVE  u = Svc[d]
    BY <2>1, <2>3 DEF ExtraUnits, UnitOf
  <2>4. UnitOf(Svc[d]).dir \in {None, d}
    BY <2>2 DEF UnitOf
  <2>5. told.known = Found => Svc[d] \notin told.units
    BY <2>4 DEF ToldInv
  <2> QED
    BY <2>1, <2>2, <2>3, <2>5
<1> QED
  BY <1>1, <1>2, <1>3, PTL DEF ScanSpec

-----------------------------------------------------------------------------
(* The detail screen has the key of the row it was opened on; where no     *)
(* other row has that key it shows this row, with what was found last.     *)
DetailInv ==
  /\ stack \in {<<>>, <<"detail">>}
  /\ stack # <<>> =>
       /\ opened \in DOMAIN Rows /\ detail = KeyOf(opened)
       /\ Alone(opened) =>
            shown.row = opened /\ (results[opened] # 0 => shown = Result(results, opened))

LEMMA DetailOnTop ==
  /\ Pushed(<<>>, "detail") = <<"detail">> /\ Closed(<<"detail">>) = <<>>
  /\ TopOf(<<"detail">>) = "detail" /\ TopOf(<<>>) # "detail"
<1>1. Pushed(<<>>, "detail") = <<"detail">>
  BY DEF Pushed
<1>2. Closed(<<"detail">>) = <<>>
  BY DEF Closed
<1> QED  BY <1>1, <1>2 DEF TopOf

(* A run that is done brings the detail screen the new result of its row.  *)
LEMMA DoneKeepsDetail ==
  ASSUME DetailInv, NEW r \in run, OnDone(r)
  PROVE  DetailInv'
<1> DEFINE I == {i \in DOMAIN Rows : results'[i] # 0 /\ KeyOf(i) = detail}
<1>1. UNCHANGED <<stack, detail, opened>> /\ shown' = Refreshed(results')
  BY DEF OnDone
<1>2. ASSUME stack # <<>>, Alone(opened)
      PROVE  /\ shown'.row = opened
             /\ results'[opened] # 0 => shown' = Result(results', opened)
  <2>1. /\ opened \in DOMAIN Rows /\ opened \in Nat /\ shown.row = opened
        /\ detail = [id |-> Rows[opened].id, target |-> Rows[opened].target]
        /\ Rows[opened].id # ""
    BY <1>2, DoctorTabAssumption DEF DetailInv, KeyOf
  <2>2. detail # NoKey
    <3>1. detail.id # NoKey.id
      BY <2>1 DEF NoKey
    <3> QED  BY <3>1
  <2>3. \A i \in I : i = opened
    <3>1. SUFFICES ASSUME NEW i \in DOMAIN Rows, KeyOf(i) = detail PROVE i = opened
      OBVIOUS
    <3>2. KeyOf(i).id = Rows[i].id /\ KeyOf(i).target = Rows[i].target
      BY DEF KeyOf
    <3>3. detail.id = Rows[opened].id /\ detail.target = Rows[opened].target
      BY <2>1
    <3> QED  BY <1>2, <3>1, <3>2, <3>3 DEF Alone
  <2>4. CASE I = {}
    <3>1. shown' = shown
      BY <1>1, <2>4 DEF Refreshed
    <3>2. results'[opened] = 0
      BY <2>1, <2>4 DEF KeyOf
    <3> QED  BY <2>1, <3>1, <3>2
  <2>5. CASE I # {}
    <3>1. I = {opened}
      BY <2>3, <2>5
    <3>2. (CHOOSE i \in {opened} : \A k \in {opened} : i <= k) = opened
      <4>1. \A n \in Nat : (CHOOSE i \in {n} : \A k \in {n} : i <= k) = n
        OBVIOUS
      <4> QED  BY <2>1, <4>1
    <3>3. shown' = Result(results', opened)
      BY <1>1, <1>2, <2>2, <3>1, <3>2 DEF Refreshed
    <3> QED  BY <3>3 DEF Result
  <2> QED  BY <2>4, <2>5
<1>3. stack # <<>> => detail' = KeyOf(opened)'
  BY <1>1 DEF DetailInv, KeyOf
<1>4. Alone(opened)' <=> Alone(opened)
  BY <1>1 DEF Alone
<1>5. Result(results, opened)' = Result(results', opened)
  BY <1>1 DEF Result
<1> QED  BY <1>1, <1>2, <1>3, <1>4, <1>5 DEF DetailInv

LEMMA DetailIsInductive == DetailInv /\ [DoctorNext]_doctorVars => DetailInv'
<1> SUFFICES ASSUME DetailInv, [DoctorNext]_doctorVars PROVE DetailInv'
  OBVIOUS
<1>1. ASSUME UNCHANGED <<results, stack, detail, shown, opened>>
      PROVE  DetailInv'
  BY <1>1 DEF DetailInv, KeyOf, Alone, Result
<1>2. ASSUME NEW i \in DOMAIN Rows, OpenDetail(i)
      PROVE  DetailInv'
  <2>1. /\ stack' = <<"detail">> /\ detail' = KeyOf(i) /\ opened' = i
        /\ shown' = Result(results, i) /\ results' = results
    BY <1>2, DetailOnTop DEF OpenDetail
  <2>2. shown'.row = i
    BY <2>1 DEF Result
  <2> QED  BY <2>1, <2>2 DEF DetailInv, KeyOf, Alone, Result
<1>3. CASE Esc
  <2>1. stack' = <<>>
    BY <1>3, DetailOnTop DEF Esc, DetailInv
  <2> QED  BY <2>1 DEF DetailInv
<1>4. CASE \/ \E i \in DOMAIN Rows : Change(i)
           \/ Activate \/ Rerun \/ AskRecheck
           \/ \E r \in run : \E c \in r.left : Probe(r, c)
           \/ \E c \in Ids : OnRecheck(c)
           \/ UNCHANGED doctorVars
  BY <1>1, <1>4 DEF Change, Activate, Rerun, AskRecheck, Probe, OnRecheck, page, doctorVars
<1> QED  BY <1>2, <1>3, <1>4, DoneKeepsDetail DEF DoctorNext

(* DetailIsCurrent: the detail screen that stays open over a re-run shows  *)
(* the new result of its row, where the target tells that row from the     *)
(* others of its check.                                                    *)
THEOREM DetailShowsNewest == DoctorSpec => []DetailIsCurrent
<1>1. DoctorInit => DetailInv
  BY DEF DoctorInit, DetailInv
<1>2. DetailInv => DetailIsCurrent
  BY DetailOnTop DEF DetailInv, DetailIsCurrent
<1> QED  BY <1>1, <1>2, DetailIsInductive, PTL DEF DoctorSpec

(* DetailKeepsRow: if the target tells every two rows of a check from each *)
(* other, the detail screen stays with the row it was opened on.           *)
THEOREM DetailStaysWithRow ==
  ASSUME \A k \in DOMAIN Rows : Alone(k)
  PROVE  DoctorSpec => []DetailKeepsRow
<1>1. DoctorInit => DetailInv
  BY DEF DoctorInit, DetailInv
<1>2. (\A k \in DOMAIN Rows : Alone(k)) /\ DetailInv => DetailKeepsRow
  BY DetailOnTop DEF DetailInv, DetailKeepsRow
<1> QED  BY <1>1, <1>2, DetailIsInductive, PTL DEF DoctorSpec
-----------------------------------------------------------------------------
(* The masking of arguments, word by word.  A text is masked by cutting it *)
(* after a separator.                                                      *)
Word == STRING \cup {Stars}
Texts == Seq(Word)

IsFirst(t, c, k) == k \in 1 .. Len(t) /\ t[k] = c /\ \A i \in 1 .. k - 1 : t[i] # c

SecretIn(t, a, b) == (a = b /\ t[a] = "token") \/ \E i \in a .. b : t[i] = "auth"

Cut(t, k) == SubSeq(t, 1, k) \o <<Stars>>

IsEnd(t, k) == Len(t) = k + 1 /\ t[k + 1] = Stars

(* Where maskElement cuts: a header, an assignment, a header in "h=".      *)
HeaderCut(t, k) == IsFirst(t, ":", k) /\ SecretIn(t, 1, k - 1)
PlainHeaderCut(t, k) == HeaderCut(t, k) /\ \A i \in 1 .. k : t[i] # "="
InlineCut(t, k) ==
  /\ IsFirst(t, "=", k) /\ SecretIn(t, 1, k - 1)
  /\ \A p \in 1 .. k : ~PlainHeaderCut(t, p)
NestedCut(t, k) ==
  /\ IsFirst(t, "=", 2) /\ t[1] = "h"
  /\ k \in 3 .. Len(t) /\ t[k] = ":" /\ \A i \in 3 .. k - 1 : t[i] # ":"
  /\ SecretIn(t, 3, k - 1)

CutAt(t, k) == PlainHeaderCut(t, k) \/ InlineCut(t, k) \/ NestedCut(t, k)

(* Masked already: it was cut where it would be.                           *)
Settled(t) == \A k \in 1 .. Len(t) : CutAt(t, k) => IsEnd(t, k)
HeaderSettled(t) == \A k \in 1 .. Len(t) : HeaderCut(t, k) => IsEnd(t, k)

LEMMA AtIsFirst ==
  ASSUME NEW t \in Texts, NEW c
  PROVE  /\ At(t, c) \in Nat
         /\ At(t, c) # 0 => IsFirst(t, c, At(t, c))
         /\ At(t, c) = 0 => \A i \in 1 .. Len(t) : t[i] # c
         /\ \A k : IsFirst(t, c, k) => At(t, c) = k
<1> DEFINE I == {i \in 1 .. Len(t) : t[i] = c}
<1>1. At(t, c) = IF I # {} THEN Min(I) ELSE 0
  BY DEF At, SelectInSeq
<1>2. I \subseteq Nat /\ Len(t) \in Nat
  BY DEF Texts
<1>3. I # {} => Min(I) \in I /\ \A y \in I : Min(I) <= y
  <2> HIDE DEF I
  <2> QED  BY <1>2, MinOfNumbers
<1>4. CASE I = {}
  BY <1>1, <1>4 DEF IsFirst
<1>5. CASE I # {}
  <2>1. PICK m : m = Min(I)
    OBVIOUS
  <2>2. m \in I /\ \A y \in I : m <= y
    BY <1>3, <1>5, <2>1
  <2>3. At(t, c) = m /\ m \in 1 .. Len(t) /\ t[m] = c
    BY <1>1, <1>5, <2>1, <2>2
  <2>4. \A i \in 1 .. m - 1 : t[i] # c
    BY <1>2, <2>2, <2>3
  <2>5. ASSUME NEW k, IsFirst(t, c, k)
        PROVE  m = k
    BY <1>2, <2>2, <2>3, <2>4, <2>5 DEF IsFirst
  <2> QED  BY <2>3, <2>4, <2>5 DEF IsFirst
<1> QED  BY <1>4, <1>5

LEMMA CutIs ==
  ASSUME NEW t \in Texts, NEW k \in 1 .. Len(t)
  PROVE  /\ Cut(t, k) \in Texts /\ IsEnd(Cut(t, k), k)
         /\ \A i \in 1 .. k : Cut(t, k)[i] = t[i]
         /\ \A u \in Texts : IsEnd(u, k) /\ (\A i \in 1 .. k : u[i] = t[i]) => u = Cut(t, k)
<1>1. Len(t) \in Nat /\ k \in Nat
  BY DEF Texts
<1> DEFINE s == SubSeq(t, 1, k)
<1>2. s \in Seq(Word) /\ Len(s) = k /\ \A i \in 1 .. k : s[i] = t[i]
  BY <1>1 DEF Texts
<1>3. <<Stars>> \in Seq(Word) /\ Len(<<Stars>>) = 1
  <2>1. Stars \in Word
    BY DEF Word
  <2> QED  BY <2>1
<1> HIDE DEF s
<1>4. /\ s \o <<Stars>> \in Seq(Word) /\ Len(s \o <<Stars>>) = k + 1
      /\ \A i \in 1 .. k : (s \o <<Stars>>)[i] = s[i]
      /\ (s \o <<Stars>>)[k + 1] = Stars
  BY <1>1, <1>2, <1>3, ConcatProperties
<1>5. Cut(t, k) = s \o <<Stars>>
  BY DEF Cut, s
<1>6. PICK c : c = s \o <<Stars>>
  OBVIOUS
<1>7. ASSUME NEW u \in Seq(Word), IsEnd(u, k), \A i \in 1 .. k : u[i] = t[i]
      PROVE  u = c
  <2>1. Len(u) = Len(c) /\ c \in Seq(Word)
    BY <1>4, <1>6, <1>7 DEF IsEnd
  <2>2. \A i \in 1 .. Len(u) : u[i] = c[i]
    BY <1>1, <1>2, <1>4, <1>6, <1>7 DEF IsEnd
  <2> QED  BY <2>1, <2>2, SeqEqual
<1> QED  BY <1>2, <1>4, <1>5, <1>6, <1>7 DEF Texts, IsEnd

(* A separator and the stars after what is before it.                      *)
LEMMA CutTail ==
  ASSUME NEW t \in Texts, NEW k \in 1 .. Len(t)
  PROVE  SubSeq(t, 1, k - 1) \o <<t[k], Stars>> = Cut(t, k)
<1>1. Len(t) \in Nat /\ t \in Seq(Word) /\ t[k] \in Word
  BY DEF Texts
<1> DEFINE s == SubSeq(t, 1, k - 1)
           r == <<t[k], Stars>>
<1>2. s \in Seq(Word) /\ Len(s) = k - 1 /\ \A i \in 1 .. k - 1 : s[i] = t[i]
  BY <1>1
<1>3. r \in Seq(Word) /\ Len(r) = 2 /\ r[1] = t[k] /\ r[2] = Stars
  BY <1>1 DEF Word
<1> HIDE DEF s, r
<1>4. /\ s \o r \in Seq(Word) /\ Len(s \o r) = k + 1
      /\ \A i \in 1 .. k - 1 : (s \o r)[i] = s[i]
      /\ (s \o r)[k] = r[1] /\ (s \o r)[k + 1] = r[2]
  <2>1. /\ s \o r \in Seq(Word) /\ Len(s \o r) = Len(s) + Len(r)
        /\ \A i \in 1 .. Len(s) + Len(r) :
             (s \o r)[i] = IF i <= Len(s) THEN s[i] ELSE r[i - Len(s)]
    BY <1>2, <1>3, ConcatProperties
  <2>2. k - Len(s) = 1 /\ k + 1 - Len(s) = 2 /\ Len(s) + Len(r) = k + 1 /\ k \in Nat \ {0}
    BY <1>1, <1>2, <1>3
  <2>3. /\ k \in 1 .. Len(s) + Len(r) /\ ~(k <= Len(s))
        /\ k + 1 \in 1 .. Len(s) + Len(r) /\ ~(k + 1 <= Len(s))
        /\ \A i \in 1 .. k - 1 : i \in 1 .. Len(s) + Len(r) /\ i <= Len(s)
    BY <1>2, <2>2
  <2> QED  BY <2>1, <2>2, <2>3
<1>5. PICK c : c = s \o r
  OBVIOUS
<1>6. c \in Texts /\ IsEnd(c, k) /\ \A i \in 1 .. k : c[i] = t[i]
  BY <1>2, <1>3, <1>4, <1>5 DEF Texts, IsEnd
<1>7. c = Cut(t, k)
  BY <1>6, CutIs
<1> QED  BY <1>5, <1>7 DEF s, r

LEMMA SecretSub ==
  ASSUME NEW t \in Texts, NEW a \in 1 .. Len(t) + 1, NEW b \in 0 .. Len(t)
  PROVE  /\ IsSecretKey(SubSeq(t, a, b)) <=> SecretIn(t, a, b)
         /\ IsHeaderKey(SubSeq(t, a, b)) <=> a = b /\ t[a] = "h"
<1>1. Len(t) \in Nat /\ t \in Seq(Word)
  BY DEF Texts
<1>2. PICK s : s = SubSeq(t, a, b)
  OBVIOUS
<1>3. /\ s \in Seq(Word) /\ Len(s) = (IF a <= b THEN b - a + 1 ELSE 0)
      /\ \A i \in 1 .. Len(s) : s[i] = t[a + i - 1]
  BY <1>1, <1>2, SubSeqProperties
<1>4. ASSUME NEW w
      PROVE  s = <<w>> <=> a = b /\ t[a] = w
  <2>1. ASSUME s = <<w>> PROVE a = b /\ t[a] = w
    <3>1. Len(s) = 1 /\ s[1] = w
      BY <2>1
    <3>2. 1 \in 1 .. Len(s) /\ a + 1 - 1 = a
      BY <3>1
    <3>3. s[1] = t[a]
      BY <1>3, <3>2
    <3>4. a = b
      <4>1. a \in Int /\ b \in Int
        BY <1>1
      <4>2. Len(s) = 1
        BY <3>1
      <4>3. IF a <= b THEN b - a + 1 = 1 ELSE 0 = 1
        BY <1>3, <4>2
      <4> QED  BY <4>1, <4>3
    <3> QED  BY <3>1, <3>3, <3>4
  <2>2. ASSUME a = b, t[a] = w PROVE s = <<w>>
    <3>1. Len(s) = 1 /\ s[1] = w
      BY <1>1, <1>3, <2>2
    <3> QED  BY <1>3, <3>1
  <2> QED  BY <2>1, <2>2
<1>5. "auth" \in ToSet(s) <=> \E i \in a .. b : t[i] = "auth"
  <2>1. ToSet(s) = {s[i] : i \in 1 .. Len(s)}
    BY <1>3 DEF ToSet
  <2>2. ASSUME NEW i \in 1 .. Len(s)
        PROVE  a + i - 1 \in a .. b /\ t[a + i - 1] = s[i]
    BY <1>1, <1>3
  <2>3. ASSUME NEW i \in a .. b
        PROVE  i - a + 1 \in 1 .. Len(s) /\ s[i - a + 1] = t[i]
    BY <1>1, <1>3
  <2> QED  BY <2>1, <2>2, <2>3
<1> QED  BY <1>2, <1>4, <1>5 DEF IsSecretKey, IsHeaderKey, SecretIn

(* maskHeader and maskInline cut where these say.                          *)
LEMMA MaskHeaderIs ==
  ASSUME NEW t \in Texts
  PROVE  \/ \E k \in 1 .. Len(t) : HeaderCut(t, k) /\ MaskHeader(t) = Cut(t, k)
         \/ (\A k \in 1 .. Len(t) : ~HeaderCut(t, k)) /\ MaskHeader(t) = t
<1> DEFINE p == At(t, ":")
<1>1. CASE p = 0
  BY <1>1, AtIsFirst DEF MaskHeader, HeaderCut, IsFirst
<1>2. CASE p # 0
  <2>1. IsFirst(t, ":", p) /\ p \in 1 .. Len(t) /\ t[p] = ":"
        /\ \A k : IsFirst(t, ":", k) => k = p
    BY <1>2, AtIsFirst DEF IsFirst
  <2>2. Len(t) \in Nat
    BY DEF Texts
  <2>3. IsSecretKey(SubSeq(t, 1, p - 1)) <=> SecretIn(t, 1, p - 1)
    BY <2>1, <2>2, SecretSub
  <2>4. SubSeq(t, 1, p - 1) \o <<":", Stars>> = Cut(t, p)
    BY <2>1, CutTail
  <2> QED  BY <1>2, <2>1, <2>3, <2>4 DEF MaskHeader, Before, HeaderCut
<1> QED  BY <1>1, <1>2

(* A field after "h=".                                                     *)
LEMMA Prefixed ==
  ASSUME NEW w \in Texts
  PROVE  LET c == <<"h">> \o <<"=">> \o w
         IN Len(c) = Len(w) + 2 /\ c[1] = "h" /\ c[2] = "="
            /\ \A i \in 1 .. Len(w) : c[i + 2] = w[i]
<1> DEFINE k == <<"h">> \o <<"=">>
           S == {"h", "="} \cup Word
<1>1. k \in Seq(S) /\ Len(k) = 2 /\ k[1] = "h" /\ k[2] = "="
  OBVIOUS
<1>2. w \in Seq(S) /\ Len(w) \in Nat
  BY DEF Texts
<1> HIDE DEF k, S
<1>3. /\ k \o w \in Seq(S) /\ Len(k \o w) = Len(k) + Len(w)
      /\ \A i \in 1 .. Len(k) + Len(w) : (k \o w)[i] = IF i <= Len(k) THEN k[i] ELSE w[i - Len(k)]
  BY <1>1, <1>2, ConcatProperties
<1>4. ASSUME NEW i \in 1 .. Len(w)
      PROVE  (k \o w)[i + 2] = w[i]
  <2>1. i + 2 \in 1 .. Len(k) + Len(w) /\ ~(i + 2 <= Len(k)) /\ i + 2 - Len(k) = i
    BY <1>1, <1>2
  <2> QED  BY <1>3, <2>1
<1>5. (k \o w)[1] = "h" /\ (k \o w)[2] = "="
  BY <1>1, <1>2, <1>3
<1> QED  BY <1>1, <1>3, <1>4, <1>5 DEF k

LEMMA NestedIs ==
  ASSUME NEW t \in Texts, IsFirst(t, "=", 2), t[1] = "h"
  PROVE  LET v == After(t, "=")
             u == Before(t, "=") \o <<"=">> \o MaskHeader(v)
         IN \/ \E k \in 1 .. Len(t) : NestedCut(t, k) /\ u = Cut(t, k)
            \/ (\A k \in 1 .. Len(t) : ~NestedCut(t, k)) /\ u = t
<1>1. Len(t) \in Nat /\ t \in Seq(Word) /\ Len(t) >= 2 /\ At(t, "=") = 2 /\ t[2] = "="
  BY AtIsFirst DEF Texts, IsFirst
<1>2. PICK v : v = SubSeq(t, 3, Len(t))
  OBVIOUS
<1>3. v \in Seq(Word) /\ Len(v) = Len(t) - 2 /\ \A i \in 1 .. Len(v) : v[i] = t[i + 2]
  <2>1. v \in Seq(Word) /\ Len(v) = (IF 3 <= Len(t) THEN Len(t) - 3 + 1 ELSE 0)
        /\ \A i \in 1 .. Len(v) : v[i] = t[3 + i - 1]
    <3>1. 3 \in 1 .. Len(t) + 1 /\ Len(t) \in 3 - 1 .. Len(t)
      BY <1>1
    <3> QED  BY <1>1, <1>2, <3>1, SubSeqProperties
  <2>2. Len(v) = Len(t) - 2
    <3>1. Len(t) \in Nat /\ Len(t) >= 2
      BY <1>1
    <3>2. Len(v) = IF 3 <= Len(t) THEN Len(t) - 3 + 1 ELSE 0
      BY <2>1
    <3>3. ASSUME NEW n \in Nat, n >= 2
          PROVE  (IF 3 <= n THEN n - 3 + 1 ELSE 0) = n - 2
      BY <3>3
    <3> QED  BY <3>1, <3>2, <3>3
  <2>3. ASSUME NEW i \in 1 .. Len(v)
        PROVE  v[i] = t[i + 2]
    <3>1. 3 + i - 1 = i + 2
      BY <1>1, <2>2
    <3> QED  BY <2>1, <3>1
  <2> QED  BY <2>1, <2>2, <2>3
<1>4. After(t, "=") = v
  BY <1>1, <1>2 DEF After
<1>5. Before(t, "=") = <<"h">>
  <2>1. Before(t, "=") = SubSeq(t, 1, 1)
    <3>1. At(t, "=") - 1 = 1
      BY <1>1
    <3> QED  BY <3>1 DEF Before
  <2> QED  BY <1>1, <2>1
<1>6. v \in Texts
  BY <1>3 DEF Texts
<1>7. ASSUME NEW j \in 1 .. Len(v)
      PROVE  j + 2 \in 3 .. Len(t) /\ (HeaderCut(v, j) <=> NestedCut(t, j + 2))
  <2>1. j + 2 \in 3 .. Len(t) /\ j + 2 - 1 = j + 1 /\ Len(v) \in Nat
    BY <1>1, <1>3
  <2>2. (\A i \in 1 .. j - 1 : v[i] # ":") <=> \A i \in 3 .. j + 1 : t[i] # ":"
    <3>1. ASSUME NEW i \in 1 .. j - 1 PROVE i + 2 \in 3 .. j + 1 /\ v[i] = t[i + 2]
      BY <1>3, <2>1
    <3>2. ASSUME NEW i \in 3 .. j + 1 PROVE i - 2 \in 1 .. j - 1 /\ v[i - 2] = t[i]
      <4>1. i - 2 \in 1 .. j - 1 /\ i - 2 \in 1 .. Len(v) /\ i - 2 + 2 = i
        BY <1>3, <2>1
      <4> QED  BY <1>3, <4>1
    <3> QED  BY <3>1, <3>2
  <2>3. SecretIn(v, 1, j - 1) <=> SecretIn(t, 3, j + 1)
    <3>1. ASSUME NEW i \in 1 .. j - 1 PROVE i + 2 \in 3 .. j + 1 /\ v[i] = t[i + 2]
      BY <1>3, <2>1
    <3>2. ASSUME NEW i \in 3 .. j + 1 PROVE i - 2 \in 1 .. j - 1 /\ v[i - 2] = t[i]
      <4>1. i - 2 \in 1 .. j - 1 /\ i - 2 \in 1 .. Len(v) /\ i - 2 + 2 = i
        BY <1>3, <2>1
      <4> QED  BY <1>3, <4>1
    <3>3. 1 = j - 1 <=> 3 = j + 1
      BY <2>1
    <3>4. 1 = j - 1 => v[1] = t[3]
      BY <3>1
    <3> QED  BY <3>1, <3>2, <3>3, <3>4 DEF SecretIn
  <2>4. v[j] = t[j + 2]
    BY <1>3
  <2> QED  BY <2>1, <2>2, <2>3, <2>4 DEF HeaderCut, NestedCut, IsFirst
<1>8. CASE \E j \in 1 .. Len(v) : HeaderCut(v, j) /\ MaskHeader(v) = Cut(v, j)
  <2>1. PICK j \in 1 .. Len(v) : HeaderCut(v, j) /\ MaskHeader(v) = Cut(v, j)
    BY <1>8
  <2>2. PICK w : w = Cut(v, j)
    OBVIOUS
  <2>3. w \in Texts /\ Len(w) = j + 1 /\ w[j + 1] = Stars /\ \A i \in 1 .. j : w[i] = v[i]
    BY <1>6, <2>2, CutIs DEF IsEnd
  <2>4. PICK u : u = <<"h">> \o <<"=">> \o w
    OBVIOUS
  <2>5. Len(u) = j + 3 /\ u[1] = "h" /\ u[2] = "=" /\ \A i \in 1 .. j + 1 : u[i + 2] = w[i]
    <3>1. Len(u) = Len(w) + 2 /\ u[1] = "h" /\ u[2] = "=" /\ \A i \in 1 .. Len(w) : u[i + 2] = w[i]
      BY <2>3, <2>4, Prefixed
    <3> QED  BY <2>3, <3>1
  <2>6. j \in Nat \ {0} /\ j + 2 \in 1 .. Len(t)
    BY <1>1, <1>7, <2>1
  <2>7. \A i \in 1 .. j + 2 : u[i] = t[i]
    <3> SUFFICES ASSUME NEW i \in 1 .. j + 2 PROVE u[i] = t[i]
      OBVIOUS
    <3>1. CASE i \in {1, 2}
      BY <1>1, <2>5, <3>1
    <3>2. CASE i \notin {1, 2}
      <4>1. i - 2 \in 1 .. j /\ i - 2 + 2 = i /\ i - 2 \in 1 .. j + 1 /\ i - 2 \in 1 .. Len(v)
        BY <1>1, <1>3, <2>6, <3>2
      <4> QED  BY <1>3, <2>3, <2>5, <4>1
    <3> QED  BY <3>1, <3>2
  <2>8. u[j + 3] = Stars /\ j + 2 + 1 = j + 3
    <3>1. j + 1 \in 1 .. j + 1 /\ j + 1 + 2 = j + 3
      BY <2>6
    <3> QED  BY <2>3, <2>5, <3>1
  <2>9. u \in Texts
    <3>1. w \in Seq(Word) /\ <<"h">> \in Seq(Word) /\ <<"=">> \in Seq(Word)
      <4>1. t[1] \in Word /\ t[2] \in Word
        BY <1>1
      <4> QED  BY <1>1, <2>3, <4>1 DEF Texts
    <3>2. <<"h">> \o <<"=">> \in Seq(Word)
      BY <3>1, ConcatProperties
    <3> QED  BY <2>4, <3>1, <3>2, ConcatProperties DEF Texts
  <2>10. u = Cut(t, j + 2)
    <3>1. IsEnd(u, j + 2)
      BY <2>5, <2>8 DEF IsEnd
    <3> QED  BY ONLY <2>6, <2>7, <2>9, <3>1, t \in Texts, CutIs
  <2>11. NestedCut(t, j + 2)
    BY <1>7, <2>1
  <2> QED  BY <1>4, <1>5, <2>1, <2>2, <2>4, <2>6, <2>10, <2>11
<1>9. CASE (\A j \in 1 .. Len(v) : ~HeaderCut(v, j)) /\ MaskHeader(v) = v
  <2>1. \A k \in 1 .. Len(t) : ~NestedCut(t, k)
    <3> SUFFICES ASSUME NEW k \in 1 .. Len(t), NestedCut(t, k) PROVE FALSE
      OBVIOUS
    <3>1. k - 2 \in 1 .. Len(v) /\ k - 2 + 2 = k
      BY <1>1, <1>3 DEF NestedCut
    <3> QED  BY <1>7, <1>9, <3>1
  <2>2. PICK u : u = <<"h">> \o <<"=">> \o v
    OBVIOUS
  <2>3. Len(u) = Len(v) + 2 /\ u[1] = "h" /\ u[2] = "=" /\ \A i \in 1 .. Len(v) : u[i + 2] = v[i]
    BY <1>6, <2>2, Prefixed
  <2>4. Len(u) = Len(t)
    BY <1>1, <1>3, <2>3
  <2>5. \A i \in 1 .. Len(t) : u[i] = t[i]
    <3> SUFFICES ASSUME NEW i \in 1 .. Len(t) PROVE u[i] = t[i]
      OBVIOUS
    <3>1. CASE i \in {1, 2}
      BY <1>1, <2>3, <3>1
    <3>2. CASE i \notin {1, 2}
      <4>1. i - 2 \in 1 .. Len(v) /\ i - 2 + 2 = i
        BY <1>1, <1>3, <3>2
      <4> QED  BY <1>3, <2>3, <4>1
    <3> QED  BY <3>1, <3>2
  <2>6. u \in Seq(Word)
    <3>1. <<"h">> \in Seq(Word) /\ <<"=">> \in Seq(Word)
      <4>1. t[1] \in Word /\ t[2] \in Word
        BY <1>1
      <4> QED  BY <1>1, <4>1
    <3>2. <<"h">> \o <<"=">> \in Seq(Word)
      BY <3>1, ConcatProperties
    <3> QED  BY <1>3, <2>2, <3>2, ConcatProperties
  <2>7. u = t
    BY <1>1, <2>4, <2>5, <2>6, SeqEqual
  <2> QED  BY <1>4, <1>5, <1>9, <2>1, <2>2, <2>7
<1> QED  BY <1>6, <1>8, <1>9, MaskHeaderIs

LEMMA MaskInlineIs ==
  ASSUME NEW t \in Texts, At(t, "=") # 0, \A k \in 1 .. Len(t) : ~PlainHeaderCut(t, k)
  PROVE  \/ \E k \in 1 .. Len(t) : CutAt(t, k) /\ MaskInline(t) = Cut(t, k)
         \/ (\A k \in 1 .. Len(t) : ~CutAt(t, k)) /\ MaskInline(t) = t
<1> DEFINE q == At(t, "=")
<1>1. IsFirst(t, "=", q) /\ q \in 1 .. Len(t) /\ t[q] = "=" /\ \A k : IsFirst(t, "=", k) => k = q
  BY AtIsFirst DEF IsFirst
<1>2. Len(t) \in Nat
  BY DEF Texts
<1> HIDE DEF q
<1>3. /\ IsSecretKey(SubSeq(t, 1, q - 1)) <=> SecretIn(t, 1, q - 1)
      /\ IsHeaderKey(SubSeq(t, 1, q - 1)) <=> 1 = q - 1 /\ t[1] = "h"
  <2>1. 1 \in 1 .. Len(t) + 1 /\ q - 1 \in 0 .. Len(t)
    BY <1>1, <1>2
  <2> QED  BY <2>1, SecretSub
<1>4. Before(t, "=") = SubSeq(t, 1, q - 1)
  BY DEF Before, q
<1>5. CASE IsHeaderKey(SubSeq(t, 1, q - 1))
  <2>1. q = 2 /\ t[1] = "h"
    BY <1>1, <1>2, <1>3, <1>5
  <2>2. \A k \in 1 .. Len(t) : ~InlineCut(t, k)
    <3>1. ~SecretIn(t, 1, 1)
      BY <2>1 DEF SecretIn
    <3>2. 2 - 1 = 1
      OBVIOUS
    <3> QED  BY <1>1, <2>1, <3>1, <3>2 DEF InlineCut
  <2>3. \A k \in 1 .. Len(t) : CutAt(t, k) <=> NestedCut(t, k)
    BY <2>2 DEF CutAt
  <2>4. MaskInline(t) = Before(t, "=") \o <<"=">> \o MaskHeader(After(t, "="))
    BY <1>4, <1>5 DEF MaskInline
  <2> QED  BY <1>1, <2>1, <2>3, <2>4, NestedIs
<1>6. CASE ~IsHeaderKey(SubSeq(t, 1, q - 1))
  <2>1. ~(q = 2 /\ t[1] = "h")
    BY <1>3, <1>6
  <2>2. \A k \in 1 .. Len(t) : ~NestedCut(t, k)
    BY <1>1, <2>1 DEF NestedCut
  <2>3. \A k \in 1 .. Len(t) : CutAt(t, k) <=> k = q /\ SecretIn(t, 1, q - 1)
    <3>1. \A p \in 1 .. q : ~PlainHeaderCut(t, p)
      BY <1>1, <1>2
    <3> QED  BY <1>1, <2>2, <3>1 DEF CutAt, InlineCut
  <2>4. MaskInline(t) = IF SecretIn(t, 1, q - 1) THEN SubSeq(t, 1, q - 1) \o <<"=", Stars>> ELSE t
    BY <1>3, <1>4, <1>6 DEF MaskInline
  <2>5. SubSeq(t, 1, q - 1) \o <<"=", Stars>> = Cut(t, q)
    BY <1>1, CutTail
  <2> QED  BY <1>1, <2>3, <2>4, <2>5
<1> QED  BY <1>5, <1>6

LEMMA MaskElementIs ==
  ASSUME NEW t \in Texts
  PROVE  \/ \E k \in 1 .. Len(t) : CutAt(t, k) /\ MaskElement(t) = Cut(t, k)
         \/ (\A k \in 1 .. Len(t) : ~CutAt(t, k)) /\ MaskElement(t) = t
<1> DEFINE q == At(t, "=")
           x == Before(t, "=")
<1>1. Len(t) \in Nat /\ q \in Nat
  BY AtIsFirst DEF Texts
<1>2. CASE q = 0
  <2>1. \A i \in 1 .. Len(t) : t[i] # "="
    BY <1>2, AtIsFirst
  <2>2. \A k \in 1 .. Len(t) : CutAt(t, k) <=> HeaderCut(t, k)
    BY <1>1, <2>1 DEF CutAt, PlainHeaderCut, InlineCut, NestedCut, IsFirst
  <2>3. MaskElement(t) = MaskHeader(t)
    BY <1>2 DEF MaskElement
  <2> QED  BY <2>2, <2>3, MaskHeaderIs
<1>3. CASE q # 0
  <2>1. q \in 1 .. Len(t) /\ t[q] = "=" /\ \A i \in 1 .. q - 1 : t[i] # "="
    BY <1>3, AtIsFirst DEF IsFirst
  <2> HIDE DEF q, x
  <2>2. x = SubSeq(t, 1, q - 1)
    BY DEF x, q, Before
  <2>3. x \in Texts /\ Len(x) = q - 1 /\ \A i \in 1 .. q - 1 : x[i] = t[i]
    BY <1>1, <2>1, <2>2 DEF Texts
  <2>4. At(x, ":") # 0 <=> \E i \in 1 .. q - 1 : t[i] = ":"
    <3>1. \A i \in 1 .. Len(x) : i \in 1 .. q - 1
      BY <2>3
    <3> QED  BY <2>3, <3>1, AtIsFirst DEF IsFirst
  <2>5. MaskElement(t) = IF At(x, ":") # 0 /\ MaskHeader(t) # t THEN MaskHeader(t) ELSE MaskInline(t)
    BY <1>3 DEF MaskElement, x, q
  <2>6. CASE \E k \in 1 .. Len(t) : PlainHeaderCut(t, k)
    <3>1. PICK k \in 1 .. Len(t) : PlainHeaderCut(t, k)
      BY <2>6
    <3>2. HeaderCut(t, k) /\ t[k] = ":" /\ \A i \in 1 .. k : t[i] # "="
      BY <3>1 DEF PlainHeaderCut, HeaderCut, IsFirst
    <3>3. k < q
      BY <1>1, <2>1, <3>2
    <3>4. \A j \in 1 .. Len(t) : HeaderCut(t, j) => j = k
      BY <1>1, <3>2 DEF HeaderCut, IsFirst
    <3>5. MaskHeader(t) = Cut(t, k)
      BY <3>2, <3>4, MaskHeaderIs
    <3>6. MaskHeader(t) # t
      <4> SUFFICES ASSUME Cut(t, k) = t PROVE FALSE
        BY <3>5
      <4>1. Len(t) = k + 1 /\ t[k + 1] = Stars
        BY CutIs DEF IsEnd
      <4>2. q = k + 1
        BY <1>1, <2>1, <3>3, <4>1
      <4> QED  BY <2>1, <4>1, <4>2 DEF Stars
    <3>7. At(x, ":") # 0
      BY <1>1, <2>1, <2>4, <3>2, <3>3
    <3> QED  BY <2>5, <3>1, <3>5, <3>6, <3>7 DEF CutAt
  <2>7. CASE \A k \in 1 .. Len(t) : ~PlainHeaderCut(t, k)
    <3>1. ~(At(x, ":") # 0 /\ MaskHeader(t) # t)
      <4> SUFFICES ASSUME At(x, ":") # 0, MaskHeader(t) # t PROVE FALSE
        OBVIOUS
      <4>1. PICK k \in 1 .. Len(t) : HeaderCut(t, k)
        BY MaskHeaderIs
      <4>2. PICK i \in 1 .. q - 1 : t[i] = ":"
        BY <2>4
      <4>3. k < q
        BY <1>1, <2>1, <4>1, <4>2 DEF HeaderCut, IsFirst
      <4>4. \A j \in 1 .. k : t[j] # "="
        BY <1>1, <2>1, <4>3
      <4> QED  BY <2>7, <4>1, <4>4 DEF PlainHeaderCut
    <3>2. At(t, "=") # 0
      BY <1>3 DEF q
    <3> QED  BY <2>5, <2>7, <3>1, <3>2, MaskInlineIs
  <2> QED  BY <2>6, <2>7
<1> QED  BY <1>2, <1>3

-----------------------------------------------------------------------------
(* What was cut is not cut elsewhere the next time.                        *)
LEMMA StaysCut ==
  ASSUME NEW t \in Texts, NEW k \in 1 .. Len(t), IsEnd(t, k)
  PROVE  t = Cut(t, k)
BY CutIs

LEMMA SettledStays ==
  ASSUME NEW t \in Texts, Settled(t)
  PROVE  MaskElement(t) = t
BY MaskElementIs, StaysCut DEF Settled

LEMMA HeaderSettledStays ==
  ASSUME NEW t \in Texts, HeaderSettled(t)
  PROVE  MaskHeader(t) = t
BY MaskHeaderIs, StaysCut DEF HeaderSettled

(* What is in a text up to k is in any text that begins like it.           *)
Begins(t, u, k) == \A i \in 1 .. k : u[i] = t[i]

LEMMA SecretBegins ==
  ASSUME NEW t, NEW u, NEW k \in Nat, Begins(t, u, k), NEW a \in 1 .. k + 1, NEW b \in 0 .. k
  PROVE  SecretIn(u, a, b) <=> SecretIn(t, a, b)
<1>1. \A i \in a .. b : u[i] = t[i]
  BY DEF Begins
<1>2. a = b => u[a] = t[a]
  BY DEF Begins
<1> QED  BY <1>1, <1>2 DEF SecretIn

LEMMA CutBegins ==
  ASSUME NEW t \in Texts, NEW k \in 1 .. Len(t), NEW u, u = Cut(t, k),
         NEW j \in 1 .. Len(u), u[j] \in Seps
  PROVE  /\ u \in Texts /\ IsEnd(u, k) /\ Begins(t, u, k)
         /\ j \in 1 .. k /\ j \in 1 .. Len(t) /\ k \in Nat /\ Len(t) \in Nat
<1>1. u \in Texts /\ IsEnd(u, k) /\ Begins(t, u, k)
  BY CutIs DEF Begins
<1>2. k \in Nat /\ Len(t) \in Nat
  BY DEF Texts
<1>3. j # k + 1
  BY <1>1 DEF IsEnd, Stars, Seps
<1>4. j \in 1 .. k
  BY <1>1, <1>2, <1>3 DEF IsEnd
<1> QED  BY <1>1, <1>2, <1>4

LEMMA SameFirst ==
  ASSUME NEW t \in Texts, NEW u \in Texts, NEW k \in 1 .. Len(t), k \in 1 .. Len(u), Begins(t, u, k),
         NEW j \in 1 .. k, NEW c
  PROVE  /\ IsFirst(u, c, j) <=> IsFirst(t, c, j)
         /\ PlainHeaderCut(u, j) <=> PlainHeaderCut(t, j)
         /\ HeaderCut(u, j) <=> HeaderCut(t, j)
<1>1. Len(t) \in Nat /\ Len(u) \in Nat /\ k \in Nat /\ j \in 1 .. Len(t) /\ j \in 1 .. Len(u)
  BY DEF Texts
<1>2. \A i \in 1 .. j : u[i] = t[i]
  BY <1>1 DEF Begins
<1>3. \A i \in 1 .. j - 1 : u[i] = t[i]
  BY <1>1, <1>2
<1>4. u[j] = t[j]
  BY <1>1, <1>2
<1>5. \A d : IsFirst(u, d, j) <=> IsFirst(t, d, j)
  BY <1>1, <1>3, <1>4 DEF IsFirst
<1>6. SecretIn(u, 1, j - 1) <=> SecretIn(t, 1, j - 1)
  <2>1. 1 \in 1 .. k + 1 /\ j - 1 \in 0 .. k
    BY <1>1
  <2> QED  BY <1>1, <2>1, SecretBegins
<1>7. HeaderCut(u, j) <=> HeaderCut(t, j)
  BY <1>5, <1>6 DEF HeaderCut
<1> QED  BY <1>2, <1>5, <1>7 DEF PlainHeaderCut

LEMMA ElementSettles ==
  ASSUME NEW t \in Texts
  PROVE  MaskElement(t) \in Texts /\ Settled(MaskElement(t))
<1>1. CASE \A k \in 1 .. Len(t) : ~CutAt(t, k)
  BY <1>1, MaskElementIs DEF Settled
<1>2. CASE \E k \in 1 .. Len(t) : CutAt(t, k) /\ MaskElement(t) = Cut(t, k)
  <2>1. PICK k \in 1 .. Len(t) : CutAt(t, k) /\ MaskElement(t) = Cut(t, k)
    BY <1>2
  <2>2. PICK u : u = Cut(t, k)
    OBVIOUS
  <2>3. u \in Texts /\ IsEnd(u, k) /\ Begins(t, u, k) /\ k \in Nat /\ Len(t) \in Nat
        /\ k \in 1 .. Len(u)
    BY <2>2, CutIs DEF Begins, IsEnd, Texts
  <2>4. ASSUME NEW j \in 1 .. Len(u), CutAt(u, j)
        PROVE  j = k
    <3>1. u[j] \in Seps
      BY <2>4 DEF CutAt, PlainHeaderCut, HeaderCut, InlineCut, NestedCut, IsFirst, Seps
    <3>2. j \in 1 .. k /\ j \in 1 .. Len(t)
      BY <2>2, <3>1, CutBegins
    <3>3. \A i \in 1 .. k : \A c : IsFirst(u, c, i) <=> IsFirst(t, c, i)
      BY <2>3, SameFirst
    <3>4. \A i \in 1 .. k : PlainHeaderCut(u, i) <=> PlainHeaderCut(t, i)
      BY <2>3, SameFirst
    <3>5. \A i \in 1 .. k : u[i] = t[i]
      BY <2>3 DEF Begins
    <3>6. CASE PlainHeaderCut(t, k)
      <4>1. t[k] = ":" /\ IsFirst(t, ":", k) /\ \A i \in 1 .. k : t[i] # "="
        BY <3>6 DEF PlainHeaderCut, HeaderCut, IsFirst
      <4>2. \A i \in 1 .. k : ~IsFirst(u, "=", i)
        BY <3>5, <4>1 DEF IsFirst
      <4>3. PlainHeaderCut(u, j)
        <5>1. ~InlineCut(u, j)
          BY <3>2, <4>2 DEF InlineCut
        <5>2. ~NestedCut(u, j)
          <6>1. NestedCut(u, j) => IsFirst(u, "=", 2) /\ 2 \in 1 .. k
            BY <2>3, <3>2 DEF NestedCut
          <6> QED  BY <4>2, <6>1
        <5> QED  BY <2>4, <5>1, <5>2 DEF CutAt
      <4>4. IsFirst(t, ":", j)
        BY <3>2, <3>4, <4>3 DEF PlainHeaderCut, HeaderCut
      <4> QED  BY <2>3, <3>2, <4>1, <4>4 DEF IsFirst
    <3>7. CASE InlineCut(t, k)
      <4>1. IsFirst(t, "=", k) /\ \A p \in 1 .. k : ~PlainHeaderCut(t, p)
        BY <3>7 DEF InlineCut
      <4>2. ~PlainHeaderCut(u, j)
        BY <3>2, <3>4, <4>1
      <4>3. ASSUME NEW i \in 1 .. k, IsFirst(u, "=", i)
            PROVE  i = k
        <5>1. IsFirst(t, "=", i)
          BY <3>3, <4>3
        <5>2. t[i] = "="
          BY <5>1 DEF IsFirst
        <5>3. \A l \in 1 .. k - 1 : t[l] # "="
          BY <4>1 DEF IsFirst
        <5>4. i \in 1 .. k - 1 \/ i = k
          BY ONLY <2>3, i \in 1 .. k
        <5> QED  BY <5>2, <5>3, <5>4
      <4>4. ~NestedCut(u, j)
        <5> SUFFICES ASSUME NestedCut(u, j) PROVE FALSE
          OBVIOUS
        <5>1. IsFirst(u, "=", 2) /\ j \in 3 .. Len(u)
          BY DEF NestedCut
        <5>2. 2 \in 1 .. k /\ 2 # k
          BY <2>3, <3>2, <5>1
        <5> QED  BY <4>3, <5>1, <5>2
      <4>5. InlineCut(u, j)
        BY <2>4, <4>2, <4>4 DEF CutAt
      <4> QED  BY <3>2, <4>3, <4>5 DEF InlineCut
    <3>8. CASE NestedCut(t, k)
      <4>1. k \in 3 .. Len(t) /\ t[k] = ":" /\ t[1] = "h" /\ IsFirst(t, "=", 2)
            /\ \A i \in 3 .. k - 1 : t[i] # ":"
        BY <3>8 DEF NestedCut
      <4>2. u[1] = "h" /\ u[2] = "=" /\ 1 \in 1 .. k /\ 2 \in 1 .. k
        BY <2>3, <3>5, <4>1 DEF IsFirst
      <4>3. ~PlainHeaderCut(u, j)
        <5> SUFFICES ASSUME PlainHeaderCut(u, j) PROVE FALSE
          OBVIOUS
        <5>1. u[j] = ":" /\ \A i \in 1 .. j : u[i] # "="
          BY DEF PlainHeaderCut, HeaderCut, IsFirst
        <5>2. j = 1
          BY <2>3, <3>2, <4>2, <5>1
        <5> QED  BY <4>2, <5>1, <5>2
      <4>4. ~InlineCut(u, j)
        <5> SUFFICES ASSUME InlineCut(u, j) PROVE FALSE
          OBVIOUS
        <5>1. IsFirst(u, "=", j) /\ SecretIn(u, 1, j - 1)
          BY DEF InlineCut
        <5>2. j = 2
          BY <2>3, <3>2, <4>2, <5>1 DEF IsFirst
        <5>3. SecretIn(u, 1, 1)
          <6>1. j - 1 = 1
            BY <5>2
          <6> QED  BY <5>1, <6>1
        <5> QED  BY <4>2, <5>3 DEF SecretIn
      <4>5. NestedCut(u, j)
        BY <2>4, <4>3, <4>4 DEF CutAt
      <4>6. j \in 3 .. k /\ u[j] = ":"
        BY <2>3, <3>2, <4>5 DEF NestedCut
      <4> QED  BY <2>3, <3>5, <4>1, <4>6, <3>2
    <3> QED  BY <2>1, <3>6, <3>7, <3>8 DEF CutAt
  <2>5. Settled(u)
    BY <2>3, <2>4 DEF Settled
  <2> QED  BY <2>1, <2>2, <2>3, <2>5
<1> QED  BY <1>1, <1>2, MaskElementIs

(* An element that was masked may be cut once more as a header.            *)
LEMMA HeaderSettles ==
  ASSUME NEW t \in Texts, Settled(t)
  PROVE  MaskHeader(t) \in Texts /\ Settled(MaskHeader(t)) /\ HeaderSettled(MaskHeader(t))
<1>1. CASE (\A k \in 1 .. Len(t) : ~HeaderCut(t, k)) /\ MaskHeader(t) = t
  BY <1>1 DEF HeaderSettled
<1>2. CASE \E k \in 1 .. Len(t) : HeaderCut(t, k) /\ MaskHeader(t) = Cut(t, k)
  <2>1. PICK k \in 1 .. Len(t) : HeaderCut(t, k) /\ MaskHeader(t) = Cut(t, k)
    BY <1>2
  <2>2. PICK u : u = Cut(t, k)
    OBVIOUS
  <2>3. u \in Texts /\ IsEnd(u, k) /\ Begins(t, u, k) /\ k \in Nat /\ Len(t) \in Nat
        /\ k \in 1 .. Len(u)
    BY <2>2, CutIs DEF Begins, IsEnd, Texts
  <2>4. IsFirst(t, ":", k) /\ t[k] = ":" /\ \A i \in 1 .. k - 1 : t[i] # ":"
    BY <2>1 DEF HeaderCut, IsFirst
  <2>5. \A i \in 1 .. k : u[i] = t[i]
    BY <2>3 DEF Begins
  <2>6. ASSUME NEW j \in 1 .. Len(u), u[j] = ":"
        PROVE  j = k
    <3>1. j \in 1 .. k
      BY <2>2, <2>6, CutBegins DEF Seps
    <3> QED  BY <2>3, <2>4, <2>5, <2>6, <3>1
  <2>7. HeaderSettled(u)
    BY <2>3, <2>6 DEF HeaderSettled, HeaderCut, IsFirst
  <2>8. ASSUME NEW j \in 1 .. Len(u), CutAt(u, j)
        PROVE  j = k
    <3>1. CASE PlainHeaderCut(u, j) \/ NestedCut(u, j)
      BY <2>6, <3>1 DEF PlainHeaderCut, HeaderCut, NestedCut, IsFirst
    <3>2. CASE InlineCut(u, j)
      <4>1. IsFirst(u, "=", j) /\ SecretIn(u, 1, j - 1) /\ u[j] = "="
        BY <3>2 DEF InlineCut, IsFirst
      <4>2. j \in 1 .. k /\ j \in 1 .. Len(t)
        BY <2>2, <4>1, CutBegins DEF Seps
      <4>3. j < k
        BY <2>3, <2>4, <2>5, <4>1, <4>2
      <4>4. IsFirst(t, "=", j)
        BY <2>3, <4>1, <4>2, SameFirst
      <4>5. SecretIn(t, 1, j - 1)
        <5>1. 1 \in 1 .. k + 1 /\ j - 1 \in 0 .. k
          BY <2>3, <4>2
        <5> QED  BY <2>3, <4>1, <5>1, SecretBegins
      <4>6. \A p \in 1 .. j : ~PlainHeaderCut(t, p)
        BY <2>3, <2>4, <4>3 DEF PlainHeaderCut, HeaderCut, IsFirst
      <4>7. IsEnd(t, j)
        BY <4>2, <4>4, <4>5, <4>6 DEF Settled, CutAt, InlineCut
      <4>8. k = j + 1
        BY <2>3, <4>2, <4>3, <4>7 DEF IsEnd
      <4> QED  BY <2>4, <4>7, <4>8 DEF IsEnd, Stars
    <3> QED  BY <2>8, <3>1, <3>2 DEF CutAt
  <2>9. Settled(u)
    BY <2>3, <2>8 DEF Settled
  <2> QED  BY <2>1, <2>2, <2>3, <2>7, <2>9
<1> QED  BY <1>1, <1>2, MaskHeaderIs

(* A cut before the first sign of equality, or there, was made.            *)
LEMMA SettledEnds ==
  ASSUME NEW t \in Texts, Settled(t), NEW k \in 1 .. Len(t), SecretIn(t, 1, k - 1),
         \/ IsFirst(t, "=", k)
         \/ IsFirst(t, ":", k) /\ \A i \in 1 .. k : t[i] # "="
  PROVE  IsEnd(t, k)
<1>1. Len(t) \in Nat
  BY DEF Texts
<1>2. CASE IsFirst(t, ":", k) /\ \A i \in 1 .. k : t[i] # "="
  BY <1>2 DEF Settled, CutAt, PlainHeaderCut, HeaderCut
<1>3. CASE IsFirst(t, "=", k)
  <2>1. \A p \in 1 .. k : ~PlainHeaderCut(t, p)
    <3> SUFFICES ASSUME NEW p \in 1 .. k, PlainHeaderCut(t, p) PROVE FALSE
      OBVIOUS
    <3>1. t[k] = "=" /\ p # k /\ p \in 1 .. Len(t)
      BY <1>1, <1>3 DEF PlainHeaderCut, HeaderCut, IsFirst
    <3>2. IsEnd(t, p)
      BY <3>1 DEF Settled, CutAt
    <3>3. k = p + 1
      BY <1>1, <3>1, <3>2 DEF IsEnd
    <3> QED  BY <3>1, <3>2, <3>3 DEF IsEnd, Stars
  <2> QED  BY <1>3, <2>1 DEF Settled, CutAt, InlineCut
<1> QED  BY <1>2, <1>3

(* A secret is a word: replacing it leaves separators where they are and   *)
(* makes no name of a secret.                                              *)
Hidden(t) == [k \in DOMAIN t |-> IF t[k] \in Known THEN Stars ELSE t[k]]

LEMMA HiddenIs ==
  ASSUME NEW t \in Texts
  PROVE  /\ Hidden(t) \in Texts /\ Len(Hidden(t)) = Len(t) /\ DOMAIN t = 1 .. Len(t) /\ Len(t) \in Nat
         /\ \A k \in 1 .. Len(t) : Hidden(t)[k] = IF t[k] \in Known THEN Stars ELSE t[k]
         /\ \A k \in 1 .. Len(t) : Hidden(t)[k] \notin Known
         /\ \A k \in 1 .. Len(t), c \in Seps : Hidden(t)[k] = c <=> t[k] = c
<1>1. t \in Seq(Word) /\ DOMAIN t = 1 .. Len(t) /\ Len(t) \in Nat
  BY DEF Texts
<1>2. \A k \in 1 .. Len(t) : (IF t[k] \in Known THEN Stars ELSE t[k]) \in Word
  BY <1>1 DEF Word
<1>3. Hidden(t) \in Seq(Word) /\ Len(Hidden(t)) = Len(t)
  BY <1>1, <1>2, SeqDef DEF Hidden
<1>4. \A k \in 1 .. Len(t) : Hidden(t)[k] = IF t[k] \in Known THEN Stars ELSE t[k]
  BY <1>1 DEF Hidden
<1>5. Stars \notin Known /\ Stars \notin Seps /\ Known \cap Seps = {}
  <2>1. Stars \notin Seps
    BY DEF Stars, Seps
  <2> QED  BY <2>1, MaskAssumption
<1> QED  BY <1>1, <1>3, <1>4, <1>5 DEF Texts

LEMMA HiddenFirst ==
  ASSUME NEW t \in Texts, NEW k, NEW c \in Seps
  PROVE  IsFirst(Hidden(t), c, k) <=> IsFirst(t, c, k)
<1>1. PICK u : u = Hidden(t)
  OBVIOUS
<1>2. Len(u) = Len(t) /\ Len(t) \in Nat /\ \A i \in 1 .. Len(t) : u[i] = c <=> t[i] = c
  BY <1>1, HiddenIs
<1>3. IsFirst(u, c, k) <=> IsFirst(t, c, k)
  <2>1. CASE k \in 1 .. Len(t)
    <3>1. \A i \in 1 .. k - 1 : i \in 1 .. Len(t)
      BY <1>2, <2>1
    <3> QED  BY <1>2, <2>1, <3>1 DEF IsFirst
  <2>2. CASE k \notin 1 .. Len(t)
    BY <1>2, <2>2 DEF IsFirst
  <2> QED  BY <2>1, <2>2
<1> QED  BY <1>1, <1>3

LEMMA HiddenSecret ==
  ASSUME NEW t \in Texts, NEW a \in Nat \ {0}, NEW b \in 0 .. Len(t), SecretIn(Hidden(t), a, b)
  PROVE  SecretIn(t, a, b)
<1>1. PICK u : u = Hidden(t)
  OBVIOUS
<1>2. Len(t) \in Nat /\ \A i \in 1 .. Len(t) : u[i] = t[i] \/ u[i] = Stars
  BY <1>1, HiddenIs
<1>3. \A i \in 1 .. Len(t) : (u[i] = "token" => t[i] = "token") /\ (u[i] = "auth" => t[i] = "auth")
  BY <1>2 DEF Stars
<1>4. \A i \in a .. b : i \in 1 .. Len(t)
  BY <1>2
<1>5. a = b => a \in 1 .. Len(t)
  BY <1>2
<1> QED  BY <1>1, <1>3, <1>4, <1>5 DEF SecretIn

LEMMA HiddenEnd ==
  ASSUME NEW t \in Texts, NEW k \in 1 .. Len(t), IsEnd(t, k)
  PROVE  IsEnd(Hidden(t), k)
<1>1. k + 1 \in 1 .. Len(t)
  BY HiddenIs DEF IsEnd
<1> QED  BY <1>1, HiddenIs DEF IsEnd

LEMMA HiddenSettles ==
  ASSUME NEW t \in Texts, Settled(t)
  PROVE  Settled(Hidden(t))
<1>1. PICK u : u = Hidden(t)
  OBVIOUS
<1>2. Len(u) = Len(t) /\ Len(t) \in Nat /\ u \in Texts
  BY <1>1, HiddenIs
<1>3. \A i, c : c \in Seps => (IsFirst(u, c, i) <=> IsFirst(t, c, i))
  BY <1>1, HiddenFirst
<1>4. \A a \in Nat \ {0}, b \in 0 .. Len(t) : SecretIn(u, a, b) => SecretIn(t, a, b)
  BY <1>1, HiddenSecret
<1>5. \A i \in 1 .. Len(t) : IsEnd(t, i) => IsEnd(u, i)
  BY <1>1, HiddenEnd
<1>6. \A i \in 1 .. Len(t), c \in Seps : u[i] = c <=> t[i] = c
  BY <1>1, HiddenIs
<1>7. ":" \in Seps /\ "=" \in Seps
  BY DEF Seps
<1>8. ASSUME NEW k \in 1 .. Len(u), CutAt(u, k)
      PROVE  IsEnd(t, k)
  <2>1. k \in 1 .. Len(t) /\ k - 1 \in 0 .. Len(t)
    BY <1>2
  <2>2. CASE PlainHeaderCut(u, k)
    <3>1. IsFirst(t, ":", k) /\ SecretIn(t, 1, k - 1)
      BY <1>3, <1>4, <1>7, <2>1, <2>2 DEF PlainHeaderCut, HeaderCut
    <3>2. \A i \in 1 .. k : t[i] # "="
      BY <1>2, <1>6, <1>7, <2>1, <2>2 DEF PlainHeaderCut
    <3> QED  BY <2>1, <3>1, <3>2, SettledEnds
  <2>3. CASE InlineCut(u, k)
    <3>1. IsFirst(t, "=", k) /\ SecretIn(t, 1, k - 1)
      BY <1>3, <1>4, <1>7, <2>1, <2>3 DEF InlineCut
    <3> QED  BY <2>1, <3>1, SettledEnds
  <2>4. CASE NestedCut(u, k)
    <3>1. IsFirst(t, "=", 2) /\ SecretIn(t, 3, k - 1) /\ k \in 3 .. Len(t) /\ t[k] = ":"
      BY <1>2, <1>3, <1>4, <1>6, <1>7, <2>1, <2>4 DEF NestedCut
    <3>2. \A i \in 3 .. k - 1 : t[i] # ":"
      BY <1>2, <1>6, <1>7, <2>4 DEF NestedCut
    <3>3. t[1] = "h"
      <4>1. u[1] = "h" /\ 1 \in 1 .. Len(t)
        BY <1>2, <2>1, <2>4 DEF NestedCut
      <4> QED  BY <1>1, <4>1, HiddenIs DEF Stars
    <3> QED  BY <2>1, <3>1, <3>2, <3>3 DEF Settled, CutAt, NestedCut
  <2> QED  BY <1>8, <2>2, <2>3, <2>4 DEF CutAt
<1>9. Settled(u)
  BY <1>2, <1>5, <1>8 DEF Settled
<1> QED  BY <1>1, <1>9

LEMMA HiddenHeaderSettles ==
  ASSUME NEW t \in Texts, HeaderSettled(t)
  PROVE  HeaderSettled(Hidden(t))
<1>1. PICK u : u = Hidden(t)
  OBVIOUS
<1>2. Len(u) = Len(t) /\ Len(t) \in Nat
  BY <1>1, HiddenIs
<1>3. ASSUME NEW k \in 1 .. Len(u), HeaderCut(u, k)
      PROVE  IsEnd(u, k)
  <2>1. k \in 1 .. Len(t) /\ k - 1 \in 0 .. Len(t)
    BY <1>2
  <2>2. IsFirst(t, ":", k)
    BY <1>1, <1>3, HiddenFirst DEF HeaderCut, Seps
  <2>3. SecretIn(t, 1, k - 1)
    BY <1>1, <1>3, <2>1, HiddenSecret DEF HeaderCut
  <2>4. IsEnd(t, k)
    BY <2>1, <2>2, <2>3 DEF HeaderSettled, HeaderCut
  <2> QED  BY <1>1, <2>1, <2>4, HiddenEnd
<1>4. HeaderSettled(u)
  BY <1>3 DEF HeaderSettled
<1> QED  BY <1>1, <1>4

-----------------------------------------------------------------------------
(* One argument after the first pass.                                      *)
Arg == [dash : BOOLEAN, t : Texts]
HasStars(t) == \E k \in 1 .. Len(t) : t[k] = Stars

(* A header or a secret follows.                                           *)
AfterHeader(as, i) == i > 1 /\ IsOption(as[i - 1]) /\ IsHeaderKey(as[i - 1].t)
AfterSecret(as, i) == i > 1 /\ IsOption(as[i - 1]) /\ IsSecretKey(as[i - 1].t)

LEMMA CutHasStars ==
  ASSUME NEW t \in Texts, NEW k \in 1 .. Len(t)
  PROVE  HasStars(Cut(t, k))
<1>1. PICK u : u = Cut(t, k)
  OBVIOUS
<1>2. IsEnd(u, k) /\ k + 1 \in 1 .. Len(u)
  BY <1>1, CutIs DEF IsEnd, Texts
<1> QED  BY <1>1, <1>2 DEF HasStars, IsEnd

LEMMA HeaderKeyIsNoSecret ==
  ASSUME NEW t, IsHeaderKey(t)
  PROVE  ~IsSecretKey(t)
<1>1. t = <<"h">> /\ ToSet(t) = {"h"}
  BY DEF IsHeaderKey, ToSet
<1> QED  BY <1>1 DEF IsSecretKey

LEMMA ByStars ==
  /\ <<Stars>> \in Texts /\ Len(<<Stars>>) = 1 /\ Settled(<<Stars>>) /\ HasStars(<<Stars>>)
  /\ Hidden(<<Stars>>) = <<Stars>>
<1>1. PICK s : s = <<Stars>>
  OBVIOUS
<1>2. s \in Texts /\ Len(s) = 1 /\ s[1] = Stars
  BY <1>1 DEF Texts, Word
<1>3. HasStars(s)
  BY <1>2 DEF HasStars
<1>4. Settled(s)
  BY <1>2 DEF Settled, CutAt, PlainHeaderCut, HeaderCut, InlineCut, NestedCut, IsFirst, Stars
<1>5. PICK u : u = Hidden(s)
  OBVIOUS
<1>6. u \in Texts /\ Len(u) = 1 /\ u[1] = s[1]
  BY <1>2, <1>5, HiddenIs
<1>7. u = s
  <2>1. u \in Seq(Word) /\ s \in Seq(Word) /\ Len(u) = Len(s) /\ \A i \in 1 .. Len(u) : u[i] = s[i]
    BY <1>2, <1>6 DEF Texts
  <2> QED  BY <2>1, SeqEqual
<1> QED  BY <1>1, <1>2, <1>3, <1>4, <1>5, <1>7

LEMMA ElementKept ==
  ASSUME NEW t \in Texts
  PROVE  MaskElement(t) = t \/ HasStars(MaskElement(t))
BY MaskElementIs, CutHasStars

LEMMA HeaderKept ==
  ASSUME NEW t \in Texts
  PROVE  MaskHeader(t) = t \/ HasStars(MaskHeader(t))
BY MaskHeaderIs, CutHasStars

LEMMA KeyIs ==
  ASSUME NEW as \in Seq(Arg), NEW i \in DOMAIN as
  PROVE  LET m == ByKey(as)[i]
         IN /\ m \in Arg /\ Settled(m.t)
            /\ AfterHeader(as, i) => HeaderSettled(m.t)
            /\ AfterSecret(as, i) => m = [dash |-> FALSE, t |-> <<Stars>>]
            /\ m = as[i] \/ HasStars(m.t)
<1> DEFINE one == [as[i] EXCEPT !.t = MaskElement(@)]
<1>1. PICK a : a = as[i]
  OBVIOUS
<1>2. a \in Arg
  BY <1>1, ElementOfSeq, LenProperties
<1>3. a.dash \in BOOLEAN /\ a.t \in Texts /\ a = [dash |-> a.dash, t |-> a.t]
  BY <1>2 DEF Arg
<1>4. PICK e : e = MaskElement(a.t)
  OBVIOUS
<1>5. e \in Texts /\ Settled(e) /\ (e = a.t \/ HasStars(e))
  BY <1>3, <1>4, ElementSettles, ElementKept
<1>6. one = [dash |-> a.dash, t |-> e]
  <2>1. [a EXCEPT !.t = e] = [dash |-> a.dash, t |-> e]
    BY <1>2 DEF Arg
  <2> QED  BY <1>1, <1>4, <2>1
<1>7. PICK m : m = ByKey(as)[i]
  OBVIOUS
<1>8. m = IF i > 1 /\ IsOption(as[i - 1])
          THEN IF IsHeaderKey(as[i - 1].t) THEN [one EXCEPT !.t = MaskHeader(@)]
               ELSE IF IsSecretKey(as[i - 1].t) THEN [dash |-> FALSE, t |-> <<Stars>>]
               ELSE one
          ELSE one
  BY <1>7 DEF ByKey, Reread
<1> HIDE DEF one
<1> SUFFICES /\ m \in Arg /\ Settled(m.t)
             /\ AfterHeader(as, i) => HeaderSettled(m.t)
             /\ AfterSecret(as, i) => m = [dash |-> FALSE, t |-> <<Stars>>]
             /\ m = a \/ HasStars(m.t)
  BY <1>1, <1>7
<1>9. CASE AfterHeader(as, i)
  <2>1. PICK h : h = MaskHeader(e)
    OBVIOUS
  <2>2. h \in Texts /\ Settled(h) /\ HeaderSettled(h) /\ (h = e \/ HasStars(h))
    BY <1>5, <2>1, HeaderSettles, HeaderKept
  <2>3. m = [dash |-> a.dash, t |-> h]
    <3>1. m = [one EXCEPT !.t = MaskHeader(@)]
      BY <1>8, <1>9 DEF AfterHeader
    <3> QED  BY <1>6, <2>1, <3>1
  <2>4. m \in Arg /\ m.t = h
    BY <1>3, <2>2, <2>3 DEF Arg
  <2>5. ~AfterSecret(as, i)
    BY <1>9, HeaderKeyIsNoSecret DEF AfterHeader, AfterSecret
  <2>6. m = a \/ HasStars(h)
    BY <1>3, <1>5, <2>2, <2>3
  <2> QED  BY <2>2, <2>4, <2>5, <2>6
<1>10. CASE AfterSecret(as, i)
  <2>1. ~AfterHeader(as, i)
    BY <1>10, HeaderKeyIsNoSecret DEF AfterHeader, AfterSecret
  <2>2. m = [dash |-> FALSE, t |-> <<Stars>>]
    BY <1>8, <1>10, <2>1 DEF AfterHeader, AfterSecret
  <2>3. m \in Arg /\ m.t = <<Stars>>
    BY <2>2, ByStars DEF Arg
  <2> QED  BY <2>1, <2>2, <2>3, ByStars
<1>11. CASE ~AfterHeader(as, i) /\ ~AfterSecret(as, i)
  <2>1. m = [dash |-> a.dash, t |-> e]
    BY <1>6, <1>8, <1>11 DEF AfterHeader, AfterSecret
  <2>2. m.t = e /\ m \in Arg /\ (e = a.t => m = a)
    BY <1>3, <1>5, <2>1 DEF Arg
  <2> QED  BY <1>5, <1>11, <2>2
<1> QED  BY <1>9, <1>10, <1>11

(* What the record keeps of an argument: words that are secrets are hidden *)
(* in what the first pass left of it.                                      *)
LEMMA ArgsIs ==
  ASSUME NEW as \in Seq(Arg)
  PROVE  /\ Args(as) \in Seq(Arg) /\ DOMAIN Args(as) = DOMAIN as
         /\ \A i \in DOMAIN as :
              Args(as)[i] = [dash |-> ByKey(as)[i].dash, t |-> Hidden(ByKey(as)[i].t)]
<1>1. DOMAIN ByKey(as) = DOMAIN as
  BY DEF ByKey
<1>2. PICK b : b = ByKey(as)
  OBVIOUS
<1>3. \A i \in DOMAIN as : b[i] \in Arg
  BY <1>2, KeyIs
<1>4. Args(as) = [i \in DOMAIN as |-> [b[i] EXCEPT !.t = Hidden(@)]]
  BY <1>1, <1>2 DEF Args, ByValue, Hidden
<1>5. ASSUME NEW i \in DOMAIN as
      PROVE  /\ [b[i] EXCEPT !.t = Hidden(@)] = [dash |-> b[i].dash, t |-> Hidden(b[i].t)]
             /\ [dash |-> b[i].dash, t |-> Hidden(b[i].t)] \in Arg
  <2>1. PICK m \in Arg : m = b[i]
    BY <1>3
  <2>2. m.dash \in BOOLEAN /\ m.t \in Texts /\ m = [dash |-> m.dash, t |-> m.t]
    BY DEF Arg
  <2>3. PICK h : h = Hidden(m.t)
    OBVIOUS
  <2>4. h \in Texts
    BY <2>2, <2>3, HiddenIs
  <2>5. [m EXCEPT !.t = h] = [dash |-> m.dash, t |-> h] /\ [dash |-> m.dash, t |-> h] \in Arg
    BY <2>2, <2>4 DEF Arg
  <2> QED  BY <2>1, <2>3, <2>5
<1>6. DOMAIN as = 1 .. Len(as) /\ Len(as) \in Nat
  BY LenProperties
<1>7. PICK o : o = Args(as)
  OBVIOUS
<1>8. o = [i \in DOMAIN as |-> [dash |-> b[i].dash, t |-> Hidden(b[i].t)]]
  BY <1>4, <1>5, <1>7
<1>9. o \in [1 .. Len(as) -> Arg]
  <2>1. \A i \in DOMAIN as : [dash |-> b[i].dash, t |-> Hidden(b[i].t)] \in Arg
    BY <1>5
  <2> QED  BY <1>6, <1>8, <2>1
<1>10. o \in Seq(Arg)
  BY <1>6, <1>9, SeqDef
<1>11. DOMAIN o = DOMAIN as
       /\ \A i \in DOMAIN as : o[i] = [dash |-> b[i].dash, t |-> Hidden(b[i].t)]
  BY <1>8
<1> QED  BY <1>2, <1>7, <1>10, <1>11

LEMMA SameArgs ==
  ASSUME NEW as \in Seq(Arg), NEW bs \in Seq(Arg), DOMAIN as = DOMAIN bs,
         \A i \in DOMAIN as : as[i] = bs[i]
  PROVE  as = bs
<1>1. /\ DOMAIN as = 1 .. Len(as) /\ Len(as) \in Nat
      /\ DOMAIN bs = 1 .. Len(bs) /\ Len(bs) \in Nat
  BY LenProperties
<1>2. ASSUME NEW m \in Nat, NEW n \in Nat, 1 .. m = 1 .. n
      PROVE  m = n
  <2>1. ~(m < n)
    <3>1. m < n => n \in 1 .. n /\ n \notin 1 .. m
      OBVIOUS
    <3> QED  BY <1>2, <3>1
  <2>2. ~(n < m)
    <3>1. n < m => m \in 1 .. m /\ m \notin 1 .. n
      OBVIOUS
    <3> QED  BY <1>2, <3>1
  <2> QED  BY <2>1, <2>2
<1>3. Len(as) = Len(bs)
  BY <1>1, <1>2
<1> QED  BY <1>1, <1>3, SeqEqual

LEMMA HiddenSame ==
  ASSUME NEW t \in Texts, \A k \in 1 .. Len(t) : t[k] \notin Known
  PROVE  Hidden(t) = t
<1>1. PICK u : u = Hidden(t)
  OBVIOUS
<1>2. u \in Texts /\ Len(u) = Len(t) /\ \A k \in 1 .. Len(t) : u[k] = t[k]
  BY <1>1, HiddenIs
<1>3. u \in Seq(Word) /\ t \in Seq(Word)
  BY <1>2 DEF Texts
<1> QED  BY <1>1, <1>2, <1>3, SeqEqual

(* An argument that is an option's name when it was masked was one before, *)
(* and the same one.                                                       *)
LEMMA OptionKept ==
  ASSUME NEW as \in Seq(Arg), NEW i \in DOMAIN as, IsOption(Args(as)[i])
  PROVE  Args(as)[i] = as[i]
<1>1. PICK m : m = ByKey(as)[i]
  OBVIOUS
<1>2. m \in Arg /\ (m = as[i] \/ HasStars(m.t))
  BY <1>1, KeyIs
<1>3. m.t \in Texts /\ m = [dash |-> m.dash, t |-> m.t]
  BY <1>2 DEF Arg
<1>4. PICK u : u = Hidden(m.t)
  OBVIOUS
<1>5. Args(as)[i] = [dash |-> m.dash, t |-> u]
  BY <1>1, <1>4, ArgsIs
<1>6. ToSet(u) \cap (Seps \cup {Stars}) = {}
  BY <1>5 DEF IsOption
<1>7. /\ DOMAIN u = 1 .. Len(m.t) /\ Len(m.t) \in Nat
      /\ \A k \in 1 .. Len(m.t) : u[k] = IF m.t[k] \in Known THEN Stars ELSE m.t[k]
  BY <1>3, <1>4, HiddenIs DEF Hidden
<1>8. \A k \in 1 .. Len(m.t) : u[k] # Stars
  BY <1>6, <1>7 DEF ToSet
<1>9. \A k \in 1 .. Len(m.t) : m.t[k] \notin Known /\ m.t[k] # Stars
  BY <1>7, <1>8
<1>10. u = m.t
  BY <1>3, <1>4, <1>9, HiddenSame
<1>11. ~HasStars(m.t)
  BY <1>9 DEF HasStars
<1> QED  BY <1>2, <1>3, <1>5, <1>10, <1>11

(* Masking what is masked changes nothing.                                 *)
LEMMA MaskedAgain ==
  ASSUME NEW as \in Seq(Arg)
  PROVE  Args(Args(as)) = Args(as)
<1>1. PICK o : o = Args(as)
  OBVIOUS
<1>2. o \in Seq(Arg) /\ DOMAIN o = DOMAIN as
  BY <1>1, ArgsIs
<1>3. PICK p : p = Args(o)
  OBVIOUS
<1>4. p \in Seq(Arg) /\ DOMAIN p = DOMAIN as
  BY <1>2, <1>3, ArgsIs
<1>5. ASSUME NEW i \in DOMAIN as
      PROVE  p[i] = o[i]
  <2>1. PICK m : m = ByKey(as)[i]
    OBVIOUS
  <2>2. /\ m \in Arg /\ Settled(m.t)
        /\ AfterHeader(as, i) => HeaderSettled(m.t)
        /\ AfterSecret(as, i) => m = [dash |-> FALSE, t |-> <<Stars>>]
    BY <2>1, KeyIs
  <2>3. m.t \in Texts /\ m.dash \in BOOLEAN
    BY <2>2 DEF Arg
  <2>4. PICK u : u = Hidden(m.t)
    OBVIOUS
  <2>5. PICK a : a = [dash |-> m.dash, t |-> u]
    OBVIOUS
  <2>6. a.dash = m.dash /\ a.t = u /\ o[i] = a
    BY <1>1, <2>1, <2>4, <2>5, ArgsIs
  <2>7. /\ u \in Texts /\ Settled(u) /\ (AfterHeader(as, i) => HeaderSettled(u))
        /\ \A k \in 1 .. Len(u) : u[k] \notin Known
    BY <2>2, <2>3, <2>4, HiddenIs, HiddenSettles, HiddenHeaderSettles
  <2>8. MaskElement(u) = u
    BY <2>7, SettledStays
  <2>9. [a EXCEPT !.t = MaskElement(@)] = a
    BY <2>5, <2>8
  <2>10. i > 1 => i - 1 \in DOMAIN as
    <3>1. PICK n \in Nat : DOMAIN as = 1 .. n
      BY LenProperties
    <3>2. i \in 1 .. n
      BY <3>1
    <3>3. i > 1 => i - 1 \in 1 .. n
      BY <3>2
    <3> QED  BY <3>1, <3>3
  <2>11. i > 1 /\ IsOption(o[i - 1]) => as[i - 1] = o[i - 1]
    BY <1>1, <2>10, OptionKept
  <2>12. PICK q : q = ByKey(o)[i]
    OBVIOUS
  <2>13. q = IF i > 1 /\ IsOption(o[i - 1])
             THEN IF IsHeaderKey(o[i - 1].t) THEN [a EXCEPT !.t = MaskHeader(@)]
                  ELSE IF IsSecretKey(o[i - 1].t) THEN [dash |-> FALSE, t |-> <<Stars>>]
                  ELSE a
             ELSE a
    <3>1. PICK e : e = [o[i] EXCEPT !.t = MaskElement(@)]
      OBVIOUS
    <3>2. e = a
      BY <2>6, <2>9, <3>1
    <3>3. i \in DOMAIN o
      BY <1>2
    <3>4. q = IF i > 1 /\ IsOption(o[i - 1])
              THEN IF IsHeaderKey(o[i - 1].t) THEN [e EXCEPT !.t = MaskHeader(@)]
                   ELSE IF IsSecretKey(o[i - 1].t) THEN [dash |-> FALSE, t |-> <<Stars>>]
                   ELSE e
              ELSE e
      BY <2>12, <3>1, <3>3 DEF ByKey, Reread
    <3> QED  BY ONLY <3>2, <3>4
  <2>14. p[i] = [dash |-> q.dash, t |-> Hidden(q.t)]
    BY <1>2, <1>3, <2>12, ArgsIs
  <2>15. q = a => p[i] = o[i]
    <3>1. Hidden(u) = u
      BY <2>7, HiddenSame
    <3> QED  BY <2>5, <2>6, <2>14, <3>1
  <2>16. CASE AfterHeader(o, i)
    <3>1. AfterHeader(as, i)
      BY <2>11, <2>16 DEF AfterHeader
    <3>2. MaskHeader(u) = u
      BY <2>7, <3>1, HeaderSettledStays
    <3>3. q = [a EXCEPT !.t = MaskHeader(@)]
      BY <2>13, <2>16 DEF AfterHeader
    <3>4. q = a
      BY <2>5, <3>2, <3>3
    <3> QED  BY <2>15, <3>4
  <2>17. CASE AfterSecret(o, i)
    <3>1. AfterSecret(as, i)
      BY <2>11, <2>17 DEF AfterSecret
    <3>2. m.dash = FALSE /\ u = <<Stars>>
      BY <2>2, <2>4, <3>1, ByStars
    <3>3. q = [dash |-> FALSE, t |-> <<Stars>>]
      BY <2>13, <2>17, HeaderKeyIsNoSecret DEF AfterSecret
    <3>4. q = a
      BY <2>5, <3>2, <3>3
    <3> QED  BY <2>15, <3>4
  <2>18. CASE ~AfterHeader(o, i) /\ ~AfterSecret(o, i)
    <3>1. q = a
      BY <2>13, <2>18 DEF AfterHeader, AfterSecret
    <3> QED  BY <2>15, <3>1
  <2> QED  BY <2>16, <2>17, <2>18
<1> QED  BY <1>1, <1>2, <1>3, <1>4, <1>5, SameArgs

(* What is after the name of a secret is the stars.                        *)
LEMMA NothingLeaks ==
  ASSUME NEW a \in Arg, Settled(a.t)
  PROVE  ~Leaks(a)
<1>1. PICK t : t = a.t
  OBVIOUS
<1>2. t \in Texts /\ Settled(t)
  BY <1>1 DEF Arg
<1>3. Len(t) \in Nat /\ t \in Seq(Word)
  BY <1>2 DEF Texts
<1>4. ASSUME NEW k \in Decides(t) \ {0}, IsSecretKey(SubSeq(t, 1, k - 1))
      PROVE  SubSeq(t, k + 1, Len(t)) = <<Stars>>
  <2>1. \/ k = At(t, "=")
        \/ k = At(t, ":") /\ (At(t, "=") = 0 \/ At(t, ":") < At(t, "="))
    BY <1>4 DEF Decides
  <2>2. \/ IsFirst(t, "=", k)
        \/ IsFirst(t, ":", k) /\ \A i \in 1 .. k : t[i] # "="
    <3>1. CASE k = At(t, "=")
      BY <1>2, <3>1, AtIsFirst
    <3>2. CASE k = At(t, ":") /\ (At(t, "=") = 0 \/ At(t, ":") < At(t, "="))
      <4>1. IsFirst(t, ":", k) /\ k \in 1 .. Len(t)
        BY <1>2, <3>2, AtIsFirst DEF IsFirst
      <4>2. CASE At(t, "=") = 0
        BY <1>2, <1>3, <4>1, <4>2, AtIsFirst
      <4>3. CASE At(t, "=") # 0
        <5>1. PICK q : q = At(t, "=")
          OBVIOUS
        <5>2. IsFirst(t, "=", q) /\ k < q
          BY <1>2, <3>2, <4>3, <5>1, AtIsFirst
        <5> QED  BY <1>3, <4>1, <5>2 DEF IsFirst
      <4> QED  BY <4>2, <4>3
    <3> QED  BY <2>1, <3>1, <3>2
  <2>3. k \in 1 .. Len(t)
    BY <2>2 DEF IsFirst
  <2>4. SecretIn(t, 1, k - 1)
    <3>1. 1 \in 1 .. Len(t) + 1 /\ k - 1 \in 0 .. Len(t)
      BY <1>3, <2>3
    <3>2. IsSecretKey(SubSeq(t, 1, k - 1)) <=> SecretIn(t, 1, k - 1)
      BY <1>2, <3>1, SecretSub
    <3> QED  BY <1>4, <3>2
  <2>5. Len(t) = k + 1 /\ t[k + 1] = Stars
    BY <1>2, <2>2, <2>3, <2>4, SettledEnds DEF IsEnd
  <2>6. PICK n : n = k + 1
    OBVIOUS
  <2>7. n \in 1 .. Len(t) /\ n = Len(t) /\ t[n] = Stars
    BY <1>3, <2>3, <2>5, <2>6
  <2>8. SubSeq(t, n, n) = <<t[n]>>
    <3>1. PICK s : s = SubSeq(t, n, n)
      OBVIOUS
    <3>2. s \in Seq(Word) /\ Len(s) = 1 /\ s[1] = t[n]
      <4>1. n \in 1 .. Len(t) + 1 /\ n \in n - 1 .. Len(t) /\ n <= n /\ n - n + 1 = 1 /\ n + 1 - 1 = n
        BY <1>3, <2>7
      <4>2. /\ s \in Seq(Word) /\ Len(s) = (IF n <= n THEN n - n + 1 ELSE 0)
            /\ \A i \in 1 .. n - n + 1 : s[i] = t[n + i - 1]
        BY <1>3, <3>1, <4>1, SubSeqProperties
      <4>3. Len(s) = 1
        BY <4>1, <4>2
      <4>4. 1 \in 1 .. n - n + 1
        BY <4>1
      <4> QED  BY <4>1, <4>2, <4>3, <4>4
    <3>3. s = <<s[1]>>
      BY <3>2
    <3> QED  BY <3>1, <3>2, <3>3
  <2> QED  BY <2>6, <2>7, <2>8
<1> QED  BY <1>1, <1>4 DEF Leaks

(* What names no secret is cut nowhere.                                    *)
LEMMA NothingSecret ==
  ASSUME NEW t \in Texts, ToSet(t) \cap (Known \cup {"token", "auth"}) = {}
  PROVE  MaskElement(t) = t /\ MaskHeader(t) = t /\ Hidden(t) = t /\ ~IsSecretKey(t)
<1>1. DOMAIN t = 1 .. Len(t) /\ Len(t) \in Nat
  BY LenProperties DEF Texts
<1>2. \A k \in 1 .. Len(t) : t[k] \notin Known /\ t[k] # "token" /\ t[k] # "auth"
  BY <1>1 DEF ToSet
<1>3. ASSUME NEW a \in Nat \ {0}, NEW b \in 0 .. Len(t)
      PROVE  ~SecretIn(t, a, b)
  <2>1. \A i \in a .. b : i \in 1 .. Len(t)
    BY <1>1
  <2>2. a = b => a \in 1 .. Len(t)
    BY <1>1
  <2> QED  BY <1>2, <2>1, <2>2 DEF SecretIn
<1>4. ASSUME NEW k \in 1 .. Len(t)
      PROVE  ~CutAt(t, k) /\ ~HeaderCut(t, k)
  <2>1. k - 1 \in 0 .. Len(t)
    BY <1>1
  <2>2. ~SecretIn(t, 1, k - 1) /\ ~SecretIn(t, 3, k - 1)
    BY <1>3, <2>1
  <2> QED  BY <2>2 DEF CutAt, PlainHeaderCut, HeaderCut, InlineCut, NestedCut
<1>5. MaskElement(t) = t /\ MaskHeader(t) = t
  BY <1>4, MaskElementIs, MaskHeaderIs
<1>6. ~IsSecretKey(t)
  <2>1. t # <<"token">>
    <3>1. t = <<"token">> => Len(t) = 1 /\ t[1] = "token"
      OBVIOUS
    <3> QED  BY <1>2, <3>1
  <2> QED  BY <2>1 DEF IsSecretKey
<1> QED  BY <1>2, <1>5, <1>6, HiddenSame

LEMMA SecretlessStays ==
  ASSUME NEW as \in Seq(Arg), \A i \in DOMAIN as : Secretless(as[i])
  PROVE  Args(as) = as
<1>1. PICK o : o = Args(as)
  OBVIOUS
<1>2. o \in Seq(Arg) /\ DOMAIN o = DOMAIN as
  BY <1>1, ArgsIs
<1>3. ASSUME NEW i \in DOMAIN as
      PROVE  o[i] = as[i]
  <2>1. PICK a : a = as[i]
    OBVIOUS
  <2>2. a \in Arg
    BY <2>1, ElementOfSeq, LenProperties
  <2>3. a.t \in Texts /\ a = [dash |-> a.dash, t |-> a.t]
    BY <2>2 DEF Arg
  <2>4. MaskElement(a.t) = a.t /\ MaskHeader(a.t) = a.t /\ Hidden(a.t) = a.t
    <3>1. ToSet(a.t) \cap (Known \cup {"token", "auth"}) = {}
      BY <2>1 DEF Secretless
    <3> QED  BY <2>3, <3>1, NothingSecret
  <2>5. ~AfterSecret(as, i)
    <3>1. PICK n \in Nat : DOMAIN as = 1 .. n
      BY LenProperties
    <3>2. i \in 1 .. n
      BY <3>1
    <3>3. i > 1 => i - 1 \in 1 .. n
      BY <3>2
    <3>4. ASSUME i > 1
          PROVE  ~IsSecretKey(as[i - 1].t)
      <4>1. PICK b : b = as[i - 1]
        OBVIOUS
      <4>2. b \in Arg
        BY <3>1, <3>3, <3>4, <4>1, ElementOfSeq, LenProperties
      <4>3. Secretless(b) /\ b.t \in Texts
        BY <3>1, <3>3, <3>4, <4>1, <4>2 DEF Arg
      <4> QED  BY <4>1, <4>3, NothingSecret DEF Secretless
    <3> QED  BY <3>4 DEF AfterSecret
  <2>6. PICK q : q = ByKey(as)[i]
    OBVIOUS
  <2>7. [a EXCEPT !.t = MaskElement(@)] = a /\ [a EXCEPT !.t = MaskHeader(@)] = a
    BY <2>3, <2>4
  <2>8. q = a
    BY <2>1, <2>5, <2>6, <2>7 DEF ByKey, Reread, AfterSecret
  <2>9. o[i] = [dash |-> q.dash, t |-> Hidden(q.t)]
    BY <1>1, <2>6, ArgsIs
  <2> QED  BY <2>1, <2>3, <2>4, <2>8, <2>9
<1> QED  BY <1>1, <1>2, <1>3, SameArgs

-----------------------------------------------------------------------------
(* The arguments are texts, masked or not.                                 *)
ArgsInv == args \in Seq(Arg)

LEMMA MaskOfArgs == ArgsInv => MaskedForGood
<1> SUFFICES ASSUME NEW as, as = args, as \in Seq(Arg)
             PROVE  MaskedForGood
  BY DEF ArgsInv
<1>1. PICK o : o = Args(as)
  OBVIOUS
<1>2. o \in Seq(Arg) /\ DOMAIN o = DOMAIN as /\ Args(o) = o
  BY <1>1, ArgsIs, MaskedAgain
<1>3. ASSUME NEW i \in DOMAIN as
      PROVE  /\ ~Leaks(o[i]) /\ ToSet(o[i].t) \cap Known = {}
             /\ AfterSecret(as, i) => o[i].t = <<Stars>>
  <2>1. PICK m : m = ByKey(as)[i]
    OBVIOUS
  <2>2. m \in Arg /\ Settled(m.t) /\ (AfterSecret(as, i) => m = [dash |-> FALSE, t |-> <<Stars>>])
    BY <2>1, KeyIs
  <2>3. m.t \in Texts
    BY <2>2 DEF Arg
  <2>4. PICK u : u = Hidden(m.t)
    OBVIOUS
  <2>5. /\ u \in Texts /\ Settled(u) /\ \A k \in 1 .. Len(u) : u[k] \notin Known
        /\ DOMAIN u = 1 .. Len(u)
    BY <2>2, <2>3, <2>4, HiddenIs, HiddenSettles
  <2>6. o[i] \in Arg /\ o[i].t = u
    <3>1. PICK c : c = o[i]
      OBVIOUS
    <3>2. c = [dash |-> m.dash, t |-> u]
      BY <1>1, <2>1, <2>4, <3>1, ArgsIs
    <3>3. c \in Arg
      BY <1>2, <3>1, ElementOfSeq, LenProperties
    <3> QED  BY <3>1, <3>2, <3>3
  <2>7. ~Leaks(o[i])
    BY <2>5, <2>6, NothingLeaks
  <2>8. ToSet(u) \cap Known = {}
    BY <2>5 DEF ToSet
  <2>9. AfterSecret(as, i) => u = <<Stars>>
    BY <2>2, <2>4, ByStars
  <2> QED  BY <2>6, <2>7, <2>8, <2>9
<1>4. (\A i \in DOMAIN as : Secretless(as[i])) => o = as
  BY <1>1, SecretlessStays
<1>5. \A i \in DOMAIN as \ {1} : IsOption(as[i - 1]) /\ IsSecretKey(as[i - 1].t) => o[i].t = <<Stars>>
  <2>1. PICK n \in Nat : DOMAIN as = 1 .. n
    BY LenProperties
  <2>2. \A i \in (1 .. n) \ {1} : i > 1
    OBVIOUS
  <2> QED  BY <1>3, <2>1, <2>2 DEF AfterSecret
<1> QED  BY <1>1, <1>2, <1>3, <1>4, <1>5 DEF MaskedForGood

LEMMA MaskArgs == MaskSpec => []ArgsInv
<1>1. MaskInit => ArgsInv
  <2> SUFFICES ASSUME NEW as \in Inputs
               PROVE  as \in Seq(Arg)
    BY DEF MaskInit, ArgsInv
  <2>1. as \in Seq([dash : BOOLEAN, t : Seq(STRING)])
    BY MaskAssumption
  <2>2. [dash : BOOLEAN, t : Seq(STRING)] \subseteq Arg
    <3>1. Seq(STRING) \subseteq Texts
      BY DEF Texts, Word
    <3> QED  BY <3>1 DEF Arg
  <2>3. PICK S : S = [dash : BOOLEAN, t : Seq(STRING)]
    OBVIOUS
  <2>4. as \in Seq(S)
    BY <2>1, <2>3
  <2>5. S \subseteq Arg
    BY <2>2, <2>3
  <2> QED  BY <2>4, <2>5, Zenon, SeqMonotonic
<1>2. ArgsInv /\ [MaskNext]_maskVars => ArgsInv'
  <2> SUFFICES ASSUME ArgsInv, [MaskNext]_maskVars
               PROVE  ArgsInv'
    OBVIOUS
  <2>1. CASE MaskNext
    BY <2>1, ArgsIs DEF MaskNext, ArgsInv
  <2>2. CASE UNCHANGED maskVars
    BY <2>2 DEF ArgsInv, maskVars
  <2> QED  BY <2>1, <2>2
<1> QED  BY <1>1, <1>2, PTL DEF MaskSpec

(* exec/mask, for all arguments: what follows the name of a secret is      *)
(* hidden, and so is every secret the tool holds; masking what is masked   *)
(* changes nothing; and what has no secret in it stays readable.           *)
THEOREM MaskingIsForGood == MaskSpec => []MaskedForGood
BY MaskArgs, MaskOfArgs, PTL
=============================================================================
