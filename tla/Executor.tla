------------------------------ MODULE Executor ------------------------------
(***************************************************************************)
(* External commands (exec/command) and the audit log they are written to  *)
(* (audit, the sink of cmd/gsr-helper): every command is a goroutine with  *)
(* a process, its child and a context; the log is one file that logrotate  *)
(* renames, with a writer that opens it anew.                              *)
(***************************************************************************)
EXTENDS Integers, FiniteSets, Sequences

CONSTANTS
  Cmds,           (* calls of Run.                                         *)
  MaxRotations    (* bound on logrotate.                                   *)

Nobody == "nobody"
Foreign == -1

ExecutorAssumption == Nobody \notin Cmds /\ MaxRotations \in Nat

VARIABLES
  runs,           (* the calls.                                            *)
  files,          (* files that were the log: their records, and whether   *)
                  (* logrotate has put them into an archive.               *)
  path,           (* the one that has the name; 0: none, Foreign: another. *)
  fd,             (* the one the writer holds.                             *)
  writing,        (* who holds the mutex of the logger, or Nobody.         *)
  closed,         (* the logger is closed.                                 *)
  sink,           (* auditSink: failures, by call.                         *)
  program         (* "up", "closing" or "ended".                           *)

logVars == <<files, path, fd, writing, closed, sink, program>>
vars == <<runs, logVars>>

Idle == [pc |-> "idle", silent |-> FALSE, leader |-> "none", child |-> "none",
         ctx |-> "live", cut |-> FALSE, res |-> "none"]

NewFile == [recs |-> <<>>, archived |-> FALSE]

(* audit.Open made the file, or found it.                                  *)
Init ==
  /\ runs = [c \in Cmds |-> Idle]
  /\ files = <<NewFile>> /\ path = 1 /\ fd = 1
  /\ writing = Nobody /\ closed = FALSE /\ sink = <<>> /\ program = "up"

Set(c, r) == runs' = [runs EXCEPT ![c] = r]
Quietly == UNCHANGED logVars
Up == program # "ended"

-----------------------------------------------------------------------------
(* A command (Command.execute). *)

(* Names and environment that do not pass, or a program that cannot be     *)
(* started, are results too; Options.SkipAudit is the caller's.            *)
Begin(c) ==
  /\ Up /\ program = "up" /\ runs[c].pc = "idle"
  /\ \E silent \in BOOLEAN :
       \/ Set(c, [Idle EXCEPT !.pc = "ended", !.silent = silent, !.res = "start"])
       \/ Set(c, [Idle EXCEPT !.pc = "up", !.silent = silent, !.leader = "up"])
  /\ Quietly

(* A child in the process group, or in one of its own (setsid); both hold  *)
(* the pipes.                                                              *)
Forks(c) ==
  /\ runs[c].leader = "up" /\ runs[c].child = "none"
  /\ \E k \in {"in", "out"} : Set(c, [runs[c] EXCEPT !.child = k])
  /\ Quietly

LeaderExits(c) ==
  /\ runs[c].leader = "up"
  /\ \E how \in {"ok", "bad"} : Set(c, [runs[c] EXCEPT !.leader = how])
  /\ Quietly

(* Nobody looks at a child after the return.                               *)
ChildExits(c) ==
  /\ runs[c].child # "none" /\ runs[c].pc \in {"up", "reaped"}
  /\ Set(c, [runs[c] EXCEPT !.child = "none"])
  /\ Quietly

(* The limit of 30 s or an earlier one of the caller, or a cancellation.   *)
ContextEnds(c) ==
  /\ Up /\ runs[c].pc \in {"up", "reaped"} /\ runs[c].ctx = "live"
  /\ Set(c, [runs[c] EXCEPT !.ctx = "over"])
  /\ Quietly

KilledLeader(r) == [r EXCEPT !.leader = IF @ = "up" THEN "killed" ELSE @]
(* killProcessGroup                                                        *)
KilledGroup(r) == [KilledLeader(r) EXCEPT !.child = IF @ = "in" THEN "none" ELSE @]

(* The watch of os/exec: not any more when the process has been waited for.*)
Interrupted(c) ==
  /\ Up /\ runs[c].pc = "up" /\ runs[c].ctx # "live" /\ ~runs[c].cut
  /\ Set(c, [KilledGroup(runs[c]) EXCEPT !.cut = TRUE])
  /\ Quietly

Reaped(c) ==
  /\ Up /\ runs[c].pc = "up" /\ runs[c].leader # "up"
  /\ Set(c, [runs[c] EXCEPT !.pc = "reaped"])
  /\ Quietly

(* What Run returns: an exit code wins over the context in the error of    *)
(* os/exec, but the message is taken from the context.                     *)
Outcome(r, held) ==
  IF r.leader = "ok" /\ ~r.cut /\ ~held THEN "ok"
  ELSE IF r.ctx # "live" THEN "over"
  ELSE IF r.leader # "ok" THEN "exit"
  ELSE "start"

(* cmd.WaitDelay: 5 s after the end of the process or of the context.      *)
DelayPasses(r) == TRUE

Returns(c) ==
  /\ Up /\ runs[c].pc = "reaped"
  /\ LET r == runs[c] held == r.child # "none"
     IN /\ held => DelayPasses(r)
        /\ Set(c, [r EXCEPT !.pc = "ended", !.res = Outcome(r, held)])
  /\ Quietly

-----------------------------------------------------------------------------
(* The record (Command.Run, Logger.Write, rotationAwareWriter). *)

Skips(c) ==
  /\ Up /\ runs[c].pc = "ended" /\ runs[c].silent
  /\ Set(c, [runs[c] EXCEPT !.pc = "done"])
  /\ Quietly

Locks(c) ==
  /\ Up /\ runs[c].pc = "ended" /\ ~runs[c].silent /\ writing = Nobody
  /\ writing' = c
  /\ UNCHANGED <<runs, files, path, fd, closed, sink, program>>

(* reportAuditError: the failure of a record is not the command's.         *)
NotRecorded(c) ==
  /\ Set(c, [runs[c] EXCEPT !.pc = "done"])
  /\ sink' = Append(sink, c) /\ writing' = Nobody
  /\ UNCHANGED <<files, path, fd, closed, program>>

NeverReplaced == FALSE
Replaced == path # fd

(* reopenIfReplaced: the file that has the name now, or a new one; one     *)
(* that does not pass validateAuditFile is not written to.                 *)
Prepares(c) ==
  /\ Up /\ writing = c /\ runs[c].pc = "ended"
  /\ IF closed \/ (Replaced /\ path = Foreign) THEN NotRecorded(c)
     ELSE /\ Set(c, [runs[c] EXCEPT !.pc = "append"])
          /\ IF Replaced
             THEN /\ files' = IF path = 0 THEN Append(files, NewFile) ELSE files
                  /\ path' = IF path = 0 THEN Len(files) + 1 ELSE path
                  /\ fd' = path'
             ELSE UNCHANGED <<files, path, fd>>
          /\ UNCHANGED <<writing, closed, sink, program>>

Records(c) ==
  /\ Up /\ writing = c /\ runs[c].pc = "append"
  /\ \/ /\ files' = [files EXCEPT ![fd].recs = IF files[fd].archived THEN @ ELSE Append(@, c)]
        /\ Set(c, [runs[c] EXCEPT !.pc = "done"])
        /\ writing' = Nobody
        /\ UNCHANGED <<path, fd, closed, sink, program>>
     \/ NotRecorded(c)

-----------------------------------------------------------------------------
(* logrotate renames the log and makes a new one or none; a file of        *)
(* another owner or form is Foreign.  What was renamed is archived later,  *)
(* and not between the check of a writer and its write.                    *)
Rotate ==
  /\ Len(files) <= MaxRotations /\ path \in DOMAIN files
  /\ \/ path' = 0 /\ UNCHANGED files
     \/ path' = Foreign /\ UNCHANGED files
     \/ path' = Len(files) + 1 /\ files' = Append(files, NewFile)
  /\ UNCHANGED <<runs, fd, writing, closed, sink, program>>

ForeignGoes ==
  /\ path = Foreign /\ path' = 0
  /\ UNCHANGED <<runs, files, fd, writing, closed, sink, program>>

Archive ==
  /\ writing = Nobody
  /\ \E f \in DOMAIN files \ {path} :
       ~files[f].archived /\ files' = [files EXCEPT ![f].archived = TRUE]
  /\ UNCHANGED <<runs, path, fd, writing, closed, sink, program>>

(* main.run after the screen: Logger.Close, then auditSink.report.         *)
Close ==
  /\ program = "up" /\ writing = Nobody
  /\ closed' = TRUE /\ program' = "closing"
  /\ UNCHANGED <<runs, files, path, fd, writing, sink>>

Exit ==
  /\ program = "closing" /\ program' = "ended"
  /\ UNCHANGED <<runs, files, path, fd, writing, closed, sink>>

-----------------------------------------------------------------------------
Process(c) == Forks(c) \/ LeaderExits(c) \/ ChildExits(c) \/ ContextEnds(c)
Call(c) == Interrupted(c) \/ Reaped(c) \/ Returns(c)
           \/ Skips(c) \/ Locks(c) \/ Prepares(c) \/ Records(c)

Next == \/ \E c \in Cmds : Begin(c) \/ Process(c) \/ Call(c)
        \/ Rotate \/ ForeignGoes \/ Archive \/ Close \/ Exit

Spec == Init /\ [][Next]_vars

-----------------------------------------------------------------------------
(* A command that was cut off by its limit or by a cancellation has left   *)
(* nothing of its process group running (comment of killProcessGroup).     *)
CutOffKillsAll ==
  \A c \in Cmds : LET r == runs[c] IN
    r.cut /\ r.pc \notin {"idle", "up"} => r.leader # "up" /\ r.child # "in"

(* Every command that is not a plain read is on record once, or its loss   *)
(* is reported once, though logrotate renames the file at any time and     *)
(* others write at the same time (comment of rotationAwareWriter, of       *)
(* auditSink); it archives no file that is being written to (Archive).     *)
OnRecord(c) ==
  UNION {{<<f, i>> : i \in {j \in DOMAIN files[f].recs : files[f].recs[j] = c}} :
           f \in DOMAIN files}
Reported(c) == {<<0, i>> : i \in {j \in DOMAIN sink : sink[j] = c}}
Told(c) == OnRecord(c) \cup Reported(c)
EveryRunTold ==
  \A c \in Cmds : runs[c].pc = "done" /\ ~runs[c].silent => Cardinality(Told(c)) = 1

=============================================================================
