------------------------------- MODULE JobReq -------------------------------
(***************************************************************************)
(* What a job needs of its host, as the start-up checks judge it           *)
(* (doctor/jobreq): docker, buildx, sudo without a password, and the       *)
(* docker group of the runner's user - which a process has from its start  *)
(* on, whatever /etc/group says later.  The diagnosis works on the runners *)
(* of the last detection, reads /etc/group once and then /proc of each     *)
(* listener, while the administrator repairs the host.                     *)
(***************************************************************************)
EXTENDS Naturals, FiniteSets

CONSTANTS
  Runners,     (* each with a user of its own.                             *)
  Numeric,     (* those whose user is known by UID only.                   *)
  MaxRepairs   (* bound on the changes of the host.                        *)

JobReqAssumption == Numeric \subseteq Runners /\ MaxRepairs \in Nat

VARIABLES
  have,     (* what is there: the commands "docker", "buildx" and "sudo",  *)
            (* the "daemon", "nopasswd", "exec" (the tool may run commands) *)
            (* and "time" (enough for the diagnosis).                      *)
  member,   (* /etc/group: the users in the docker group.                  *)
  proc,     (* the listeners: pid (0: none), whether it has the group.     *)
  repairs,  (* changes of the host so far; the pid of the last one.        *)
  seen,     (* the detection's listeners.                                  *)
  check,    (* the diagnosis: [stage, seen, member], what it was given and *)
            (* has read.                                                   *)
  verdict   (* job.dockergroup by runner, and the pid it looked at.        *)

reqVars == <<have, member, proc, repairs, seen, check, verdict>>

Needs == {"docker", "buildx", "daemon", "sudo", "nopasswd", "exec", "time"}

ReqInit ==
  /\ \E missing \in SUBSET Needs : Cardinality(missing) < 2 /\ have = Needs \ missing
  /\ member \in SUBSET Runners
  /\ proc = [r \in Runners |-> [pid |-> 0, group |-> FALSE]]
  /\ repairs = 0
  /\ seen = [r \in Runners |-> 0]
  /\ check = [stage |-> "idle", seen |-> seen, member |-> {}]
  /\ verdict = [r \in Runners |-> [is |-> "none", pid |-> 0]]

-----------------------------------------------------------------------------
(* The administrator and systemd. *)

Repair == repairs < MaxRepairs /\ repairs' = repairs + 1

(* usermod -aG, gpasswd -d: for the processes started from now on.         *)
Usermod(r) ==
  /\ Repair
  /\ member' = IF r \in member THEN member \ {r} ELSE member \cup {r}
  /\ UNCHANGED <<have, proc, seen, check, verdict>>

Restart(r) ==
  /\ Repair
  /\ proc' = [proc EXCEPT ![r] = [pid |-> repairs', group |-> r \in member]]
  /\ UNCHANGED <<have, member, seen, check, verdict>>

Stop(r) ==
  /\ Repair /\ proc[r].pid # 0
  /\ proc' = [proc EXCEPT ![r] = [pid |-> 0, group |-> FALSE]]
  /\ UNCHANGED <<have, member, seen, check, verdict>>

Detect ==
  /\ seen' = [r \in Runners |-> proc[r].pid]
  /\ UNCHANGED <<have, member, proc, repairs, check, verdict>>

-----------------------------------------------------------------------------
(* docker.go, sudo.go: without docker only job.docker is bad, what could   *)
(* not be run is not judged.                                               *)
DockerCheck == IF "docker" \in have THEN "ok" ELSE "fail"

Unprobed == ~({"docker", "exec"} \subseteq have)

DaemonCheck ==
  IF Unprobed THEN "skip" ELSE IF "daemon" \in have THEN "ok" ELSE "fail"

BuildxCheck ==
  IF Unprobed THEN "skip" ELSE IF "buildx" \in have THEN "ok" ELSE "warn"

SudoCheck ==
  IF ~({"sudo", "exec", "time"} \subseteq have) THEN "skip"
  ELSE IF "nopasswd" \in have THEN "ok" ELSE "warn"

-----------------------------------------------------------------------------
(* dockerGroupCheck.Run: /etc/group, with the runners of the detection.    *)
BeginChecks ==
  /\ check.stage = "idle"
  /\ check' = [stage |-> "judge", seen |-> seen, member |-> member]
  /\ verdict' = [r \in Runners |-> [is |-> "none", pid |-> 0]]
  /\ UNCHANGED <<have, member, proc, repairs, seen>>

(* procGroups: /proc/<pid>/status is gone with the process.                *)
ByGroups(r) ==
  IF proc[r].pid # check.seen[r] THEN "warn"
  ELSE IF proc[r].group THEN "ok" ELSE "fail"

JudgeByProc(r) == IF check.seen[r] = 0 THEN "skip" ELSE ByGroups(r)

JudgeByMember(r) == IF r \in check.member THEN "ok" ELSE "fail"

JudgeByName(r) ==
  IF r \notin check.member THEN "fail"
  ELSE IF check.seen[r] = 0 THEN "ok" ELSE ByGroups(r)

Judge(r) ==
  /\ check.stage = "judge" /\ verdict[r].is = "none"
  /\ verdict' = [verdict EXCEPT ![r] =
       [is |-> IF r \in Numeric THEN JudgeByProc(r) ELSE JudgeByName(r),
        pid |-> check.seen[r]]]
  /\ UNCHANGED <<have, member, proc, repairs, seen, check>>

End ==
  /\ check.stage = "judge" /\ \A r \in Runners : verdict[r].is # "none"
  /\ check' = [check EXCEPT !.stage = "idle"]
  /\ UNCHANGED <<have, member, proc, repairs, seen, verdict>>

ReqNext ==
  \/ \E r \in Runners : Usermod(r) \/ Restart(r) \/ Stop(r) \/ Judge(r)
  \/ Detect \/ BeginChecks \/ End

ReqSpec == ReqInit /\ [][ReqNext]_reqVars

-----------------------------------------------------------------------------
(* Where every check of a runner is green, a job on the listener that was  *)
(* looked at finds what it needs, for as long as that listener runs: a     *)
(* user added to the group whose listener was not restarted is no green    *)
(* (FR-43, FR-44, comment of dockerGroupCheck).                            *)
GreenJobsRun ==
  \A r \in Runners :
    /\ verdict[r].is = "ok" /\ DockerCheck = "ok" /\ BuildxCheck = "ok"
    /\ DaemonCheck = "ok" /\ SudoCheck = "ok"
    /\ verdict[r].pid # 0 /\ proc[r].pid = verdict[r].pid
    => /\ proc[r].group
       /\ {"docker", "buildx", "daemon", "sudo", "nopasswd"} \subseteq have
=============================================================================
