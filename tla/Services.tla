------------------------------ MODULE Services ------------------------------
(***************************************************************************)
(* The host as the service operations of internal/svc see it: the systemd  *)
(* unit of each runner, the job (Runner.Worker) it is running, and the     *)
(* request systemctl has handed to systemd.                                *)
(*                                                                         *)
(* systemctl start/stop/restart returns when systemd has carried out the   *)
(* request, but the executor (internal/exec/command) gives up on it after  *)
(* 30 seconds or when its context is cancelled.  The systemctl process is  *)
(* killed then; the request it has submitted stays with systemd.           *)
(*                                                                         *)
(* systemd and the jobs are not part of the repository.  They are modelled *)
(* here from how svc, procs and exec use them.                             *)
(***************************************************************************)
EXTENDS Naturals, FiniteSets, Sequences

CONSTANTS
  Runners,   (* the runners of the host.                                   *)
  HasUnit,   (* those whose unit name is known.                            *)
  MaxJobs    (* bound on the jobs that begin, on all runners together.     *)

ASSUME ServicesAssumption ==
  /\ HasUnit \subseteq Runners
  /\ MaxJobs \in Nat

VARIABLES
  up,        (* the listener of the runner is running.                     *)
  worker,    (* the job of its worker, 0 when there is none.               *)
  jobs,      (* jobs begun so far: they are numbered in that order.        *)
  lost,      (* jobs interrupted, with who asked for it and the number of  *)
             (* the last job begun when he last looked.                    *)
  request    (* what systemd is to do with the unit.                       *)

hostVars == <<up, worker, jobs, lost, request>>

NoRequest == [verb |-> "none", by |-> "nobody", after |-> 0]

HostInit ==
  /\ up \in [Runners -> BOOLEAN]
  /\ worker = [r \in Runners |-> 0]
  /\ jobs = 0
  /\ lost = {}
  /\ request = [r \in Runners |-> NoRequest]

(* The job that ends when runner r is stopped now. *)
Interrupted(r, by, after) ==
  IF worker[r] = 0 THEN {} ELSE {[job |-> worker[r], by |-> by, after |-> after]}

(* svc.unitCommand: systemctl hands the verb to systemd; a later request   *)
(* for the same unit replaces an earlier one.                              *)
Submit(r, verb, by, after) ==
  /\ request' = [request EXCEPT ![r] =
                   [verb |-> verb, by |-> by, after |-> after]]
  /\ UNCHANGED <<up, worker, jobs, lost>>

(* kill -KILL of the listener and of the worker seen by the last           *)
(* detection, whichever of them are still those processes.                 *)
KillProcesses(r, job) ==
  /\ up' = [up EXCEPT ![r] = FALSE]
  /\ IF worker[r] = job
     THEN /\ worker' = [worker EXCEPT ![r] = 0]
          /\ lost' = lost \cup Interrupted(r, "user", jobs)
     ELSE UNCHANGED <<worker, lost>>
  /\ UNCHANGED <<jobs, request>>

(* systemd carries out the request. *)
Perform(r) ==
  /\ request[r].verb # "none"
  /\ LET q == request[r] IN
     /\ up' = [up EXCEPT ![r] = (q.verb # "stop")]
     /\ IF q.verb \in {"stop", "restart"}
        THEN /\ worker' = [worker EXCEPT ![r] = 0]
             /\ lost' = lost \cup Interrupted(r, q.by, q.after)
        ELSE UNCHANGED <<worker, lost>>
  /\ request' = [request EXCEPT ![r] = NoRequest]
  /\ UNCHANGED jobs

(* The listener picks up a job. *)
JobBegins(r) ==
  /\ up[r] /\ worker[r] = 0 /\ jobs < MaxJobs
  /\ jobs' = jobs + 1
  /\ worker' = [worker EXCEPT ![r] = jobs + 1]
  /\ UNCHANGED <<up, lost, request>>

JobEnds(r) ==
  /\ worker[r] # 0
  /\ worker' = [worker EXCEPT ![r] = 0]
  /\ UNCHANGED <<up, jobs, lost, request>>

Environment == \E r \in Runners : Perform(r) \/ JobBegins(r) \/ JobEnds(r)

(* Jobs end and systemd carries out what it was asked to. *)
HostFairness ==
  \A r \in Runners : WF_hostVars(Perform(r)) /\ WF_hostVars(JobEnds(r))

=============================================================================
