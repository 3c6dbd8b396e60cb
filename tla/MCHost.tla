------------------------------- MODULE MCHost -------------------------------
(***************************************************************************)
(* Instance for TLC of the parts that look at the host and call its        *)
(* programs, one of them as part says; they share no state: the external   *)
(* commands (Executor), the masking of their arguments (Mask), what a      *)
(* detection and a diagnosis make of a host (Discovery), the requirements  *)
(* of jobs (JobReq) and the Doctor tab (DoctorTab).                        *)
(***************************************************************************)
EXTENDS Executor, JobReq, Discovery, DoctorTab, Mask, TLC

VARIABLE part

(* Arguments of one, three or five words, up to three of them.             *)
Word == {"token", "auth", "h", "n", "s", "v"}
One   == {<<w>> : w \in Word}
Three == {<<v, c, w>> : v \in Word, c \in {":", "="}, w \in Word}
Five  == {t \o <<c, w>> : t \in Three, c \in {":", "="}, w \in Word}
Arg(T) == {[dash |-> d, t |-> t] : d \in BOOLEAN, t \in T}
MCInputs == {<<a>> : a \in Arg(Five)} \cup {<<a, b>> : a \in Arg(One), b \in Arg(One \cup Three)}
            \cup [1 .. 3 -> Arg(One)]

(* Two directories and two units that may claim, serve or miss each other. *)
MCDir == {[found |-> f, config |-> "ok", service |-> s] : f \in BOOLEAN, s \in 0 .. 2}
         \cup {[found |-> TRUE, config |-> c, service |-> 1] : c \in {"bad", "none"}}
MCUnit == {[load |-> "loaded", dir |-> d] : d \in 0 .. 3}
          \cup {[load |-> l, dir |-> 0] : l \in {"none", "not-found", "fails"}}
Listening == [kind |-> "listener", dir |-> 1, started |-> 2]
MCProcs == {<<>>, <<Listening>>}
           \cup {<<[kind |-> k, dir |-> d, started |-> 1], Listening>> :
                   k \in {"listener", "worker"}, d \in 0 .. 1}

(* A check with a row for each runner, one with a row for each endpoint.   *)
Row(c, t, n) == [id |-> c, target |-> t, item |-> n]
MCRows == <<Row("net.reach", "", "github"), Row("net.reach", "", "api"),
            Row("job.sudo", "r1", ""), Row("job.sudo", "r2", "")>>

ASSUME ExecutorAssumption /\ JobReqAssumption

(* What the parts that are not looked at stay at.                          *)
NoArgs == args = <<[dash |-> FALSE, t |-> <<"n">>]>>
NoScan ==
  /\ host = [dir |-> [d \in 1 .. 2 |-> [found |-> TRUE, config |-> "none", service |-> 1]],
             unit |-> [u \in 1 .. 2 |-> [load |-> "none", dir |-> 0]],
             procs |-> <<>>, listed |-> TRUE, issued |-> 2]
  /\ known = {} /\ told = [units |-> {}, known |-> {}]
NoJobs == have = Needs /\ member = {}

(* The commands differ in nothing.                                         *)
MCSymmetry == Permutations(Cmds)

MCInit ==
  /\ \/ part = "command" /\ NoArgs /\ NoScan /\ NoJobs
     \/ part = "mask" /\ MaskInit /\ NoScan /\ NoJobs
     \/ part = "scan" /\ NoArgs /\ ScanInit /\ NoJobs
     \/ part = "jobs" /\ NoArgs /\ NoScan /\ ReqInit
     \/ part = "doctor" /\ NoArgs /\ NoScan /\ NoJobs
  /\ Init /\ ReqInit /\ DoctorInit

MCNext ==
  /\ \/ /\ part = "command" /\ Next
        /\ UNCHANGED <<maskVars, scanVars, reqVars, doctorVars>>
     \/ /\ part = "mask" /\ MaskNext
        /\ UNCHANGED <<vars, scanVars, reqVars, doctorVars>>
     \/ /\ part = "scan" /\ ScanNext
        /\ UNCHANGED <<vars, maskVars, reqVars, doctorVars>>
     \/ /\ part = "jobs" /\ ReqNext
        /\ UNCHANGED <<vars, maskVars, scanVars, doctorVars>>
     \/ /\ part = "doctor" /\ DoctorNext
        /\ UNCHANGED <<vars, maskVars, scanVars, reqVars>>
  /\ UNCHANGED part

MCSpec == MCInit /\ [][MCNext]_<<vars, maskVars, scanVars, reqVars, doctorVars, part>>
=============================================================================
