------------------------------ MODULE JobsTab ------------------------------
(***************************************************************************)
(* The Jobs tab (ui/page/jobs) on a host with one runner: a row for each   *)
(* worker process of the last detection, and the repository and working    *)
(* directory read from the log the worker writes (logs.ParseWorker).       *)
(* Nothing in a log's name tells whose it is, so the one changed last is   *)
(* taken, if it was changed after the worker had started.                  *)
(*                                                                         *)
(* Workers are numbered as they start.  A line of a log is what it tells;  *)
(* what is read is known by the rank of the line it was taken from.        *)
(***************************************************************************)
EXTENDS Naturals, Sequences, SequencesExt, FiniteSets, Functions

CONSTANTS
  Logs,        (* what workers write: sequences of lines.                  *)
  MaxWorkers,  (* bound on the workers that start.                         *)
  MaxAtOnce,   (* how many run at the same time.                           *)
  MaxTries     (* maxParseTries.                                           *)

(* What an instance assumes of them.                                      *)
JobsTabAssumption == {MaxWorkers, MaxAtOnce, MaxTries} \subseteq Nat

VARIABLES
  workers,     (* the workers: their log, the lines of it written, when    *)
               (* they started and wrote last, whether they have ended.    *)
  clock,
  list,        (* st.Result.Runners: the workers of the runner.            *)
  info,        (* Model.info: by worker, the key of a job.                 *)
  sought,      (* Model.asked.                                             *)
  tries,       (* Model.tries.                                             *)
  parses,      (* goroutines of parseWorker.                               *)
  answers,     (* jobInfoMsg on their way.                                 *)
  rows         (* the rows of the table.                                   *)

logVars == <<workers, clock>>
infoVars == <<list, info, sought, tries, rows>>
jobsVars == <<logVars, infoVars, parses, answers>>

Empty == [of |-> 0, repo |-> 0, work |-> 0]

JobsInit ==
  /\ workers = <<>> /\ clock = 0
  /\ list = {} /\ info = <<>> /\ sought = {} /\ tries = <<>> /\ rows = {}
  /\ parses = {} /\ answers = {}

-----------------------------------------------------------------------------
(* The host. *)

Running == {w \in DOMAIN workers : ~workers[w].over}

WorkerStarts ==
  /\ Len(workers) < MaxWorkers /\ Cardinality(Running) < MaxAtOnce
  /\ clock' = clock + 1
  /\ \E l \in Logs :
       workers' = Append(workers, [log |-> l, written |-> 0, started |-> clock + 1,
                                 changed |-> 0, over |-> FALSE])
  /\ UNCHANGED <<infoVars, parses, answers>>

WorkerWrites(w) ==
  /\ workers[w].written < Len(workers[w].log)
  /\ clock' = clock + 1
  /\ workers' = [workers EXCEPT ![w].written = @ + 1, ![w].changed = clock + 1]
  /\ UNCHANGED <<infoVars, parses, answers>>

WorkerEnds(w) ==
  /\ workers' = [workers EXCEPT ![w].over = TRUE]
  /\ UNCHANGED <<clock, infoVars, parses, answers>>

-----------------------------------------------------------------------------
(* A log (logs/worker.go). *)

RepoRank == [header |-> 0, mapping |-> 1, message |-> 2, multi |-> 3, cwd |-> 0, update |-> 0]
WorkRank == [header |-> 0, mapping |-> 0, message |-> 0, multi |-> 0, cwd |-> 2, update |-> 1]

(* pick: only a line of a better rank replaces what was found before.      *)
Pick(found, rank) == IF rank # 0 /\ (found = 0 \/ rank < found) THEN rank ELSE found
Best(lines, rank) == FoldLeft(LAMBDA found, l : Pick(found, rank[l]), 0, lines)

ParseWorker(w, lines) == [of |-> w, repo |-> Best(lines, RepoRank), work |-> Best(lines, WorkRank)]
Written(w) == SubSeq(workers[w].log, 1, workers[w].written)

(* List, LatestWorker: the log changed last.                               *)
LogFiles == {w \in DOMAIN workers : workers[w].written > 0}
LatestWorker == {w \in LogFiles : \A v \in LogFiles : workers[v].changed <= workers[w].changed}

(* A mistake: any log is taken.                                           *)
IsAnyLog(w, log) == TRUE

(* parseWorker *)
IsItsOwn(w, log) == workers[log].changed >= workers[w].started

LogOf(w) == {log \in LatestWorker : IsItsOwn(w, log)}

InfoAnswer(w, found) == [key |-> w, info |-> found, retry |-> found.repo = 0]

(* The goroutine looks for the log, then reads it.                         *)
Finds(p) ==
  /\ p.log = 0
  /\ IF LogOf(p.key) = {}
     THEN /\ parses' = parses \ {p} /\ answers' = answers \cup {InfoAnswer(p.key, Empty)}
     ELSE /\ \E log \in LogOf(p.key) : parses' = (parses \ {p}) \cup {[p EXCEPT !.log = log]}
          /\ UNCHANGED answers
  /\ UNCHANGED <<logVars, infoVars>>

Reads(p) ==
  /\ p.log # 0
  /\ parses' = parses \ {p}
  /\ answers' = answers \cup {InfoAnswer(p.key, ParseWorker(p.log, Written(p.log)))}
  /\ UNCHANGED <<logVars, infoVars>>

-----------------------------------------------------------------------------
(* The page. *)

JobRows(l, i) ==
  {[worker |-> w, info |-> IF w \in DOMAIN i THEN i[w] ELSE Empty] : w \in l}

Tries(w) == IF w \in DOMAIN tries THEN tries[w] ELSE 0

(* A runner with two jobs is not asked about.                              *)
Live(l) == IF Cardinality(l) = 1 THEN l ELSE {}

(* resolveInfo, prune: only what the list has is remembered.               *)
ResolveInfo(l) ==
  LET live == Live(l)
      ask  == {w \in live \ (DOMAIN info \cup sought) : Tries(w) < MaxTries}
  IN  /\ parses' = parses \cup {[key |-> w, log |-> 0] : w \in ask}
      /\ sought' = (sought \cup ask) \cap live
      /\ tries' = [w \in (DOMAIN tries \cup ask) \cap live |->
                     Tries(w) + (IF w \in ask THEN 1 ELSE 0)]
      /\ info' = Restrict(info, DOMAIN info \cap live)

(* setState: a detection; what has changed since is in the next one.       *)
SetState ==
  /\ list' = Running
  /\ rows' = JobRows(Running, info)
  /\ ResolveInfo(Running)
  /\ UNCHANGED <<logVars, answers>>

OnJobInfo(m) ==
  /\ answers' = answers \ {m}
  /\ sought' = sought \ {m.key}
  /\ IF m.retry
     THEN UNCHANGED <<info, rows>>
     ELSE /\ info' = [w \in DOMAIN info \cup {m.key} |-> IF w = m.key THEN m.info ELSE info[w]]
          /\ rows' = JobRows(list, info')
  /\ UNCHANGED <<logVars, list, tries, parses>>

JobsNext ==
  \/ WorkerStarts \/ \E w \in Running : WorkerWrites(w) \/ WorkerEnds(w)
  \/ \E p \in parses : Finds(p) \/ Reads(p)
  \/ \E m \in answers : OnJobInfo(m)
  \/ SetState

JobsSpec == JobsInit /\ [][JobsNext]_jobsVars

-----------------------------------------------------------------------------
(* As long as a job runs its row shows nothing that was read from the log  *)
(* of another job, although the last log may still be the one of the job   *)
(* before and answers are late (parseWorker: better nothing than what is   *)
(* another's).                                                             *)
RowShowsItsJob ==
  \A r \in rows : r.worker \in Running => r.info.of \in {0, r.worker}

(* What is remembered of a running job, once no answer is on its way, is   *)
(* not the directory of a lesser line when the job's own one is in the log *)
(* (logs/worker.go: a path that is not the job's must not become final).   *)
DirectoryIsTheJobs ==
  \A w \in DOMAIN info \cap Running :
    parses = {} /\ answers = {} /\ Best(Written(w), WorkRank) = 1 => info[w].work # 2
=============================================================================
