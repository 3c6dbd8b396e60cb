------------------------------ MODULE SetupJob ------------------------------
(***************************************************************************)
(* Adding, removing and updating runners: the plans (internal/setup), the  *)
(* goroutine that carries one out (internal/setup/job) and the host it     *)
(* works on.  A runner is its number in <prefix>-<number>; a plan is a     *)
(* sequence of units, a unit a runner and its steps.                       *)
(***************************************************************************)
EXTENDS Integers, Sequences, FiniteSets, FiniteSetsExt

CONSTANTS
  MaxId,          (* runners are numbered 1 .. MaxId.                      *)
  Existing,       (* runners on the host when the tool starts.             *)
  WithUnit,       (* those of them that are services.                      *)
  Scopes,         (* places a runner may be registered at.                 *)
  ScopeOf(_),     (* where a runner is registered.                         *)
  Lifetime,       (* ticks a token is good for.                            *)
  MaxWork         (* bound on the jobs GitHub gives to the runners.        *)

ASSUME SetupJobAssumption ==
  /\ MaxId \in Nat /\ Existing \subseteq 1 .. MaxId /\ WithUnit \subseteq Existing
  /\ Lifetime \in Nat \ {0} /\ MaxWork \in Nat

Ids == 1 .. MaxId

VARIABLES
  host,           (* the runner directories, services and registrations.   *)
  work,           (* jobs GitHub gave out so far.                          *)
  jobs            (* goroutines in job.Run, those that ended included.     *)

hostVars == <<host, work>>

-----------------------------------------------------------------------------
(* The host. *)

NoRunner == [dir |-> "none", reg |-> FALSE, unit |-> FALSE, up |-> FALSE,
             busy |-> FALSE]
AtStart(i) == [dir |-> "old", reg |-> TRUE, unit |-> i \in WithUnit,
               up |-> i \in WithUnit, busy |-> FALSE]

HostInit ==
  /\ host = [i \in Ids |-> IF i \in Existing THEN AtStart(i) ELSE NoRunner]
  /\ work = 0

JobTaken ==
  /\ work < MaxWork
  /\ \E i \in Ids : /\ host[i].up /\ host[i].reg /\ ~host[i].busy
                    /\ host' = [host EXCEPT ![i].busy = TRUE]
  /\ work' = work + 1

JobEnds ==
  \E i \in Ids : /\ host[i].busy
                 /\ host' = [host EXCEPT ![i].busy = FALSE]
                 /\ UNCHANGED work

-----------------------------------------------------------------------------
(* Plans (setup/add.go, remove.go, update.go). *)

Unit(i, view, steps) == [id |-> i, wasUp |-> view.up, steps |-> steps]

(* name.NextIndex and name.Names over the names of the last detection.     *)
NextIndex(seen) == Max({0} \cup {i \in Ids : seen[i].dir # "none"}) + 1

AddSteps == <<"mkdir", "extract", "config", "install", "start">>

PlanAdd(seen, names) ==
  [kind |-> "add", units |-> [k \in DOMAIN names |->
                                Unit(names[k], NoRunner, AddSteps)]]

RemoveSteps(view) ==
  IF view.unit THEN <<"stop", "uninstall", "remove">> ELSE <<"remove">>

PlanRemove(seen, targets) ==
  [kind |-> "remove", units |-> [k \in DOMAIN targets |->
      Unit(targets[k], seen[targets[k]], RemoveSteps(seen[targets[k]]))]]

Updatable(view) == view.unit \/ ~view.up

UpdateStepsNoStart(view) ==
  IF view.up /\ view.unit THEN <<"drain", "unpack">> ELSE <<"unpack">>

(* A runner that was up is drained before and started after.               *)
UpdateSteps(view) ==
  IF view.up /\ view.unit THEN <<"drain", "unpack", "start">> ELSE <<"unpack">>

(* Numbers in ascending order.                                             *)
InOrder(S) ==
  [k \in 1 .. Cardinality(S) |-> CHOOSE i \in S : Cardinality({h \in S : h < i}) = k - 1]

(* Those that can be updated, in the order of the targets.                 *)
PlanUpdate(seen, targets) ==
  LET able == InOrder({k \in DOMAIN targets : Updatable(seen[targets[k]])})
      Update(i) == Unit(i, seen[i], UpdateSteps(seen[i]))
  IN [kind |-> "update", units |-> [k \in DOMAIN able |-> Update(targets[able[k]])]]

NeedsToken(kind)   == kind \in {"add", "remove"}
NeedsTarball(kind) == kind \in {"add", "update"}

NamesOf(units) == [k \in DOMAIN units |-> units[k].id]

-----------------------------------------------------------------------------
(* The goroutine of a run (setup/job/job.go, setup/apply.go). *)

NoUse == [id |-> 0, kind |-> "none", issued |-> "none", scope |-> "none", age |-> 0]

(* ok, bad, rest: the Result; toks: the cached tokens; used: the token     *)
(* given last; log: what was reported through the progress channel, which  *)
(* has room for all of it; wereUp: runners up when it began.               *)
NewJob(seq, plan, scope, asked) ==
  [seq |-> seq, kind |-> plan.kind, units |-> plan.units, scope |-> scope,
   asked |-> asked, stage |-> "client", at |-> 1, step |-> 1, begun |-> FALSE,
   live |-> TRUE, ok |-> <<>>, bad |-> <<>>, rest |-> NamesOf(plan.units),
   toks |-> {}, used |-> NoUse, log |-> <<>>,
   wereUp |-> {i \in Ids : host[i].up}]

Running == {j \in jobs : j.stage # "over"}

Replace(j, k) == jobs' = (jobs \ {j}) \cup {k}

Told(j, i, what) == [j EXCEPT !.log = Append(@, <<i, what>>)]

(* job.failed: nothing was begun, everything remains.                      *)
FailedEarly(j) == [j EXCEPT !.stage = "over"]

(* deps.client, then the tarball: fetched and verified before any unit.    *)
GetsClient(j) ==
  /\ j.stage = "client"
  /\ \/ Replace(j, IF NeedsTarball(j.kind)
                   THEN Told([j EXCEPT !.stage = "tarball"], 0, "prep")
                   ELSE [j EXCEPT !.stage = "units"])
     \/ Replace(j, FailedEarly(j))
  /\ UNCHANGED hostVars

GetsTarball(j) ==
  /\ j.stage = "tarball"
  /\ \/ j.live /\ Replace(j, [j EXCEPT !.stage = "units"])
     \/ Replace(j, FailedEarly(j))
  /\ UNCHANGED hostVars

RestFrom(j, k) == NamesOf(SubSeq(j.units, k, Len(j.units)))

UnitAt(j) == j.units[j.at]
StepAt(j) == UnitAt(j).steps[j.step]

(* Apply: the context is looked at before each unit ...                    *)
StopsBetweenUnits(j) ==
  /\ j.stage = "units" /\ j.step = 1 /\ ~j.begun
  /\ j.at > Len(j.units) \/ ~j.live
  /\ Replace(j, [j EXCEPT !.stage = "over", !.rest = RestFrom(j, j.at), !.toks = {}])
  /\ UNCHANGED hostVars

StepFailedGoesOn(j) ==
  [Told(j, j.at, "failed") EXCEPT !.begun = FALSE, !.step = 1, !.at = @ + 1,
     !.bad = Append(@, UnitAt(j).id)]

StepFailed(j) ==
  [Told(j, j.at, "failed") EXCEPT !.stage = "over", !.toks = {},
     !.bad = <<UnitAt(j).id>>, !.rest = RestFrom(j, j.at + 1)]

(* ... and before each step (applyUnit), which is announced and begun.     *)
BeginsStep(j) ==
  /\ j.stage = "units" /\ ~j.begun /\ j.at <= Len(j.units)
  /\ \/ /\ j.live
        /\ Replace(j, [Told(j, j.at, "run") EXCEPT !.begun = TRUE])
     \/ /\ ~j.live /\ j.step > 1
        /\ Replace(j, StepFailed(j))
  /\ UNCHANGED hostVars

TakesToken(s) == s \in {"config", "remove"}

(* tokenCache.forPlan: a runner is added at the plan's scope and removed   *)
(* from its own.                                                           *)
TokenScope(j) == IF j.kind = "remove" THEN ScopeOf(UnitAt(j).id) ELSE j.scope

ValidForever(t) == t.age >= 0

(* ShortToken.Valid: not in the last tick before it runs out.              *)
Valid(t) == t.age < Lifetime - 1

Cached(j) == {t \in j.toks : t.scope = TokenScope(j) /\ t.kind = j.kind /\ Valid(t)}

(* tokenCache.get: from the cache, or issued and put there.                *)
TokenFor(j) == IF Cached(j) # {} THEN CHOOSE t \in Cached(j) : TRUE
               ELSE [scope |-> TokenScope(j), kind |-> j.kind, age |-> 0]

GivesToken(j) ==
  LET t == TokenFor(j) IN
  [j EXCEPT !.toks = {u \in @ : u.scope # t.scope \/ u.kind # t.kind} \cup {t},
            !.used = [id |-> UnitAt(j).id, kind |-> j.kind, issued |-> t.kind,
                      scope |-> t.scope, age |-> t.age]]

Given(j) == IF TakesToken(StepAt(j)) THEN GivesToken(j) ELSE j

(* What a step leaves on the host.                                         *)
Effect(s, h) ==
  CASE s = "mkdir"     -> [h EXCEPT !.dir = IF @ = "none" THEN "made" ELSE @]
    [] s \in {"extract", "unpack"} -> [h EXCEPT !.dir = "new"]
    [] s = "config"    -> [h EXCEPT !.reg = TRUE]
    [] s = "install"   -> [h EXCEPT !.unit = TRUE]
    [] s = "start"     -> [h EXCEPT !.up = h.unit]
    [] s = "drain"     -> [h EXCEPT !.up = FALSE, !.busy = FALSE]
    [] s = "stop"      -> [h EXCEPT !.up = FALSE, !.busy = FALSE]
    [] s = "uninstall" -> [h EXCEPT !.unit = FALSE]
    [] s = "remove"    -> [h EXCEPT !.reg = FALSE]

LastStep(j) == j.step = Len(UnitAt(j).steps)

Advanced(j) ==
  IF LastStep(j)
  THEN [Told(j, j.at, "done") EXCEPT !.begun = FALSE, !.step = 1, !.at = @ + 1,
          !.ok = Append(@, UnitAt(j).id)]
  ELSE [j EXCEPT !.begun = FALSE, !.step = @ + 1]

(* runStep: a drain waits for the job; a command that fails may have done  *)
(* its work all the same.                                                  *)
EndsStep(j) ==
  /\ j.stage = "units" /\ j.begun
  /\ LET i == UnitAt(j).id
         after == [host EXCEPT ![i] = Effect(StepAt(j), @)] IN
     \/ /\ j.live
        /\ StepAt(j) = "drain" => ~host[i].busy
        /\ host' = after
        /\ Replace(j, Advanced(Given(j)))
     \/ /\ host' \in {host} \cup {h \in {after} : ~(StepAt(j) = "drain" /\ host[i].busy)}
        /\ Replace(j, StepFailed(Given(j)))
  /\ UNCHANGED work

RunStep == \E j \in jobs :
  \/ GetsClient(j) \/ GetsTarball(j) \/ StopsBetweenUnits(j)
  \/ BeginsStep(j) \/ EndsStep(j)

(* Time goes by: tokens grow old.                                          *)
Grow == \E j \in Running :
  /\ \E t \in j.toks : t.age < Lifetime
  /\ Replace(j, [j EXCEPT !.toks = {[t EXCEPT !.age = @ + 1] : t \in
                                      {u \in @ : u.age < Lifetime}}])
  /\ UNCHANGED hostVars

=============================================================================
