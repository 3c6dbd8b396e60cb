--------------------------- MODULE SetupTab_proofs ---------------------------
(***************************************************************************)
(* Proofs about the Setup tab (SetupTab) and the goroutine of a run        *)
(* (SetupJob): a command gets a token that fits, what runs is the plan     *)
(* that was approved, alone, as a Batch, and an update starts the runners  *)
(* it stopped.                                                             *)
(***************************************************************************)
EXTENDS SetupTab, FiniteSetTheorems, SequenceTheorems, WellFoundedInduction, TLAPS

(* The fields of a run.                                                    *)
Fields == {"seq", "kind", "units", "scope", "asked", "stage", "at", "step", "begun", "live",
           "ok", "bad", "rest", "toks", "used", "log", "wereUp"}

(* The tokens of a run have an age, and the one used last fitted.          *)
Fits(j) ==
  /\ \A t \in j.toks : DOMAIN t = {"scope", "kind", "age"} /\ t.age \in Nat
  /\ j.used # NoUse =>
       /\ j.used.age < Lifetime /\ j.used.issued = j.kind
       /\ j.kind = "remove" => j.used.scope = ScopeOf(j.used.id)

TokenInv == \A j \in jobs : DOMAIN j = Fields /\ Fits(j)

(* Whatever a run does, it stays the run it was.                           *)
Same(j, k) ==
  /\ DOMAIN k = Fields
  /\ k.seq = j.seq /\ k.kind = j.kind /\ k.units = j.units /\ k.asked = j.asked
  /\ k.wereUp = j.wereUp

-----------------------------------------------------------------------------
(* What is reported.                                                       *)
LEMMA ToldIsSame ==
  ASSUME NEW j, DOMAIN j = Fields, NEW i, NEW what
  PROVE  LET k == Told(j, i, what)
         IN  Same(j, k) /\ k.toks = j.toks /\ k.used = j.used
BY DEF Told, Same, Fields

(* The end of a run at a step that failed.                                 *)
LEMMA FailedIsSame ==
  ASSUME NEW j, DOMAIN j = Fields
  PROVE  LET k == StepFailed(j)
         IN  Same(j, k) /\ k.toks = {} /\ k.used = j.used
<1> DEFINE told == Told(j, j.at, "failed")
<1>1. Same(j, told) /\ told.used = j.used
  BY ToldIsSame
<1>2. \A b, r : LET k == [told EXCEPT !.stage = "over", !.toks = {}, !.bad = b, !.rest = r]
                IN  Same(told, k) /\ k.toks = {} /\ k.used = told.used
  <2> HIDE DEF told
  <2> QED  BY <1>1 DEF Same, Fields
<1>3. StepFailed(j) =
        [told EXCEPT !.stage = "over", !.toks = {}, !.bad = <<UnitAt(j).id>>,
                     !.rest = RestFrom(j, j.at + 1)]
  BY DEF StepFailed
<1> HIDE DEF told
<1> QED  BY <1>1, <1>2, <1>3 DEF Same

(* The end of a step.                                                      *)
LEMMA AdvancedIsSame ==
  ASSUME NEW j, DOMAIN j = Fields
  PROVE  LET k == Advanced(j)
         IN  Same(j, k) /\ k.toks = j.toks /\ k.used = j.used
<1> DEFINE told == Told(j, j.at, "done")
<1>1. Same(j, told) /\ told.toks = j.toks /\ told.used = j.used
  BY ToldIsSame
<1>2. CASE LastStep(j)
  <2> DEFINE k == [told EXCEPT !.begun = FALSE, !.step = 1, !.at = @ + 1,
                               !.ok = Append(@, UnitAt(j).id)]
  <2>1. Same(told, k) /\ k.toks = told.toks /\ k.used = told.used
    <3> HIDE DEF told
    <3> QED  BY <1>1 DEF Same, Fields
  <2>2. Advanced(j) = k
    BY <1>2 DEF Advanced
  <2> HIDE DEF told, k
  <2> QED  BY <1>1, <2>1, <2>2 DEF Same
<1>3. CASE ~LastStep(j)
  BY <1>3 DEF Advanced, Same, Fields
<1> QED  BY <1>2, <1>3

(* The token a command gets has not run out and is for its kind and, when  *)
(* it removes, for the runner's own place.                                 *)
LEMMA GivenFits ==
  ASSUME SetupJobAssumption, NEW j, DOMAIN j = Fields, Fits(j)
  PROVE  Same(j, Given(j)) /\ Fits(Given(j))
<1>1. CASE ~TakesToken(StepAt(j))
  BY <1>1 DEF Given, Same
<1>2. CASE TakesToken(StepAt(j))
  <2> DEFINE t == TokenFor(j)
  <2>1. /\ DOMAIN t = {"scope", "kind", "age"} /\ t.age \in Nat /\ t.age < Lifetime
        /\ t.kind = j.kind /\ t.scope = TokenScope(j)
    <3>1. CASE Cached(j) # {}
      <4>1. t \in Cached(j)
        BY <3>1 DEF TokenFor
      <4> HIDE DEF t
      <4>2. t \in j.toks /\ t.scope = TokenScope(j) /\ t.kind = j.kind /\ t.age < Lifetime - 1
        BY <4>1 DEF Cached, Valid
      <4> QED  BY <4>2 DEF Fits, SetupJobAssumption
    <3>2. CASE Cached(j) = {}
      <4>1. t = [scope |-> TokenScope(j), kind |-> j.kind, age |-> 0]
        BY <3>2 DEF TokenFor
      <4> HIDE DEF t
      <4> QED  BY <4>1, SetupJobAssumption
    <3> QED  BY <3>1, <3>2
  <2> DEFINE others == {u \in j.toks : u.scope # t.scope \/ u.kind # t.kind}
             used   == [id |-> UnitAt(j).id, kind |-> j.kind, issued |-> t.kind,
                        scope |-> t.scope, age |-> t.age]
  <2>2. Given(j) = [j EXCEPT !.toks = others \cup {t}, !.used = used]
    BY <1>2 DEF Given, GivesToken
  <2>3. /\ used.age < Lifetime /\ used.issued = j.kind
        /\ j.kind = "remove" => used.scope = ScopeOf(used.id)
    <3> HIDE DEF t
    <3> QED  BY <2>1 DEF TokenScope
  <2>4. \A u \in others \cup {t} : DOMAIN u = {"scope", "kind", "age"} /\ u.age \in Nat
    <3> HIDE DEF t
    <3> QED  BY <2>1 DEF Fits
  <2> HIDE DEF t, others, used
  <2>5. Same(j, Given(j)) /\ Given(j).toks = others \cup {t} /\ Given(j).used = used
    BY <2>2 DEF Same, Fields
  <2> QED  BY <2>3, <2>4, <2>5 DEF Fits, Same
<1> QED  BY <1>1, <1>2

(* A step of a run, or time going by, changes one run that is not over.    *)
LEMMA StepsOfARun ==
  ASSUME SetupJobAssumption, TokenInv, RunStep \/ Grow
  PROVE  \E j \in jobs : \E k :
           /\ j.stage # "over" /\ jobs' = (jobs \ {j}) \cup {k}
           /\ Same(j, k) /\ Fits(k)
<1>1. ASSUME NEW j \in jobs, GetsClient(j) \/ GetsTarball(j) \/ StopsBetweenUnits(j)
      PROVE  \E k : /\ j.stage # "over" /\ jobs' = (jobs \ {j}) \cup {k}
                    /\ Same(j, k) /\ Fits(k)
  <2>1. DOMAIN j = Fields /\ Fits(j)
    BY DEF TokenInv
  <2> DEFINE Good(k) == Same(j, k) /\ Fits(k)
  <2>2. j.stage # "over"
    BY <1>1 DEF GetsClient, GetsTarball, StopsBetweenUnits
  <2>3. \A s : Good([j EXCEPT !.stage = s])
    BY <2>1 DEF Same, Fits, Fields
  <2>4. \A r : Good([j EXCEPT !.stage = "over", !.rest = r, !.toks = {}])
    BY <2>1 DEF Same, Fits, Fields
  <2>5. Good(Told([j EXCEPT !.stage = "tarball"], 0, "prep"))
    <3> DEFINE i == [j EXCEPT !.stage = "tarball"]
    <3>1. Good(i)
      BY <2>3
    <3> HIDE DEF i
    <3> DEFINE k == Told(i, 0, "prep")
    <3>2. Same(i, k) /\ k.toks = i.toks /\ k.used = i.used
      BY <3>1, ToldIsSame DEF Same
    <3> HIDE DEF k
    <3>3. Good(k)
      BY <3>1, <3>2 DEF Same, Fits
    <3> QED  BY <3>3 DEF k, i
  <2> HIDE DEF Good
  <2>6. \E k : jobs' = (jobs \ {j}) \cup {k} /\ Good(k)
    BY <1>1, <2>3, <2>4, <2>5
       DEF GetsClient, GetsTarball, StopsBetweenUnits, Replace, FailedEarly
  <2> QED  BY <2>2, <2>6 DEF Good
<1>2. ASSUME NEW j \in jobs, BeginsStep(j)
      PROVE  \E k : /\ j.stage # "over" /\ jobs' = (jobs \ {j}) \cup {k}
                    /\ Same(j, k) /\ Fits(k)
  <2>1. DOMAIN j = Fields /\ Fits(j) /\ j.stage # "over"
    BY <1>2 DEF TokenInv, BeginsStep
  <2> DEFINE told == Told(j, j.at, "run")
             k    == [told EXCEPT !.begun = TRUE]
  <2>2. Same(j, told) /\ Fits(told)
    BY <2>1, ToldIsSame DEF Same, Fits
  <2>3. Same(j, k) /\ Fits(k)
    <3> HIDE DEF told
    <3> QED  BY <2>2 DEF Same, Fits, Fields
  <2>4. Same(j, StepFailed(j)) /\ Fits(StepFailed(j))
    BY <2>1, FailedIsSame DEF Same, Fits
  <2>5. jobs' = (jobs \ {j}) \cup {k} \/ jobs' = (jobs \ {j}) \cup {StepFailed(j)}
    BY <1>2 DEF BeginsStep, Replace
  <2> HIDE DEF told, k
  <2> QED  BY <2>1, <2>3, <2>4, <2>5
<1>3. ASSUME NEW j \in jobs, EndsStep(j)
      PROVE  \E k : /\ j.stage # "over" /\ jobs' = (jobs \ {j}) \cup {k}
                    /\ Same(j, k) /\ Fits(k)
  <2> DEFINE g == Given(j)
  <2>1. DOMAIN j = Fields /\ Fits(j) /\ j.stage # "over"
    BY <1>3 DEF TokenInv, EndsStep
  <2>2. Same(j, g) /\ Fits(g)
    BY <2>1, GivenFits
  <2>3. /\ jobs' = (jobs \ {j}) \cup {Advanced(g)} \/ jobs' = (jobs \ {j}) \cup {StepFailed(g)}
    BY <1>3 DEF EndsStep, Replace
  <2> HIDE DEF g
  <2>4. Same(j, Advanced(g)) /\ Fits(Advanced(g))
    BY <2>2, AdvancedIsSame DEF Same, Fits
  <2>5. Same(j, StepFailed(g)) /\ Fits(StepFailed(g))
    BY <2>2, FailedIsSame DEF Same, Fits
  <2> QED  BY <2>1, <2>3, <2>4, <2>5
<1>4. ASSUME NEW j \in Running, Grow,
             jobs' = (jobs \ {j}) \cup
               {[j EXCEPT !.toks = {[t EXCEPT !.age = @ + 1] : t \in
                                      {u \in @ : u.age < Lifetime}}]}
      PROVE  \E k : /\ j.stage # "over" /\ jobs' = (jobs \ {j}) \cup {k}
                    /\ Same(j, k) /\ Fits(k)
  <2>1. j \in jobs /\ DOMAIN j = Fields /\ Fits(j) /\ j.stage # "over"
    BY DEF Running, TokenInv
  <2> DEFINE old == {[t EXCEPT !.age = @ + 1] : t \in {u \in j.toks : u.age < Lifetime}}
             k   == [j EXCEPT !.toks = old]
  <2>2. \A t \in old : DOMAIN t = {"scope", "kind", "age"} /\ t.age \in Nat
    <3> SUFFICES ASSUME NEW t \in old
                 PROVE  DOMAIN t = {"scope", "kind", "age"} /\ t.age \in Nat
      OBVIOUS
    <3>1. PICK u \in j.toks : t = [u EXCEPT !.age = @ + 1]
      OBVIOUS
    <3>2. DOMAIN u = {"scope", "kind", "age"} /\ u.age + 1 \in Nat
      BY <2>1 DEF Fits
    <3> QED  BY <3>1, <3>2
  <2>3. jobs' = (jobs \ {j}) \cup {k}
    BY <1>4
  <2>4. Same(j, k) /\ Fits(k)
    <3> HIDE DEF old
    <3> QED  BY <2>1, <2>2 DEF Same, Fits, Fields
  <2> HIDE DEF old, k
  <2> QED  BY <2>1, <2>3, <2>4
<1>5. CASE RunStep
  BY <1>1, <1>2, <1>3, <1>5 DEF RunStep
<1>6. CASE Grow
  <2>1. \E j \in Running : jobs' = (jobs \ {j}) \cup
               {[j EXCEPT !.toks = {[t EXCEPT !.age = @ + 1] : t \in
                                      {u \in @ : u.age < Lifetime}}]}
    BY <1>6 DEF Grow, Replace
  <2> QED  BY <1>4, <1>6, <2>1 DEF Running
<1> QED  BY <1>5, <1>6

-----------------------------------------------------------------------------
(* A run begins with no token, and is cancelled without losing one.        *)
LEMMA PageKeepsTokens ==
  ASSUME TokenInv,
         \/ Shutdown
         \/ \E m \in msgs : OnDecided(m)
         \/ jobs' = jobs
  PROVE  TokenInv'
<1>1. CASE Shutdown
  <2>1. ASSUME NEW k \in jobs' PROVE DOMAIN k = Fields /\ Fits(k)
    <3>1. PICK j \in jobs : k = [j EXCEPT !.live = @ /\ j.seq # run.seq]
      BY <1>1, <2>1 DEF Shutdown
    <3> QED  BY <3>1 DEF TokenInv, Fits, Fields
  <2> QED  BY <2>1 DEF TokenInv, Fits
<1>2. ASSUME NEW m \in msgs, OnDecided(m) PROVE TokenInv'
  <2> DEFINE new == NewJob(seq + 1, plan.p, plan.scope, m.shown)
  <2>1. jobs' = jobs \/ jobs' = Running \cup {new}
    BY <1>2 DEF OnDecided
  <2>2. DOMAIN new = Fields /\ Fits(new)
    BY DEF NewJob, Fields, Fits
  <2> HIDE DEF new
  <2> QED  BY <2>1, <2>2 DEF TokenInv, Running, Fits
<1>3. CASE jobs' = jobs
  BY <1>3 DEF TokenInv, Fits
<1> QED  BY <1>1, <1>2, <1>3

LEMMA TokenInvariance ==
  ASSUME SetupJobAssumption
  PROVE  Spec => []TokenInv
<1>1. Init => TokenInv
  BY DEF Init, TokenInv
<1>2. TokenInv /\ [Next]_vars => TokenInv'
  <2> SUFFICES ASSUME TokenInv, [Next]_vars PROVE TokenInv'
    OBVIOUS
  <2>1. CASE RunStep \/ Grow
    <3>1. PICK j \in jobs : \E k : jobs' = (jobs \ {j}) \cup {k} /\ Same(j, k) /\ Fits(k)
      BY <2>1, StepsOfARun
    <3>2. PICK k : jobs' = (jobs \ {j}) \cup {k} /\ Same(j, k) /\ Fits(k)
      BY <3>1
    <3> QED  BY <3>2 DEF TokenInv, Same, Fits
  <2>2. \/ RunStep \/ Grow \/ Shutdown
        \/ \E m \in msgs : OnDecided(m)
        \/ jobs' = jobs
    BY DEF Next, KeyStep, OnMessage, OnGoroutine, JobStep, WorkComes, WorkEnds, Passes, vars,
           MenuKey, MenuChoice, AskFromElsewhere, ModalKey, CloseProgress, LeaveTab, EnterTab,
           OnRequest, OnForm, OnDiscarded, OnPlan, OnProgress, OnDone, Detect
  <2> QED  BY <2>1, <2>2, PageKeepsTokens
<1> QED  BY <1>1, <1>2, PTL DEF Spec

(* The token a command got is one for that runner's place and that kind of *)
(* command and had not run out, for any runners, places and lifetime of    *)
(* tokens, and however the user types.                                     *)
THEOREM TokensFit ==
  ASSUME SetupJobAssumption
  PROVE  Spec => []TokenFits
<1>1. TokenInv => TokenFits
  BY DEF TokenInv, Fits, TokenFits
<1> QED  BY <1>1, TokenInvariance, PTL

-----------------------------------------------------------------------------
(* The stack of modals.                                                    *)
Modals == {"form", "confirm", "discard", "progress"}

LEMMA PushedIsOnTop ==
  ASSUME NEW K, NEW s \in Seq(K), NEW kind \in K
  PROVE  Pushed(s, kind) \in Seq(K) /\ TopOf(Pushed(s, kind)) = kind
<1>1. ASSUME NEW k \in Seq(K)
      PROVE  Append(k, kind) \in Seq(K) /\ TopOf(Append(k, kind)) = kind
  <2>1. PICK x : x = Append(k, kind)
    OBVIOUS
  <2>2. x \in Seq(K) /\ x # <<>> /\ Len(x) = Len(k) + 1 /\ x[Len(k) + 1] = kind
    BY <2>1, AppendProperties
  <2>3. TopOf(x) = kind
    BY <2>2 DEF TopOf
  <2> QED  BY <2>1, <2>2, <2>3
<1> DEFINE at == {i \in DOMAIN s : s[i] = kind}
           i  == CHOOSE i \in at : TRUE
           kept == SubSeq(s, 1, i - 1) \o SubSeq(s, i + 1, Len(s))
<1>2. CASE at = {}
  BY <1>1, <1>2 DEF Pushed
<1>3. CASE at # {}
  <2>1. i \in at
    BY <1>3
  <2> HIDE DEF i
  <2>2. kept \in Seq(K)
    BY <2>1
  <2> HIDE DEF kept
  <2>3. Pushed(s, kind) = Append(kept, kind)
    BY <1>3 DEF Pushed, kept, i
  <2> QED  BY <1>1, <2>2, <2>3
<1> QED  BY <1>2, <1>3

LEMMA ClosedIsStack ==
  ASSUME NEW K, NEW s \in Seq(K)
  PROVE  Closed(s) \in Seq(K)
<1>1. CASE s = <<>>
  BY <1>1 DEF Closed
<1>2. CASE s # <<>>
  BY <1>2 DEF Closed
<1> QED  BY <1>1, <1>2

(* A plan is what it asks for and its units, and nothing else.             *)
IsPlan(p) == p = [kind |-> p.kind, units |-> p.units]

LEMMA PlansArePlans ==
  /\ IsPlan(NoPlan)
  /\ \A view, names : IsPlan(PlanAdd(view, names))
  /\ \A view, targets : IsPlan(PlanRemove(view, targets)) /\ IsPlan(PlanUpdate(view, targets))
  /\ \A names : IsPlan(NewPlan(names))
<1>1. \A k, u : IsPlan([kind |-> k, units |-> u])
  BY DEF IsPlan
<1>2. \A view, names : IsPlan(PlanAdd(view, names))
  BY <1>1 DEF PlanAdd
<1>3. \A view, targets : IsPlan(PlanRemove(view, targets))
  BY <1>1 DEF PlanRemove
<1>4. \A view, targets : IsPlan(PlanUpdate(view, targets))
  BY <1>1 DEF PlanUpdate
<1>5. IsPlan(NoPlan)
  BY <1>1 DEF NoPlan
<1> QED  BY <1>2, <1>3, <1>4, <1>5 DEF NewPlan

(* The page waits as long as the plan it asked for last is being made.     *)
PlansInv ==
  /\ seq \in Nat
  /\ IsPlan(plan.p)
  /\ \A g \in planning : /\ g.seq \in Nat /\ g.seq <= seq /\ IsPlan(g.plan)
                         /\ g.seq = seq => waiting
  /\ \A g, h \in planning : g.seq = h.seq => g = h

(* One key is on its way at a time; while an approval is, no plan is made  *)
(* that could take the place of the one the user looked at.                *)
AskedInv ==
  /\ \A m, n \in msgs : m = n
  /\ \A m \in msgs : m.type = "decided" => m.shown = plan.p /\ ~waiting

(* Nothing can be approved while a run goes on: its progress is on top,    *)
(* requests are refused, and the plan was taken.                           *)
RunInv ==
  /\ stack \in Seq(Modals)
  /\ DOMAIN run = {"seq", "read"}
  /\ run.seq # 0 =>
       /\ Top = "progress" /\ spins /\ ~waiting /\ plan = NoShown
       /\ \A m \in msgs : m.type = "request"

(* There is one run, which is the one the page knows until it is over.     *)
OneRun ==
  /\ \A i, j \in jobs : i = j
  /\ \A j \in jobs :
       /\ j.seq # 0 /\ [kind |-> j.kind, units |-> j.units] = j.asked
       /\ j.stage # "over" /\ ~quit => run.seq = j.seq

PageInv == PlansInv /\ AskedInv /\ RunInv

-----------------------------------------------------------------------------
(* A plan that is asked for while no run goes on and no approval is on its *)
(* way.                                                                    *)
LEMMA AskingKeeps ==
  ASSUME PageInv, NEW p, IsPlan(p), NEW scope, Plans(p, scope),
         run.seq = 0, msgs' \subseteq msgs, \A m \in msgs' : m.type # "decided",
         stack' \in Seq(Modals), UNCHANGED <<plan, run>>
  PROVE  PageInv'
<1> DEFINE g == [seq |-> seq + 1, plan |-> p, scope |-> scope]
<1>1. seq' = seq + 1 /\ waiting' = TRUE /\ planning' = planning \cup {g}
  BY DEF Plans
<1>2. g.seq = seq + 1 /\ g.plan = p
  OBVIOUS
<1> HIDE DEF g
<1>3. PlansInv'
  <2>1. seq' \in Nat /\ IsPlan(plan.p)'
    BY <1>1 DEF PageInv, PlansInv, IsPlan
  <2>2. ASSUME NEW h \in planning'
        PROVE  h.seq \in Nat /\ h.seq <= seq' /\ IsPlan(h.plan)
    BY <1>1, <1>2 DEF PageInv, PlansInv
  <2>3. ASSUME NEW h \in planning', NEW i \in planning', h.seq = i.seq
        PROVE  h = i
    BY <1>1, <1>2, <2>3 DEF PageInv, PlansInv
  <2> QED  BY <1>1, <2>1, <2>2, <2>3 DEF PlansInv, IsPlan
<1>4. AskedInv'
  BY DEF PageInv, AskedInv
<1>5. RunInv'
  BY DEF PageInv, RunInv
<1> QED  BY <1>3, <1>4, <1>5 DEF PageInv

(* What the page is asked to do while no run goes on.                      *)
LEMMA StartKeeps ==
  ASSUME PageInv, NEW op, NEW targets, StartKind(op, targets),
         run.seq = 0, msgs' \subseteq msgs, \A m \in msgs' : m.type # "decided",
         UNCHANGED <<plan, run>>
  PROVE  PageInv'
<1>1. ASSUME UNCHANGED <<seq, waiting, planning>>, stack' \in Seq(Modals) PROVE PageInv'
  BY <1>1 DEF PageInv, PlansInv, AskedInv, RunInv, IsPlan
<1>2. stack \in Seq(Modals) /\ Pushed(stack, "form") \in Seq(Modals)
  BY PushedIsOnTop DEF PageInv, RunInv, Modals
<1>3. CASE StartAdd
  BY <1>1, <1>2, <1>3 DEF StartAdd
<1>4. CASE StartRemove(targets)
  <2>1. PICK p, scope : IsPlan(p) /\ (Plans(p, scope) \/ UNCHANGED <<seq, waiting, planning>>)
    BY <1>4, PlansArePlans DEF StartRemove
  <2> QED  BY <1>1, <1>2, <1>4, <2>1, AskingKeeps DEF StartRemove
<1>5. CASE StartUpdate(targets)
  <2>1. PICK p, scope : IsPlan(p) /\ (Plans(p, scope) \/ UNCHANGED <<seq, waiting, planning>>)
    BY <1>5, PlansArePlans DEF StartUpdate
  <2> QED  BY <1>1, <1>2, <1>5, <2>1, AskingKeeps DEF StartUpdate
<1> QED  BY <1>3, <1>4, <1>5 DEF StartKind

(* Keys wait for the answer to the last one.                               *)
LEMMA KeysKeep ==
  ASSUME ~Hasty, PageInv, KeyStep
  PROVE  PageInv' /\ UNCHANGED <<jobs, run, quit>>
<1>1. UNCHANGED <<jobs, run, quit>>
  BY DEF KeyStep, MenuKey, MenuChoice, AskFromElsewhere, ModalKey, CloseProgress, LeaveTab,
         EnterTab, pageVars
<1>2. stack = <<>> => run.seq = 0
  BY DEF PageInv, RunInv, Top, TopOf
<1>3. ASSUME NEW m, msgs' = msgs \cup {m}, msgs = {}, UNCHANGED <<pageVars, planning>>,
             m.type = "request" \/ run.seq = 0,
             m.type = "decided" => m.shown = plan.p /\ ~waiting
      PROVE  PageInv'
  <2>1. msgs' = {m}
    BY <1>3
  <2> QED  BY <1>3, <2>1 DEF PageInv, PlansInv, AskedInv, RunInv, IsPlan, pageVars, Top
<1>4. CASE MenuKey
  <2>1. msgs' = msgs /\ msgs = {} /\ run.seq = 0 /\ UNCHANGED <<plan, run>>
    BY <1>2, <1>4 DEF MenuKey, Pressed
  <2>2. PICK op \in Kinds : StartKind(op, AllRunners)
    BY <1>4 DEF MenuKey
  <2> QED  BY <1>1, <2>1, <2>2, StartKeeps
<1>5. CASE MenuChoice
  <2>1. msgs = {} /\ UNCHANGED <<pageVars, planning>>
    BY <1>5 DEF MenuChoice, Pressed
  <2>2. PICK op \in Kinds : Ask(op, AllRunners)
    BY <1>5 DEF MenuChoice
  <2> DEFINE m == [type |-> "request", op |-> op, targets |-> AllRunners]
  <2>3. msgs' = msgs \cup {m} /\ m.type = "request"
    BY <2>2 DEF Ask, Send
  <2> HIDE DEF m
  <2> QED  BY <1>1, <1>3, <2>1, <2>3
<1>6. CASE AskFromElsewhere
  <2>1. msgs = {} /\ UNCHANGED <<pageVars, planning>>
    BY <1>6 DEF AskFromElsewhere, Pressed
  <2>2. PICK op \in Kinds, targets \in Selections : Ask(op, targets)
    BY <1>6 DEF AskFromElsewhere
  <2> DEFINE m == [type |-> "request", op |-> op, targets |-> targets]
  <2>3. msgs' = msgs \cup {m} /\ m.type = "request"
    BY <2>2 DEF Ask, Send
  <2> HIDE DEF m
  <2> QED  BY <1>1, <1>3, <2>1, <2>3
<1>7. CASE ModalKey
  <2>1. msgs = {} /\ UNCHANGED <<pageVars, planning>>
    BY <1>7 DEF ModalKey, Pressed
  <2>2. run.seq = 0
    BY <1>7 DEF ModalKey, PageInv, RunInv
  <2>3. CASE Top = "form"
    <3>1. PICK a \in {"done", "aborted", "discard"} :
            Send([type |-> "form", answer |-> a, key |-> keys])
      BY <1>7, <2>3 DEF ModalKey
    <3> DEFINE m == [type |-> "form", answer |-> a, key |-> keys]
    <3>2. msgs' = msgs \cup {m} /\ m.type = "form"
      BY <3>1 DEF Send
    <3> HIDE DEF m
    <3> QED  BY <1>1, <1>3, <2>1, <2>2, <3>2
  <2>4. CASE Top = "discard"
    <3>1. PICK yes \in BOOLEAN : Send([type |-> "discarded", yes |-> yes, key |-> keys])
      BY <1>7, <2>4 DEF ModalKey
    <3> DEFINE m == [type |-> "discarded", yes |-> yes, key |-> keys]
    <3>2. msgs' = msgs \cup {m} /\ m.type = "discarded"
      BY <3>1 DEF Send
    <3> HIDE DEF m
    <3> QED  BY <1>1, <1>3, <2>1, <2>2, <3>2
  <2>5. CASE Top = "confirm"
    <3>1. PICK yes \in BOOLEAN :
            Send([type |-> "decided", yes |-> yes, shown |-> plan.p, key |-> keys])
      BY <1>7, <2>5 DEF ModalKey
    <3>2. ~waiting
      BY <1>7, <2>5 DEF ModalKey, Pressed
    <3> DEFINE m == [type |-> "decided", yes |-> yes, shown |-> plan.p, key |-> keys]
    <3>3. msgs' = msgs \cup {m} /\ m.shown = plan.p
      BY <3>1 DEF Send
    <3> HIDE DEF m
    <3> QED  BY <1>1, <1>3, <2>1, <2>2, <3>2, <3>3
  <2> QED  BY <1>7, <2>3, <2>4, <2>5 DEF ModalKey
<1>8. CASE CloseProgress
  <2>1. stack' = Closed(stack) /\ run.seq = 0
    BY <1>8 DEF CloseProgress, PageInv, RunInv
  <2>2. Closed(stack) \in Seq(Modals)
    BY ClosedIsStack DEF PageInv, RunInv
  <2> QED  BY <1>8, <2>1, <2>2 DEF CloseProgress, PageInv, PlansInv, AskedInv, RunInv, IsPlan
<1>9. CASE LeaveTab \/ EnterTab
  BY <1>9 DEF LeaveTab, EnterTab, PageInv, PlansInv, AskedInv, RunInv, IsPlan, pageVars, Top
<1> QED  BY <1>1, <1>4, <1>5, <1>6, <1>7, <1>8, <1>9 DEF KeyStep

(* An answer other than that to the preview, and a request.                *)
LEMMA AnswersKeep ==
  ASSUME PageInv, NEW m \in msgs, OnRequest(m) \/ OnForm(m) \/ OnDiscarded(m)
  PROVE  PageInv' /\ UNCHANGED <<jobs, run, quit>>
<1>1. UNCHANGED <<jobs, run, quit, plan>> /\ msgs' = {}
  BY DEF OnRequest, OnForm, OnDiscarded, Receive, PageInv, AskedInv
<1>2. /\ Closed(stack) \in Seq(Modals) /\ Closed(Closed(stack)) \in Seq(Modals)
      /\ Pushed(stack, "discard") \in Seq(Modals)
  <2>1. stack \in Seq(Modals)
    BY DEF PageInv, RunInv
  <2>2. Closed(stack) \in Seq(Modals)
    BY <2>1, ClosedIsStack
  <2> QED  BY <2>1, <2>2, ClosedIsStack, PushedIsOnTop DEF Modals
<1>3. ASSUME UNCHANGED <<seq, waiting, planning>>, stack' \in Seq(Modals), run.seq = 0
      PROVE  PageInv'
  BY <1>1, <1>3 DEF PageInv, PlansInv, AskedInv, RunInv, IsPlan
<1>4. CASE OnRequest(m)
  <2>1. CASE run.seq # 0
    BY <1>1, <1>4, <2>1
       DEF OnRequest, PageInv, PlansInv, AskedInv, RunInv, IsPlan, Top
  <2>2. CASE run.seq = 0
    BY <1>1, <1>4, <2>2, StartKeeps DEF OnRequest
  <2> QED  BY <1>1, <2>1, <2>2
<1>5. CASE OnForm(m)
  <2>1. run.seq = 0
    BY <1>5 DEF OnForm, PageInv, RunInv
  <2>2. CASE m.answer = "done"
    <3>1. PICK names, s : Plans(NewPlan(names), s)
      BY <1>5, <2>2 DEF OnForm
    <3>2. stack' = Closed(stack)
      BY <1>5, <2>2 DEF OnForm
    <3>3. PageInv'
      BY <1>1, <1>2, <2>1, <3>1, <3>2, AskingKeeps, PlansArePlans
    <3> QED  BY <1>1, <3>3
  <2>3. CASE m.answer # "done"
    <3>1. UNCHANGED <<seq, waiting, planning>> /\ stack' \in Seq(Modals)
      BY <1>2, <1>5, <2>3 DEF OnForm
    <3> QED  BY <1>1, <1>3, <2>1, <3>1
  <2> QED  BY <2>2, <2>3
<1>6. CASE OnDiscarded(m)
  <2>1. run.seq = 0
    BY <1>6 DEF OnDiscarded, PageInv, RunInv
  <2>2. UNCHANGED <<seq, waiting, planning>> /\ stack' \in Seq(Modals)
    BY <1>2, <1>6 DEF OnDiscarded
  <2> QED  BY <1>1, <1>3, <2>1, <2>2
<1> QED  BY <1>4, <1>5, <1>6

(* The answer to the preview: the plan it shows is the one the answer is   *)
(* about, and no run is left that could go on beside the new one.          *)
LEMMA DecidedKeeps ==
  ASSUME PageInv, OneRun, NEW m \in msgs, OnDecided(m)
  PROVE  PageInv' /\ OneRun'
<1>1. /\ plan' = NoShown /\ msgs' = {} /\ UNCHANGED <<waiting, planning, quit>> /\ ~quit
      /\ m.shown = plan.p /\ ~waiting /\ run.seq = 0
  BY DEF OnDecided, Receive, PageInv, AskedInv, RunInv
<1>2. IsPlan(plan'.p)
  BY <1>1, PlansArePlans DEF NoShown
<1>3. /\ stack \in Seq(Modals) /\ Closed(stack) \in Seq(Modals)
      /\ Pushed(Closed(stack), "progress") \in Seq(Modals)
      /\ TopOf(Pushed(Closed(stack), "progress")) = "progress"
  <2>1. stack \in Seq(Modals)
    BY DEF PageInv, RunInv
  <2>2. Closed(stack) \in Seq(Modals)
    BY <2>1, ClosedIsStack
  <2> QED  BY <2>1, <2>2, PushedIsOnTop DEF Modals
<1>4. AskedInv'
  BY <1>1 DEF AskedInv
<1>5. CASE m.yes /\ plan.p.units # <<>>
  <2> DEFINE new == NewJob(seq + 1, plan.p, plan.scope, m.shown)
  <2>1. /\ seq' = seq + 1 /\ run' = [seq |-> seq + 1, read |-> 0] /\ spins' = TRUE
        /\ jobs' = Running \cup {new} /\ stack' = Pushed(Closed(stack), "progress")
    BY <1>5 DEF OnDecided
  <2>2. Running = {}
    BY <1>1 DEF OneRun, Running
  <2>3. seq \in Nat /\ seq + 1 # 0 /\ new.seq = seq + 1
    BY DEF PageInv, PlansInv, NewJob
  <2>4. [kind |-> new.kind, units |-> new.units] = new.asked
    BY <1>1 DEF NewJob, PageInv, PlansInv, IsPlan
  <2> HIDE DEF new
  <2>5. OneRun'
    BY <2>1, <2>2, <2>3, <2>4 DEF OneRun
  <2>6. PlansInv'
    BY <1>1, <1>2, <2>1 DEF PageInv, PlansInv, IsPlan
  <2>7. RunInv'
    BY <1>1, <1>3, <2>1 DEF RunInv, Top
  <2> QED  BY <1>4, <2>5, <2>6, <2>7 DEF PageInv
<1>6. CASE ~(m.yes /\ plan.p.units # <<>>)
  <2>1. stack' = Closed(stack) /\ UNCHANGED <<seq, run, jobs>>
    BY <1>6 DEF OnDecided
  <2>2. PlansInv'
    BY <1>1, <1>2, <2>1 DEF PageInv, PlansInv, IsPlan
  <2>3. RunInv'
    BY <1>1, <1>3, <2>1 DEF PageInv, RunInv
  <2> QED  BY <1>1, <1>4, <2>1, <2>2, <2>3 DEF OneRun, PageInv
<1> QED  BY <1>5, <1>6

(* A plan that is made, or one that nobody waits for any more.             *)
LEMMA PlanKeeps ==
  ASSUME PageInv, NEW g \in planning, OnPlan(g)
  PROVE  PageInv' /\ UNCHANGED <<jobs, run, quit>>
<1>1. /\ planning' = planning \ {g} /\ UNCHANGED <<jobs, run, quit, seq, msgs>>
      /\ waiting' = (waiting /\ g.seq # seq)
  BY DEF OnPlan, PlanIsCurrent
<1>2. stack \in Seq(Modals) /\ Pushed(stack, "confirm") \in Seq(Modals)
  BY PushedIsOnTop DEF PageInv, RunInv, Modals
<1>3. \A h \in planning' : h \in planning /\ (h.seq = seq => g.seq # seq)
  BY <1>1 DEF PageInv, PlansInv
<1>4. CASE g.seq = seq /\ stack' = Pushed(stack, "confirm")
           /\ plan' = [p |-> g.plan, scope |-> g.scope]
  <2>1. waiting /\ run.seq = 0 /\ \A m \in msgs : m.type # "decided"
    BY <1>4 DEF PageInv, PlansInv, RunInv, AskedInv
  <2>2. PlansInv'
    BY <1>1, <1>3, <1>4 DEF PageInv, PlansInv, IsPlan
  <2>3. AskedInv' /\ RunInv'
    BY <1>1, <1>2, <1>4, <2>1 DEF PageInv, AskedInv, RunInv
  <2> QED  BY <1>1, <2>2, <2>3 DEF PageInv
<1>5. CASE UNCHANGED <<plan, stack>>
  <2>1. PlansInv'
    BY <1>1, <1>3, <1>5 DEF PageInv, PlansInv, IsPlan
  <2>2. AskedInv' /\ RunInv'
    BY <1>1, <1>5 DEF OnPlan, PageInv, AskedInv, RunInv, Top
  <2> QED  BY <1>1, <2>1, <2>2 DEF PageInv
<1> QED  BY <1>4, <1>5 DEF OnPlan, PlanIsCurrent

(* What a run reports, and its end.                                        *)
LEMMA ReportsKeep ==
  ASSUME PageInv, OneRun, NEW j \in jobs, OnProgress(j) \/ OnDone(j)
  PROVE  PageInv' /\ OneRun'
<1>1. /\ stack' = Pushed(stack, "progress")
      /\ UNCHANGED <<jobs, plan, seq, waiting, planning, msgs, quit>>
  BY DEF OnProgress, OnDone
<1>2. Pushed(stack, "progress") \in Seq(Modals) /\ TopOf(Pushed(stack, "progress")) = "progress"
  BY PushedIsOnTop DEF PageInv, RunInv, Modals
<1>3. PlansInv' /\ AskedInv'
  BY <1>1 DEF PageInv, PlansInv, AskedInv, IsPlan
<1>4. CASE OnProgress(j)
  <2>1. run'.seq = run.seq /\ DOMAIN run' = {"seq", "read"} /\ spins' = spins
    BY <1>4 DEF OnProgress, PageInv, RunInv
  <2> QED  BY <1>1, <1>2, <1>3, <2>1 DEF PageInv, RunInv, Top, OneRun
<1>5. CASE OnDone(j)
  <2>1. run' = [seq |-> 0, read |-> 0] /\ j.stage = "over"
    BY <1>5 DEF OnDone, NoRun
  <2> QED  BY <1>1, <1>2, <1>3, <2>1 DEF PageInv, RunInv, OneRun
<1> QED  BY <1>4, <1>5

(* A step of the run, and the end of the program.                          *)
LEMMA RunKeeps ==
  ASSUME SetupJobAssumption, TokenInv, OneRun, RunStep \/ Grow, UNCHANGED <<run, quit>>
  PROVE  OneRun'
<1>1. PICK j \in jobs : \E k : /\ j.stage # "over" /\ jobs' = (jobs \ {j}) \cup {k}
                               /\ Same(j, k)
  BY StepsOfARun
<1>2. PICK k : j.stage # "over" /\ jobs' = (jobs \ {j}) \cup {k} /\ Same(j, k)
  BY <1>1
<1>3. jobs' = {k}
  BY <1>2 DEF OneRun
<1> QED  BY <1>2, <1>3 DEF OneRun, Same

LEMMA ShutdownKeeps ==
  ASSUME TokenInv, PageInv, OneRun, Shutdown
  PROVE  PageInv' /\ OneRun'
<1>1. /\ quit' = TRUE /\ run' = [seq |-> 0, read |-> 0]
      /\ UNCHANGED <<stack, plan, seq, waiting, planning, msgs>>
  BY DEF Shutdown, NoRun
<1>2. PageInv'
  BY <1>1 DEF PageInv, PlansInv, AskedInv, RunInv, IsPlan
<1>3. \A k \in jobs' : \E j \in jobs : k = [j EXCEPT !.live = j.live /\ j.seq # run.seq]
  BY DEF Shutdown
<1>4. \A k \in jobs' : \E j \in jobs : /\ k = [j EXCEPT !.live = j.live /\ j.seq # run.seq]
                                       /\ k.seq = j.seq /\ k.kind = j.kind
                                       /\ k.units = j.units /\ k.asked = j.asked
  BY <1>3 DEF TokenInv, Fields
<1> QED  BY <1>1, <1>2, <1>4 DEF OneRun

-----------------------------------------------------------------------------
(* One run at a time, as long as the keys wait for the answers to those    *)
(* before them.                                                            *)
LEMMA OneRunInvariance ==
  ASSUME SetupJobAssumption, ~Hasty
  PROVE  Spec => [](PageInv /\ OneRun)
<1>1. Init => PageInv /\ OneRun
  <2> SUFFICES ASSUME Init PROVE PageInv /\ OneRun
    OBVIOUS
  <2>1. IsPlan(plan.p)
    BY PlansArePlans DEF Init, NoShown
  <2> QED  BY <2>1 DEF Init, PageInv, PlansInv, AskedInv, RunInv, OneRun, NoRun
<1>2. TokenInv /\ PageInv /\ OneRun /\ [Next]_vars => PageInv' /\ OneRun'
  <2> SUFFICES ASSUME TokenInv, PageInv, OneRun, [Next]_vars
               PROVE  PageInv' /\ OneRun'
    OBVIOUS
  <2>1. ASSUME PageInv', UNCHANGED <<jobs, run, quit>> PROVE PageInv' /\ OneRun'
    BY <2>1 DEF OneRun
  <2>2. ASSUME UNCHANGED <<pageVars, planning, msgs>> PROVE PageInv'
    BY <2>2 DEF PageInv, PlansInv, AskedInv, RunInv, IsPlan, pageVars, Top
  <2>3. CASE KeyStep
    BY <2>1, <2>3, KeysKeep
  <2>4. CASE OnMessage
    BY <2>1, <2>4, AnswersKeep, DecidedKeeps DEF OnMessage
  <2>5. CASE OnGoroutine
    BY <2>1, <2>5, PlanKeeps, ReportsKeep DEF OnGoroutine
  <2>6. CASE JobStep \/ Passes
    <3>1. UNCHANGED <<pageVars, planning, msgs, run, quit>>
      BY <2>6 DEF JobStep, Passes, pageVars
    <3> QED  BY <2>2, <2>6, <3>1, RunKeeps DEF JobStep, Passes
  <2>7. CASE Shutdown
    BY <2>7, ShutdownKeeps
  <2>8. CASE Detect \/ WorkComes \/ WorkEnds \/ UNCHANGED vars
    <3>1. UNCHANGED <<pageVars, planning, msgs, jobs, run, quit>>
      BY <2>8 DEF Detect, WorkComes, WorkEnds, vars, pageVars
    <3> QED  BY <2>1, <2>2, <3>1
  <2> QED  BY <2>3, <2>4, <2>5, <2>6, <2>7, <2>8 DEF Next
<1> QED  BY <1>1, <1>2, TokenInvariance, PTL DEF Spec

(* What runs is the plan the user looked at when answering yes, and one    *)
(* run at a time works on the host, for any runners and plans, as long as  *)
(* the keys wait for the answers to those before them.                     *)
THEOREM ApprovedPlansRunAlone ==
  ASSUME SetupJobAssumption, ~Hasty
  PROVE  Spec => []ApprovedRunsAlone
<1>1. OneRun => ApprovedRunsAlone
  <2> SUFFICES ASSUME OneRun PROVE Cardinality(Running) <= 1
    BY DEF OneRun, ApprovedRunsAlone, ApprovedRuns
  <2>1. CASE Running = {}
    BY <2>1, FS_EmptySet
  <2>2. CASE Running # {}
    <3>1. PICK j \in Running : TRUE
      BY <2>2
    <3>2. Running = {j}
      BY <3>1 DEF OneRun, Running
    <3> QED  BY <3>2, FS_Singleton
  <2> QED  BY <2>1, <2>2
<1> QED  BY <1>1, OneRunInvariance, PTL

-----------------------------------------------------------------------------
(* Plans are lists of the runners asked for, each with steps of its kind.  *)
IsSeq(u) == \E S : u \in Seq(S)

LEMMA ListIsSeq ==
  ASSUME NEW n \in Nat, NEW u, u = [k \in 1 .. n |-> u[k]]
  PROVE  IsSeq(u)
<1> DEFINE S == {u[k] : k \in 1 .. n}
<1>1. u \in [1 .. n -> S]
  OBVIOUS
<1>2. u \in Seq(S)
  BY <1>1
<1> QED  BY <1>2 DEF IsSeq

(* As long as another list.                                                *)
LEMMA MappedIsSeq ==
  ASSUME NEW s, IsSeq(s), NEW u, u = [k \in DOMAIN s |-> u[k]]
  PROVE  IsSeq(u)
<1>1. PICK S : s \in Seq(S)
  BY DEF IsSeq
<1>2. Len(s) \in Nat /\ DOMAIN s = 1 .. Len(s)
  BY <1>1
<1> QED  BY <1>2, ListIsSeq

(* Numbers in ascending order are in order, each once.                     *)
OnceEach(s) == IsSeq(s) /\ \A a, b \in DOMAIN s : s[a] = s[b] => a = b

(* A finite set of numbers has a greatest one.                             *)
LEMMA GreatestOfNumbers ==
  ASSUME NEW S, S \subseteq Nat, IsFiniteSet(S), S # {}
  PROVE  \E m \in S : \A h \in S : h <= m
<1> DEFINE From(a) == {h \in S : a <= h}
           T == {From(a) : a \in S}
           R == StrictSubsetOrdering(S)
<1>1. IsWellFoundedOn(R, SUBSET S)
  BY FS_FiniteSubsetsOfFinite, FS_StrictSubsetOrderingWellFounded
<1>2. T \subseteq SUBSET S /\ T # {}
  OBVIOUS
<1>3. \A A, B \in SUBSET S : A \subseteq B /\ A # B => <<A, B>> \in R
  BY DEF StrictSubsetOrdering
<1> HIDE DEF R, T
<1>4. PICK A \in T : \A B \in T : ~ (<<B, A>> \in R)
  BY <1>1, <1>2, WFMin
<1>5. PICK m \in S : A = From(m)
  BY <1>4 DEF T
<1>6. ASSUME NEW h \in S, m < h PROVE FALSE
  <2>1. From(h) \in T
    BY DEF T
  <2>2. From(h) \subseteq From(m) /\ From(h) # From(m)
    <3>1. m \in Nat /\ h \in Nat /\ m \in From(m) /\ m \notin From(h)
      BY <1>6
    <3>2. \A x \in S : h <= x => m <= x
      <4>1. \A x \in Nat : h <= x => m <= x
        BY <1>6, <3>1
      <4> QED  BY <4>1
    <3>3. From(h) \subseteq From(m)
      BY <3>2
    <3> QED  BY <3>1, <3>3
  <2> HIDE DEF From
  <2> QED  BY <1>2, <1>3, <1>4, <1>5, <2>1, <2>2
<1>7. \A h \in S : h <= m
  BY <1>6
<1> QED  BY <1>7

(* Each place in the order is taken.                                       *)
LEMMA PlacesAreTaken ==
  ASSUME NEW S, S \subseteq Nat, IsFiniteSet(S), NEW k \in 1 .. Cardinality(S)
  PROVE  \E i \in S : Cardinality({h \in S : h < i}) = k - 1
<1> DEFINE Lower == {A \in SUBSET S : /\ Cardinality(A) >= k
                                     /\ \A a \in A, b \in S : b < a => b \in A}
           R == StrictSubsetOrdering(S)
<1>1. IsWellFoundedOn(R, SUBSET S)
  BY FS_FiniteSubsetsOfFinite, FS_StrictSubsetOrderingWellFounded
<1>2. S \in Lower /\ Lower \subseteq SUBSET S
  BY FS_CardinalityType
<1>3. \A A, B \in SUBSET S : A \subseteq B /\ A # B => <<A, B>> \in R
  BY DEF StrictSubsetOrdering
<1> HIDE DEF R
<1>4. PICK A \in Lower : \A B \in Lower : ~ (<<B, A>> \in R)
  <2> HIDE DEF Lower
  <2> QED  BY <1>1, <1>2, WFMin
<1>5. IsFiniteSet(A) /\ Cardinality(A) \in Nat /\ A # {} /\ A \subseteq Nat
  <2>1. A \subseteq S /\ Cardinality(A) >= k
    BY <1>4
  <2>2. IsFiniteSet(A)
    BY <2>1, FS_Subset
  <2>3. Cardinality(A) \in Nat /\ k >= 1
    BY <2>2, FS_CardinalityType
  <2>4. A # {}
    BY <2>1, <2>3, FS_EmptySet
  <2> QED  BY <2>1, <2>2, <2>3, <2>4
<1>6. PICK m \in A : \A h \in A : h <= m
  BY <1>5, GreatestOfNumbers
<1> DEFINE B == A \ {m}
<1>7. Cardinality(B) = Cardinality(A) - 1
  BY <1>5, FS_RemoveElement
<1>8. \A a \in B, b \in S : b < a => b \in B
  <2> SUFFICES ASSUME NEW a \in B, NEW b \in S, b < a PROVE b \in B
    OBVIOUS
  <2>1. a <= m /\ a \in Nat /\ b \in Nat /\ m \in Nat
    BY <1>5, <1>6
  <2> QED  BY <2>1
<1>9. B \notin Lower
  <2>1. B \subseteq A /\ B # A
    OBVIOUS
  <2> HIDE DEF B, Lower
  <2> QED  BY <1>2, <1>3, <1>4, <2>1
<1>10. Cardinality(B) = k - 1
  <2>1. B \subseteq S /\ Cardinality(A) >= k
    BY <1>4
  <2>2. ~ (Cardinality(B) >= k)
    <3> HIDE DEF B
    <3> QED  BY <1>8, <1>9, <2>1
  <2>3. k \in Int /\ Cardinality(A) \in Int
    BY <1>5
  <2> HIDE DEF B
  <2> QED  BY <1>7, <2>1, <2>2, <2>3
<1>11. {h \in S : h < m} = B
  <2>1. A \subseteq S /\ \A b \in S : b < m => b \in A
    BY <1>4
  <2>2. \A h \in S : h < m <=> h <= m /\ h # m
    <3>1. \A x, y \in Nat : x < y <=> x <= y /\ x # y
      OBVIOUS
    <3> QED  BY <1>5, <3>1
  <2> HIDE DEF Lower
  <2> QED  BY <1>6, <2>1, <2>2
<1> QED  BY <1>6, <1>10, <1>11

LEMMA InOrderOnce ==
  ASSUME NEW S, S \subseteq Nat, IsFiniteSet(S)
  PROVE  OnceEach(InOrder(S)) /\ \A k \in DOMAIN InOrder(S) : InOrder(S)[k] \in S
<1>1. Cardinality(S) \in Nat
  BY FS_CardinalityType
<1> DEFINE u == InOrder(S)
           n == Cardinality(S)
           Before(i) == Cardinality({h \in S : h < i})
<1>2. u = [k \in 1 .. n |-> CHOOSE i \in S : Before(i) = k - 1]
  BY DEF InOrder
<1>3. \A k \in 1 .. n : \E i \in S : Before(i) = k - 1
  BY PlacesAreTaken
<1> HIDE DEF u, n, Before
<1>4. DOMAIN u = 1 .. n /\ \A k \in 1 .. n : u[k] \in S /\ Before(u[k]) = k - 1
  BY <1>2, <1>3
<1>5. n \in Nat
  BY <1>1 DEF n
<1>6. IsSeq(u)
  <2>1. u = [k \in 1 .. n |-> u[k]]
    BY <1>2
  <2> QED  BY <1>5, <2>1, ListIsSeq
<1>7. \A a, b \in DOMAIN u : u[a] = u[b] => a = b
  <2> SUFFICES ASSUME NEW a \in 1 .. n, NEW b \in 1 .. n, u[a] = u[b] PROVE a = b
    BY <1>4
  <2>1. a - 1 = b - 1
    BY <1>4
  <2> QED  BY <1>5, <2>1
<1> QED  BY <1>4, <1>6, <1>7 DEF OnceEach, u

LEMMA AllRunnersOnce ==
  ASSUME SetupJobAssumption
  PROVE  OnceEach(AllRunners)
<1>1. IsFiniteSet(1 .. MaxId) /\ 1 .. MaxId \subseteq Nat
  BY FS_Interval DEF SetupJobAssumption
<1>2. IsFiniteSet(Listed) /\ Listed \subseteq Nat
  BY <1>1, FS_Subset DEF Listed, Ids
<1> QED  BY <1>2, InOrderOnce DEF AllRunners

(* The steps a plan may have for a runner.                                 *)
StepsOf(kind) ==
  CASE kind = "add"    -> {AddSteps}
    [] kind = "remove" -> {<<"stop", "uninstall", "remove">>, <<"remove">>}
    [] kind = "update" -> {<<"drain", "unpack", "start">>, <<"unpack">>}
    [] OTHER           -> {}

PlanFits(p) ==
  /\ IsSeq(p.units)
  /\ \A k \in DOMAIN p.units : p.units[k].steps \in StepsOf(p.kind)
  /\ p.kind = "update" => \A a, b \in DOMAIN p.units : p.units[a].id = p.units[b].id => a = b

LEMMA PlansFit ==
  /\ PlanFits(NoPlan)
  /\ \A view, names : IsSeq(names) => PlanFits(PlanAdd(view, names))
  /\ \A view, targets : OnceEach(targets) => /\ PlanFits(PlanRemove(view, targets))
                                             /\ PlanFits(PlanUpdate(view, targets))
  /\ \A names \in NamesAsked : PlanFits(NewPlan(names))
<1>1. PlanFits(NoPlan)
  <2>1. NoPlan.units = <<>> /\ <<>> \in Seq({}) /\ NoPlan.kind = "none"
    BY DEF NoPlan
  <2>2. DOMAIN NoPlan.units = {}
    BY <2>1
  <2> QED  BY <2>1, <2>2 DEF PlanFits, IsSeq
<1>2. ASSUME NEW view, NEW names, IsSeq(names) PROVE PlanFits(PlanAdd(view, names))
  <2> DEFINE p == PlanAdd(view, names)
             u == p.units
  <2>1. /\ p.kind = "add" /\ u = [k \in DOMAIN names |-> u[k]]
        /\ \A k \in DOMAIN names : u[k].steps = AddSteps
    BY DEF PlanAdd, Unit
  <2>2. u = p.units
    OBVIOUS
  <2> HIDE DEF p, u
  <2>3. IsSeq(u) /\ DOMAIN u = DOMAIN names
    BY <1>2, <2>1, MappedIsSeq
  <2>4. PlanFits(p)
    BY <2>1, <2>2, <2>3 DEF PlanFits, StepsOf
  <2> QED  BY <2>4 DEF p
<1>3. ASSUME NEW view, NEW targets, OnceEach(targets) PROVE PlanFits(PlanRemove(view, targets))
  <2> DEFINE p == PlanRemove(view, targets)
             u == p.units
  <2>1. /\ p.kind = "remove" /\ u = [k \in DOMAIN targets |-> u[k]]
        /\ \A k \in DOMAIN targets : u[k].steps = RemoveSteps(view[targets[k]])
    BY DEF PlanRemove, Unit
  <2>2. u = p.units
    OBVIOUS
  <2> HIDE DEF p, u
  <2>3. IsSeq(u) /\ DOMAIN u = DOMAIN targets
    BY <1>3, <2>1, MappedIsSeq DEF OnceEach
  <2>4. \A v : RemoveSteps(v) \in StepsOf("remove")
    BY DEF RemoveSteps, StepsOf
  <2>5. PlanFits(p)
    BY <2>1, <2>2, <2>3, <2>4 DEF PlanFits
  <2> QED  BY <2>5 DEF p
<1>4. ASSUME NEW view, NEW targets, OnceEach(targets) PROVE PlanFits(PlanUpdate(view, targets))
  <2> DEFINE those == {k \in DOMAIN targets : Updatable(view[targets[k]])}
             able  == InOrder(those)
             p     == PlanUpdate(view, targets)
             u     == p.units
  <2>1. OnceEach(able) /\ \A k \in DOMAIN able : able[k] \in DOMAIN targets
    <3>1. PICK S : targets \in Seq(S)
      BY <1>4 DEF OnceEach, IsSeq
    <3>2. Len(targets) \in Nat /\ DOMAIN targets = 1 .. Len(targets)
      BY <3>1
    <3>3. IsFiniteSet(DOMAIN targets) /\ DOMAIN targets \subseteq Nat
      BY <3>2, FS_Interval
    <3>4. IsFiniteSet(those) /\ those \subseteq DOMAIN targets
      BY <3>3, FS_Subset
    <3> HIDE DEF those
    <3> QED  BY <3>3, <3>4, InOrderOnce
  <2>2. /\ p.kind = "update" /\ u = [k \in DOMAIN able |-> u[k]]
        /\ \A k \in DOMAIN able : /\ u[k].id = targets[able[k]]
                                  /\ u[k].steps = UpdateSteps(view[targets[able[k]]])
    BY DEF PlanUpdate, Unit
  <2>3. u = p.units
    OBVIOUS
  <2> HIDE DEF p, u, able
  <2>4. IsSeq(u) /\ DOMAIN u = DOMAIN able
    BY <2>1, <2>2, MappedIsSeq DEF OnceEach
  <2>5. \A v : UpdateSteps(v) \in StepsOf("update")
    BY DEF UpdateSteps, StepsOf
  <2>6. \A a, b \in DOMAIN u : u[a].id = u[b].id => a = b
    BY <1>4, <2>1, <2>2, <2>4 DEF OnceEach
  <2>7. PlanFits(p)
    BY <2>2, <2>3, <2>4, <2>5, <2>6 DEF PlanFits
  <2> QED  BY <2>7 DEF p
<1>5. ASSUME NEW names \in NamesAsked PROVE PlanFits(NewPlan(names))
  <2>1. \A n : <<n>> \in Seq({n}) /\ <<n, n + 1>> \in Seq({n, n + 1})
    OBVIOUS
  <2>2. IsSeq(names)
    BY <2>1 DEF NamesAsked, IsSeq
  <2> QED  BY <1>1, <1>2, <2>2 DEF NewPlan
<1> QED  BY <1>1, <1>2, <1>3, <1>4, <1>5

(* Every plan that is made or shown fits, and requests name no runner      *)
(* twice.                                                                  *)
ListsInv ==
  /\ PlanFits(plan.p)
  /\ \A g \in planning : PlanFits(g.plan)
  /\ \A m \in msgs : m.type = "request" => OnceEach(m.targets)

LEMMA StartKeepsLists ==
  ASSUME ListsInv, NEW op, NEW targets, OnceEach(targets), StartKind(op, targets)
  PROVE  \A g \in planning' : PlanFits(g.plan)
<1>1. ASSUME NEW p, NEW scope, PlanFits(p), Plans(p, scope)
      PROVE  \A g \in planning' : PlanFits(g.plan)
  BY <1>1 DEF Plans, ListsInv
<1>2. PlanFits(PlanRemove(seen, targets)) /\ PlanFits(PlanUpdate(seen, targets))
  BY PlansFit
<1> QED  BY <1>1, <1>2 DEF StartKind, StartAdd, StartRemove, StartUpdate, ListsInv

LEMMA ListsInvariance ==
  ASSUME SetupJobAssumption, SetupTabAssumption
  PROVE  Spec => []ListsInv
<1>1. Init => ListsInv
  BY PlansFit DEF Init, ListsInv, NoShown
<1>2. ListsInv /\ [Next]_vars => ListsInv'
  <2> SUFFICES ASSUME ListsInv, [Next]_vars PROVE ListsInv'
    OBVIOUS
  <2>1. ASSUME UNCHANGED plan, UNCHANGED planning \/ (\A g \in planning' : PlanFits(g.plan)),
               \A m \in msgs' \ msgs : m.type = "request" => OnceEach(m.targets)
        PROVE  ListsInv'
    BY <2>1 DEF ListsInv
  <2>2. CASE MenuKey
    <3>1. PICK op \in Kinds : StartKind(op, AllRunners)
      BY <2>2 DEF MenuKey
    <3> QED  BY <2>1, <2>2, <3>1, StartKeepsLists, AllRunnersOnce DEF MenuKey
  <2>3. CASE MenuChoice \/ AskFromElsewhere
    <3>1. \E op, targets : OnceEach(targets) /\ Ask(op, targets)
      BY <2>3, AllRunnersOnce DEF MenuChoice, AskFromElsewhere, SetupTabAssumption, OnceEach,
                                    IsSeq
    <3>2. PICK op, targets : OnceEach(targets) /\ Ask(op, targets)
      BY <3>1
    <3> DEFINE m == [type |-> "request", op |-> op, targets |-> targets]
    <3>3. msgs' = msgs \cup {m} /\ m.targets = targets
      BY <3>2 DEF Ask, Send
    <3> HIDE DEF m
    <3> QED  BY <2>1, <2>3, <3>2, <3>3 DEF MenuChoice, AskFromElsewhere, pageVars
  <2>4. CASE ModalKey
    <3>1. UNCHANGED <<plan, planning>> /\ \A m \in msgs' \ msgs : m.type # "request"
      BY <2>4 DEF ModalKey, Send, pageVars
    <3> QED  BY <2>1, <3>1
  <2>5. ASSUME NEW m \in msgs, OnRequest(m) PROVE ListsInv'
    <3>1. CASE run.seq # 0
      BY <2>1, <2>5, <3>1 DEF OnRequest, Receive
    <3>2. CASE run.seq = 0
      <4>1. OnceEach(m.targets) /\ StartKind(m.op, m.targets)
        BY <2>5, <3>2 DEF OnRequest, Receive, ListsInv
      <4> QED  BY <2>1, <2>5, <4>1, StartKeepsLists DEF OnRequest, Receive
    <3> QED  BY <3>1, <3>2
  <2>6. ASSUME NEW m \in msgs, OnForm(m) PROVE ListsInv'
    <3>1. UNCHANGED plan /\ msgs' \subseteq msgs
      BY <2>6 DEF OnForm, Receive
    <3>2. CASE m.answer = "done"
      <4>1. PICK names \in NamesAsked : \E s \in Scopes : Plans(NewPlan(names), s)
        BY <2>6, <3>2 DEF OnForm
      <4>2. \A g \in planning' : PlanFits(g.plan)
        BY <4>1, PlansFit DEF Plans, ListsInv
      <4> QED  BY <2>1, <3>1, <4>2
    <3>3. CASE m.answer # "done"
      BY <2>1, <2>6, <3>1, <3>3 DEF OnForm
    <3> QED  BY <3>2, <3>3
  <2>7. ASSUME NEW m \in msgs, OnDecided(m) PROVE ListsInv'
    BY <2>7, PlansFit DEF OnDecided, Receive, ListsInv, NoShown
  <2>8. ASSUME NEW g \in planning, OnPlan(g) PROVE ListsInv'
    BY <2>8 DEF OnPlan, ListsInv
  <2>9. CASE \/ CloseProgress \/ LeaveTab \/ EnterTab
             \/ \E m \in msgs : OnDiscarded(m)
             \/ \E j \in jobs : OnProgress(j) \/ OnDone(j)
             \/ JobStep \/ Shutdown \/ Detect \/ WorkComes \/ WorkEnds \/ Passes
             \/ UNCHANGED vars
    <3>1. UNCHANGED <<plan, planning>> /\ msgs' \subseteq msgs
      BY <2>9 DEF CloseProgress, LeaveTab, EnterTab, OnDiscarded, Receive, OnProgress, OnDone,
                  JobStep, Shutdown, Detect, WorkComes, WorkEnds, Passes, vars, pageVars
    <3> QED  BY <2>1, <3>1
  <2> QED  BY <2>2, <2>3, <2>4, <2>5, <2>6, <2>7, <2>8, <2>9
           DEF Next, KeyStep, OnMessage, OnGoroutine
<1> QED  BY <1>1, <1>2, PTL DEF Spec

-----------------------------------------------------------------------------
(* What a run has of a Batch.                                              *)
Deal(j) ==
  [todo  |-> IF j.stage = "over" THEN j.rest ELSE RestFrom(j, j.at),
   done  |-> j.ok,
   bad   |-> j.bad,
   phase |-> IF j.stage = "over" THEN "over" ELSE "running"]

(* The steps of a Batch.                                                   *)
Moves(d, e) ==
  \/ e = d
  \/ /\ d.phase # "running" /\ e.phase = "running" /\ e.todo # <<>>
     /\ e.done = <<>> /\ e.bad = <<>>
  \/ /\ d.phase = "running" /\ d.todo # <<>> /\ e.todo = Tail(d.todo)
     /\ e.done = Append(d.done, Head(d.todo)) /\ e.bad = d.bad /\ e.phase = d.phase
  \/ /\ d.phase = "running" /\ d.todo # <<>> /\ e.todo = Tail(d.todo)
     /\ e.bad = Append(d.bad, Head(d.todo)) /\ e.done = d.done /\ e.phase = "over"
  \/ /\ d.phase = "running" /\ e.phase = "over"
     /\ e.todo = d.todo /\ e.done = d.done /\ e.bad = d.bad

(* Up to its end nothing of a run failed; before its first unit everything *)
(* remains; a step is begun in a unit of the plan.                         *)
Deals(j) ==
  /\ j.seq \in Nat /\ IsSeq(j.units) /\ j.at \in Nat \ {0}
  /\ j.stage \in {"client", "tarball"} => j.rest = RestFrom(j, j.at)
  /\ j.stage # "over" => j.bad = <<>>
  /\ j.begun => j.at <= Len(j.units)

DealsInv == \A j \in jobs : Deals(j)

(* The units from one on are that unit and those behind it.                *)
LEMMA RestIsList ==
  ASSUME NEW j, IsSeq(j.units), NEW k \in Nat \ {0}
  PROVE  /\ RestFrom(j, 1) = NamesOf(j.units)
         /\ k <= Len(j.units) => /\ RestFrom(j, k) # <<>>
                                 /\ Head(RestFrom(j, k)) = j.units[k].id
                                 /\ Tail(RestFrom(j, k)) = RestFrom(j, k + 1)
<1> DEFINE u == j.units
           n == Len(u)
<1>1. PICK S : u \in Seq(S)
  BY DEF IsSeq
<1>2. n \in Nat /\ DOMAIN u = 1 .. n
  BY <1>1
<1> HIDE DEF u
<1>3. ASSUME NEW i \in Nat \ {0}, i <= n + 1
      PROVE  RestFrom(j, i) = [h \in 1 .. n - i + 1 |-> u[h + i - 1].id]
  <2> DEFINE s == SubSeq(u, i, n)
  <2>1. Len(s) = n - i + 1 /\ s \in Seq(S) /\ \A h \in 1 .. n - i + 1 : s[h] = u[h + i - 1]
    BY <1>1, <1>2, <1>3
  <2>2. DOMAIN s = 1 .. n - i + 1
    BY <2>1
  <2>3. RestFrom(j, i) = [h \in DOMAIN s |-> s[h].id]
    BY DEF RestFrom, NamesOf, u
  <2> HIDE DEF s, n
  <2> QED  BY <2>1, <2>2, <2>3
<1>4. RestFrom(j, 1) = NamesOf(u)
  <2>1. RestFrom(j, 1) = [h \in 1 .. n - 1 + 1 |-> u[h + 1 - 1].id]
    BY <1>2, <1>3
  <2>2. n - 1 + 1 = n /\ \A h \in 1 .. n : h + 1 - 1 = h
    BY <1>2
  <2> QED  BY <1>2, <2>1, <2>2 DEF NamesOf
<1>5. ASSUME k <= n
      PROVE  /\ RestFrom(j, k) # <<>> /\ Head(RestFrom(j, k)) = u[k].id
             /\ Tail(RestFrom(j, k)) = RestFrom(j, k + 1)
  <2> DEFINE r == RestFrom(j, k)
             T == {u[h].id : h \in 1 .. n}
  <2>1. r = [h \in 1 .. n - k + 1 |-> u[h + k - 1].id]
    BY <1>3, <1>5
  <2>2. RestFrom(j, k + 1) = [h \in 1 .. n - (k + 1) + 1 |-> u[h + (k + 1) - 1].id]
    <3>1. k + 1 \in Nat \ {0} /\ k + 1 <= n + 1
      BY <1>2, <1>5
    <3> HIDE DEF n
    <3> QED  BY <1>3, <3>1
  <2>3. n - k + 1 \in Nat \ {0} /\ n - (k + 1) + 1 = n - k + 1 - 1
    BY <1>2, <1>5
  <2>4. r \in [1 .. n - k + 1 -> T]
    <3>1. \A h \in 1 .. n - k + 1 : h + k - 1 \in 1 .. n
      BY <1>2, <1>5
    <3> HIDE DEF n
    <3> QED  BY <2>1, <3>1
  <2> HIDE DEF r, T, n
  <2>5. r \in Seq(T) /\ Len(r) = n - k + 1
    BY <2>3, <2>4
  <2>6. r # <<>> /\ Head(r) = r[1]
    BY <2>3, <2>5
  <2>7. r[1] = u[k].id
    BY <2>1, <2>3
  <2>8. \A h \in 1 .. Len(r) - 1 : r[h + 1] = u[h + (k + 1) - 1].id
    <3>1. \A h \in 1 .. Len(r) - 1 : h + 1 \in 1 .. n - k + 1 /\ h + 1 + k - 1 = h + (k + 1) - 1
      BY <2>3, <2>5
    <3> QED  BY <2>1, <3>1
  <2>9. Tail(r) = RestFrom(j, k + 1)
    <3>1. /\ Tail(r) \in Seq(T) /\ Len(Tail(r)) = Len(r) - 1
          /\ \A h \in 1 .. Len(r) - 1 : Tail(r)[h] = r[h + 1]
      BY <2>3, <2>5, <2>6
    <3> DEFINE t == Tail(r)
               m == Len(r) - 1
    <3>2. m \in Nat /\ m = n - (k + 1) + 1
      BY <1>2, <2>3, <2>5
    <3> HIDE DEF t, m
    <3>3. t \in Seq(T) /\ Len(t) = m
      BY <3>1 DEF t, m
    <3>4. t = [h \in 1 .. m |-> t[h]]
      BY <3>2, <3>3
    <3>5. \A h \in 1 .. m : t[h] = u[h + (k + 1) - 1].id
      BY <2>8, <3>1 DEF t, m
    <3>6. t = [h \in 1 .. m |-> u[h + (k + 1) - 1].id]
      BY <3>4, <3>5
    <3>7. RestFrom(j, k + 1) = [h \in 1 .. m |-> u[h + (k + 1) - 1].id]
      BY <2>2, <3>2
    <3> QED  BY <3>6, <3>7 DEF t
  <2> QED  BY <2>6, <2>7, <2>9 DEF r
<1> QED  BY <1>4, <1>5 DEF u

(* What is reported, and a token that is given, leave a run where it is.   *)
Kept(j, k) ==
  /\ Same(j, k) /\ k.stage = j.stage /\ k.at = j.at /\ k.step = j.step /\ k.begun = j.begun
  /\ k.ok = j.ok /\ k.bad = j.bad /\ k.rest = j.rest

LEMMA KeptIsDealt ==
  ASSUME NEW j, NEW k, Kept(j, k), Deals(j)
  PROVE  Deals(k) /\ Moves(Deal(j), Deal(k))
<1>1. \A n : RestFrom(k, n) = RestFrom(j, n)
  BY DEF RestFrom, Kept, Same
<1>2. Deal(k) = Deal(j)
  BY <1>1 DEF Deal, Kept
<1>3. Deals(k)
  BY <1>1 DEF Deals, Kept, Same
<1> QED  BY <1>2, <1>3 DEF Moves

LEMMA ToldIsKept ==
  ASSUME NEW j, DOMAIN j = Fields, NEW i, NEW what
  PROVE  Kept(j, Told(j, i, what))
BY DEF Told, Kept, Same, Fields

LEMMA GivenIsKept ==
  ASSUME NEW j, DOMAIN j = Fields
  PROVE  Kept(j, Given(j))
<1>1. \A t, u : Kept(j, [j EXCEPT !.toks = t, !.used = u])
  BY DEF Kept, Same, Fields
<1>2. Kept(j, j)
  BY DEF Kept, Same
<1> QED  BY <1>1, <1>2 DEF Given, GivesToken

(* The end of a run at a unit that failed, and the end of a step.          *)
LEMMA FailedFields ==
  ASSUME NEW j, DOMAIN j = Fields
  PROVE  LET k == StepFailed(j)
         IN  /\ Same(j, k) /\ k.stage = "over" /\ k.at = j.at /\ k.ok = j.ok
             /\ k.begun = j.begun /\ k.step = j.step
             /\ k.bad = <<j.units[j.at].id>> /\ k.rest = RestFrom(j, j.at + 1)
<1> DEFINE told == Told(j, j.at, "failed")
           k    == StepFailed(j)
<1>1. Kept(j, told)
  BY ToldIsKept
<1>2. \A b, r : LET h == [told EXCEPT !.stage = "over", !.toks = {}, !.bad = b, !.rest = r]
                IN  /\ Same(told, h) /\ h.stage = "over" /\ h.at = told.at /\ h.ok = told.ok
                    /\ h.begun = told.begun /\ h.step = told.step /\ h.bad = b /\ h.rest = r
  <2> HIDE DEF told
  <2> QED  BY <1>1 DEF Kept, Same, Fields
<1>3. k = [told EXCEPT !.stage = "over", !.toks = {}, !.bad = <<UnitAt(j).id>>,
                       !.rest = RestFrom(j, j.at + 1)]
  BY DEF StepFailed
<1> HIDE DEF told, k
<1>4. /\ Same(j, k) /\ k.stage = "over" /\ k.at = j.at /\ k.ok = j.ok
      /\ k.begun = j.begun /\ k.step = j.step
      /\ k.bad = <<j.units[j.at].id>> /\ k.rest = RestFrom(j, j.at + 1)
  BY <1>1, <1>2, <1>3 DEF Kept, Same, UnitAt
<1> QED  BY <1>4 DEF k

LEMMA AdvancedFields ==
  ASSUME NEW j, DOMAIN j = Fields
  PROVE  LET k == Advanced(j)
         IN  /\ Same(j, k) /\ k.stage = j.stage /\ k.bad = j.bad /\ ~k.begun
             /\ IF LastStep(j)
                THEN k.at = j.at + 1 /\ k.step = 1 /\ k.ok = Append(j.ok, j.units[j.at].id)
                ELSE k.at = j.at /\ k.step = j.step + 1 /\ k.ok = j.ok
<1> DEFINE told == Told(j, j.at, "done")
           k    == Advanced(j)
<1>1. Kept(j, told)
  BY ToldIsKept
<1>2. CASE LastStep(j)
  <2>1. k = [told EXCEPT !.begun = FALSE, !.step = 1, !.at = @ + 1,
                         !.ok = Append(@, UnitAt(j).id)]
    BY <1>2 DEF Advanced
  <2> HIDE DEF told, k
  <2>2. /\ Same(j, k) /\ k.stage = j.stage /\ k.at = j.at + 1 /\ k.step = 1 /\ k.bad = j.bad
        /\ k.ok = Append(j.ok, j.units[j.at].id) /\ ~k.begun
    BY <1>1, <2>1 DEF Kept, Same, Fields, UnitAt
  <2> QED  BY <1>2, <2>2 DEF k
<1>3. CASE ~LastStep(j)
  <2>1. k = [j EXCEPT !.begun = FALSE, !.step = @ + 1]
    BY <1>3 DEF Advanced
  <2> HIDE DEF k
  <2>2. /\ Same(j, k) /\ k.stage = j.stage /\ k.at = j.at /\ k.step = j.step + 1
        /\ k.bad = j.bad /\ k.ok = j.ok /\ ~k.begun
    BY <2>1 DEF Same, Fields
  <2> QED  BY <1>3, <2>2 DEF k
<1> QED  BY <1>2, <1>3

(* A unit that failed is the last, and it was the first of those left.     *)
LEMMA FailedIsDealt ==
  ASSUME NEW j, DOMAIN j = Fields, Deals(j), j.stage = "units", j.at <= Len(j.units)
  PROVE  Deals(StepFailed(j)) /\ Moves(Deal(j), Deal(StepFailed(j)))
<1> DEFINE k == StepFailed(j)
<1>1. /\ Same(j, k) /\ k.stage = "over" /\ k.at = j.at /\ k.ok = j.ok /\ k.begun = j.begun
      /\ k.bad = <<j.units[j.at].id>> /\ k.rest = RestFrom(j, j.at + 1)
  BY FailedFields
<1> HIDE DEF k
<1>2. Deals(k)
  BY <1>1 DEF Deals, Same
<1>3. Moves(Deal(j), Deal(k))
  <2>1. RestFrom(j, j.at) # <<>> /\ Head(RestFrom(j, j.at)) = j.units[j.at].id
        /\ Tail(RestFrom(j, j.at)) = RestFrom(j, j.at + 1)
    BY RestIsList DEF Deals
  <2>2. Append(j.bad, j.units[j.at].id) = <<j.units[j.at].id>>
    <3>1. \A x : Append(<<>>, x) = <<x>>
      OBVIOUS
    <3> QED  BY <3>1 DEF Deals
  <2> QED  BY <1>1, <2>1, <2>2 DEF Moves, Deal
<1> QED  BY <1>2, <1>3 DEF k

(* The last step of a unit deals with it.                                  *)
LEMMA AdvancedIsDealt ==
  ASSUME NEW j, DOMAIN j = Fields, Deals(j), j.stage = "units", j.at <= Len(j.units)
  PROVE  Deals(Advanced(j)) /\ Moves(Deal(j), Deal(Advanced(j)))
<1> DEFINE k == Advanced(j)
<1>1. /\ Same(j, k) /\ k.stage = "units" /\ k.bad = j.bad /\ ~k.begun
      /\ IF LastStep(j) THEN k.at = j.at + 1 /\ k.ok = Append(j.ok, j.units[j.at].id)
                        ELSE k.at = j.at /\ k.ok = j.ok
  BY AdvancedFields
<1> HIDE DEF k
<1>2. \A n : RestFrom(k, n) = RestFrom(j, n)
  BY <1>1 DEF RestFrom, Same
<1>3. Deals(k)
  BY <1>1 DEF Deals, Same
<1>4. CASE LastStep(j)
  <2>1. RestFrom(j, j.at) # <<>> /\ Head(RestFrom(j, j.at)) = j.units[j.at].id
        /\ Tail(RestFrom(j, j.at)) = RestFrom(j, j.at + 1)
    BY RestIsList DEF Deals
  <2>2. Moves(Deal(j), Deal(k))
    BY <1>1, <1>2, <1>4, <2>1 DEF Moves, Deal
  <2> QED  BY <1>3, <2>2 DEF k
<1>5. CASE ~LastStep(j)
  <2>1. Deal(k) = Deal(j)
    BY <1>1, <1>2, <1>5 DEF Deal
  <2> QED  BY <1>3, <2>1 DEF Moves, k
<1> QED  BY <1>4, <1>5

(* A step of a run, or time going by, is a step of a Batch or none.        *)
LEMMA StepsAreDealt ==
  ASSUME TokenInv, DealsInv, RunStep \/ Grow
  PROVE  \E j \in jobs : \E k : /\ jobs' = (jobs \ {j}) \cup {k}
                                /\ Deals(k) /\ Moves(Deal(j), Deal(k))
<1>1. ASSUME NEW j \in jobs, GetsClient(j) \/ GetsTarball(j)
      PROVE  \E k : Replace(j, k) /\ Deals(k) /\ Moves(Deal(j), Deal(k))
  <2>1. DOMAIN j = Fields /\ Deals(j) /\ j.stage \in {"client", "tarball"}
    BY <1>1 DEF TokenInv, DealsInv, GetsClient, GetsTarball
  <2> DEFINE at(s) == [j EXCEPT !.stage = s]
             Good(k) == Deals(k) /\ Moves(Deal(j), Deal(k))
  <2>2. \A s : DOMAIN at(s) = Fields /\ at(s).stage = s /\ Same(j, at(s)) /\ at(s).at = j.at
               /\ at(s).begun = j.begun /\ at(s).ok = j.ok /\ at(s).bad = j.bad
               /\ at(s).rest = j.rest
    BY <2>1 DEF Same, Fields
  <2>3. \A s, n : RestFrom(at(s), n) = RestFrom(j, n)
    <3> HIDE DEF at
    <3> QED  BY <2>2 DEF RestFrom, Same
  <2>4. \A s \in {"tarball", "units", "over"} : Good(at(s))
    <3> HIDE DEF at
    <3>1. ASSUME NEW s \in {"tarball", "units", "over"} PROVE Deals(at(s))
      BY <2>1, <2>2, <2>3 DEF Deals, Same
    <3>2. ASSUME NEW s \in {"tarball", "units"} PROVE Deal(at(s)) = Deal(j)
      BY <2>1, <2>2, <2>3 DEF Deal
    <3>3. Moves(Deal(j), Deal(at("over")))
      BY <2>1, <2>2, <2>3 DEF Deals, Deal, Moves
    <3> QED  BY <3>1, <3>2, <3>3 DEF Moves
  <2>5. Good(Told(at("tarball"), 0, "prep"))
    <3> DEFINE i == at("tarball")
    <3>1. DOMAIN i = Fields /\ Deals(i) /\ Deal(i) = Deal(j)
      <4> HIDE DEF at
      <4> QED  BY <2>1, <2>2, <2>3, <2>4 DEF Deal
    <3> HIDE DEF i
    <3>2. Deals(Told(i, 0, "prep")) /\ Moves(Deal(i), Deal(Told(i, 0, "prep")))
      BY <3>1, ToldIsKept, KeptIsDealt
    <3> QED  BY <3>1, <3>2 DEF i
  <2>6. \/ Replace(j, Told(at("tarball"), 0, "prep"))
        \/ Replace(j, at("units")) \/ Replace(j, at("over"))
    BY <1>1 DEF GetsClient, GetsTarball, FailedEarly
  <2> HIDE DEF at, Good
  <2>7. \E k : Replace(j, k) /\ Good(k)
    BY <2>4, <2>5, <2>6
  <2> QED  BY <2>7 DEF Good
<1>2. ASSUME NEW j \in jobs, StopsBetweenUnits(j)
      PROVE  \E k : Replace(j, k) /\ Deals(k) /\ Moves(Deal(j), Deal(k))
  <2>1. DOMAIN j = Fields /\ Deals(j) /\ j.stage = "units"
    BY <1>2 DEF TokenInv, DealsInv, StopsBetweenUnits
  <2> DEFINE k == [j EXCEPT !.stage = "over", !.rest = RestFrom(j, j.at), !.toks = {}]
  <2>2. /\ Same(j, k) /\ k.stage = "over" /\ k.at = j.at /\ k.begun = j.begun /\ k.ok = j.ok
        /\ k.bad = j.bad /\ k.rest = RestFrom(j, j.at)
    BY <2>1 DEF Same, Fields
  <2>3. Replace(j, k)
    BY <1>2 DEF StopsBetweenUnits
  <2> HIDE DEF k
  <2>4. Deals(k)
    BY <2>1, <2>2 DEF Deals, Same
  <2>5. Moves(Deal(j), Deal(k))
    BY <2>1, <2>2 DEF Deal, Moves
  <2> QED  BY <2>3, <2>4, <2>5
<1>3. ASSUME NEW j \in jobs, BeginsStep(j)
      PROVE  \E k : Replace(j, k) /\ Deals(k) /\ Moves(Deal(j), Deal(k))
  <2>1. DOMAIN j = Fields /\ Deals(j) /\ j.stage = "units" /\ j.at <= Len(j.units)
    BY <1>3 DEF TokenInv, DealsInv, BeginsStep
  <2> DEFINE told == Told(j, j.at, "run")
             k    == [told EXCEPT !.begun = TRUE]
  <2>2. Kept(j, told)
    BY <2>1, ToldIsKept
  <2>3. /\ Same(j, k) /\ k.stage = j.stage /\ k.at = j.at /\ k.begun /\ k.ok = j.ok
        /\ k.bad = j.bad /\ k.rest = j.rest
    <3> HIDE DEF told
    <3> QED  BY <2>2 DEF Kept, Same, Fields
  <2>4. Replace(j, k) \/ Replace(j, StepFailed(j))
    BY <1>3 DEF BeginsStep
  <2> HIDE DEF k
  <2>5. \A n : RestFrom(k, n) = RestFrom(j, n)
    BY <2>3 DEF RestFrom, Same
  <2>6. Deals(k) /\ Deal(k) = Deal(j)
    BY <2>1, <2>3, <2>5 DEF Deals, Same, Deal
  <2>7. Deals(StepFailed(j)) /\ Moves(Deal(j), Deal(StepFailed(j)))
    BY <2>1, FailedIsDealt
  <2> QED  BY <2>4, <2>6, <2>7 DEF Moves
<1>4. ASSUME NEW j \in jobs, EndsStep(j)
      PROVE  \E k : Replace(j, k) /\ Deals(k) /\ Moves(Deal(j), Deal(k))
  <2> DEFINE g == Given(j)
  <2>1. DOMAIN j = Fields /\ Deals(j) /\ j.stage = "units" /\ j.at <= Len(j.units)
    BY <1>4 DEF TokenInv, DealsInv, Deals, EndsStep
  <2>2. Replace(j, Advanced(g)) \/ Replace(j, StepFailed(g))
    BY <1>4 DEF EndsStep
  <2>3. Kept(j, g) /\ Deals(g) /\ Deal(g) = Deal(j)
    <3>1. Kept(j, g)
      BY <2>1, GivenIsKept
    <3> HIDE DEF g
    <3>2. \A n : RestFrom(g, n) = RestFrom(j, n)
      BY <3>1 DEF RestFrom, Kept, Same
    <3> QED  BY <2>1, <3>1, <3>2, KeptIsDealt DEF Kept, Deal
  <2> HIDE DEF g
  <2>4. DOMAIN g = Fields /\ g.stage = "units" /\ g.at <= Len(g.units)
    BY <2>1, <2>3 DEF Kept, Same
  <2>5. /\ Deals(Advanced(g)) /\ Moves(Deal(g), Deal(Advanced(g)))
        /\ Deals(StepFailed(g)) /\ Moves(Deal(g), Deal(StepFailed(g)))
    BY <2>3, <2>4, AdvancedIsDealt, FailedIsDealt
  <2> QED  BY <2>2, <2>3, <2>5
<1>5. ASSUME NEW j \in Running, NEW t, Replace(j, [j EXCEPT !.toks = t])
      PROVE  \E k : Replace(j, k) /\ Deals(k) /\ Moves(Deal(j), Deal(k))
  <2>1. DOMAIN j = Fields /\ Deals(j)
    BY DEF Running, TokenInv, DealsInv
  <2>2. Kept(j, [j EXCEPT !.toks = t])
    BY <2>1 DEF Kept, Same, Fields
  <2> QED  BY <1>5, <2>1, <2>2, KeptIsDealt
<1>6. CASE RunStep
  <2>1. \E j \in jobs : \E k : Replace(j, k) /\ Deals(k) /\ Moves(Deal(j), Deal(k))
    BY <1>1, <1>2, <1>3, <1>4, <1>6 DEF RunStep
  <2> QED  BY <2>1 DEF Replace
<1>7. CASE Grow
  <2>1. \E j \in Running : \E t : Replace(j, [j EXCEPT !.toks = t])
    BY <1>7 DEF Grow
  <2>2. \E j \in jobs : \E k : Replace(j, k) /\ Deals(k) /\ Moves(Deal(j), Deal(k))
    BY <1>5, <2>1 DEF Running
  <2> QED  BY <2>2 DEF Replace
<1> QED  BY <1>6, <1>7

(* Approving a plan begins a Batch.                                        *)
LEMMA BegunIsDealt ==
  ASSUME ListsInv, PageInv, OneRun, DealsInv, NEW m \in msgs, OnDecided(m)
  PROVE  \/ jobs' = jobs
         \/ \E k : /\ jobs = {} \/ \E j \in jobs : j.stage = "over"
                   /\ jobs' = {k} /\ Deals(k)
                   /\ Deal(k).phase = "running" /\ Deal(k).todo # <<>>
                   /\ Deal(k).done = <<>> /\ Deal(k).bad = <<>>
<1>1. CASE ~(m.yes /\ plan.p.units # <<>>)
  BY <1>1 DEF OnDecided
<1>2. CASE m.yes /\ plan.p.units # <<>>
  <2> DEFINE k == NewJob(seq + 1, plan.p, plan.scope, m.shown)
  <2>1. jobs' = Running \cup {k}
    BY <1>2 DEF OnDecided
  <2>2. Running = {} /\ (jobs = {} \/ \E j \in jobs : j.stage = "over")
    <3>1. m.type = "decided" /\ ~quit
      BY DEF OnDecided, Receive
    <3>2. run.seq = 0
      BY <3>1 DEF PageInv, RunInv
    <3>3. \A j \in jobs : j.stage = "over"
      BY <3>1, <3>2 DEF OneRun
    <3> QED  BY <3>3 DEF Running
  <2>3. /\ k.seq \in Nat /\ k.units = plan.p.units /\ k.at = 1 /\ k.rest = NamesOf(k.units)
        /\ k.stage = "client" /\ k.bad = <<>> /\ k.ok = <<>> /\ ~k.begun
    BY DEF NewJob, PageInv, PlansInv
  <2> HIDE DEF k
  <2>4. IsSeq(k.units) /\ k.units # <<>>
    BY <1>2, <2>3 DEF ListsInv, PlanFits
  <2>5. Len(k.units) \in Nat \ {0}
    <3>1. PICK S : k.units \in Seq(S)
      BY <2>4 DEF IsSeq
    <3> QED  BY <2>4, <3>1
  <2>6. RestFrom(k, 1) = NamesOf(k.units) /\ RestFrom(k, 1) # <<>>
    BY <2>4, <2>5, RestIsList
  <2>7. Deals(k)
    BY <2>3, <2>4, <2>6 DEF Deals
  <2>8. /\ Deal(k).phase = "running" /\ Deal(k).todo # <<>>
        /\ Deal(k).done = <<>> /\ Deal(k).bad = <<>>
    BY <2>3, <2>6 DEF Deal
  <2> QED  BY <2>1, <2>2, <2>7, <2>8
<1> QED  BY <1>1, <1>2

(* What the runs have of a Batch is what the last one has: there is one.   *)
LEMMA OneIsDealt ==
  /\ Dealt({}) = [todo |-> <<>>, done |-> <<>>, bad |-> <<>>, phase |-> "idle"]
  /\ \A j : j.seq \in Nat => Dealt({j}) = Deal(j)
<1>1. ASSUME NEW j, j.seq \in Nat PROVE Dealt({j}) = Deal(j)
  <2>1. j.seq <= j.seq
    BY <1>1
  <2>2. Latest({j}) = j
    BY <2>1 DEF Latest
  <2> QED  BY <2>2 DEF Dealt, Deal
<1> QED  BY <1>1 DEF Dealt

LEMMA BatchSteps ==
  ASSUME SetupJobAssumption, TokenInv, ListsInv, PageInv, OneRun, DealsInv, [Next]_vars
  PROVE  DealsInv' /\ [Runs!Next]_Runs!vars
<1>1. ASSUME NEW d, NEW e, Dealt(jobs) = d, Dealt(jobs)' = e, Moves(d, e)
      PROVE  [Runs!Next]_Runs!vars
  BY <1>1 DEF Moves, Runs!Next, Runs!vars, Runs!Begin, Runs!Succeed, Runs!Fail, Runs!Finish
<1>2. ASSUME NEW j \in jobs PROVE jobs = {j} /\ Deals(j) /\ Dealt(jobs) = Deal(j)
  <2>1. jobs = {j} /\ Deals(j)
    BY DEF OneRun, DealsInv
  <2>2. j.seq \in Nat
    BY <2>1 DEF Deals
  <2> QED  BY <2>1, <2>2, OneIsDealt
<1>3. ASSUME NEW k, jobs' = {k}, Deals(k), NEW d, Dealt(jobs) = d, Moves(d, Deal(k))
      PROVE  DealsInv' /\ [Runs!Next]_Runs!vars
  <2>1. k.seq \in Nat
    BY <1>3 DEF Deals
  <2>2. Dealt({k}) = Deal(k)
    BY <2>1, OneIsDealt
  <2>3. Dealt(jobs)' = Deal(k)
    BY <1>3, <2>2
  <2>4. DealsInv'
    BY <1>3 DEF DealsInv, Deals
  <2> QED  BY <1>1, <1>3, <2>3, <2>4
<1>4. CASE RunStep \/ Grow
  <2>1. PICK j \in jobs : \E k : /\ jobs' = (jobs \ {j}) \cup {k}
                                 /\ Deals(k) /\ Moves(Deal(j), Deal(k))
    BY <1>4, StepsAreDealt
  <2>2. PICK k : jobs' = (jobs \ {j}) \cup {k} /\ Deals(k) /\ Moves(Deal(j), Deal(k))
    BY <2>1
  <2>3. jobs' = {k} /\ Dealt(jobs) = Deal(j)
    BY <1>2, <2>2
  <2> QED  BY <1>3, <2>2, <2>3
<1>5. CASE jobs' = jobs
  <2>1. Dealt(jobs)' = Dealt(jobs)
    BY <1>5
  <2>2. DealsInv'
    BY <1>5 DEF DealsInv, Deals
  <2> QED  BY <2>1, <2>2 DEF Runs!vars
<1>6. ASSUME NEW m \in msgs, OnDecided(m) PROVE DealsInv' /\ [Runs!Next]_Runs!vars
  <2>1. CASE jobs' = jobs
    BY <1>5, <2>1
  <2>2. CASE \E k : /\ jobs = {} \/ \E j \in jobs : j.stage = "over"
                    /\ jobs' = {k} /\ Deals(k)
                    /\ Deal(k).phase = "running" /\ Deal(k).todo # <<>>
                    /\ Deal(k).done = <<>> /\ Deal(k).bad = <<>>
    <3>1. PICK k : /\ jobs = {} \/ \E j \in jobs : j.stage = "over"
                   /\ jobs' = {k} /\ Deals(k)
                   /\ Deal(k).phase = "running" /\ Deal(k).todo # <<>>
                   /\ Deal(k).done = <<>> /\ Deal(k).bad = <<>>
      BY <2>2
    <3>2. CASE jobs = {}
      <4> DEFINE d == [todo |-> <<>>, done |-> <<>>, bad |-> <<>>, phase |-> "idle"]
      <4>1. Dealt(jobs) = d /\ d.phase # "running"
        BY <3>2, OneIsDealt
      <4>2. Moves(d, Deal(k))
        BY <3>1, <4>1 DEF Moves
      <4> HIDE DEF d
      <4> QED  BY <1>3, <3>1, <4>1, <4>2
    <3>3. ASSUME NEW j \in jobs, j.stage = "over" PROVE DealsInv' /\ [Runs!Next]_Runs!vars
      <4>1. Dealt(jobs) = Deal(j) /\ Deal(j).phase # "running"
        BY <1>2, <3>3 DEF Deal
      <4>2. Moves(Deal(j), Deal(k))
        BY <3>1, <4>1 DEF Moves
      <4> QED  BY <1>3, <3>1, <4>1, <4>2
    <3> QED  BY <3>1, <3>2, <3>3
  <2> QED  BY <1>6, <2>1, <2>2, BegunIsDealt
<1>7. CASE Shutdown
  <2>1. CASE jobs = {}
    <3>1. jobs' = jobs
      BY <1>7, <2>1 DEF Shutdown
    <3> QED  BY <1>5, <3>1
  <2>2. ASSUME NEW j \in jobs PROVE DealsInv' /\ [Runs!Next]_Runs!vars
    <3>1. jobs = {j} /\ Deals(j) /\ Dealt(jobs) = Deal(j) /\ DOMAIN j = Fields
      BY <1>2 DEF TokenInv
    <3>2. PICK l : jobs' = {[j EXCEPT !.live = l]}
      BY <1>7, <3>1 DEF Shutdown
    <3> DEFINE k == [j EXCEPT !.live = l]
    <3>3. Kept(j, k)
      BY <3>1 DEF Kept, Same, Fields
    <3>4. jobs' = {k}
      BY <3>2
    <3> HIDE DEF k
    <3>5. Deals(k) /\ Moves(Deal(j), Deal(k))
      BY <3>1, <3>3, KeptIsDealt
    <3> QED  BY <1>3, <3>1, <3>4, <3>5
  <2> QED  BY <2>1, <2>2
<1>8. \/ RunStep \/ Grow \/ Shutdown
      \/ \E m \in msgs : OnDecided(m)
      \/ jobs' = jobs
  BY DEF Next, KeyStep, OnMessage, OnGoroutine, JobStep, WorkComes, WorkEnds, Passes, vars,
         MenuKey, MenuChoice, AskFromElsewhere, ModalKey, CloseProgress, LeaveTab, EnterTab,
         OnRequest, OnForm, OnDiscarded, OnPlan, OnProgress, OnDone, Detect
<1> QED  BY <1>4, <1>5, <1>6, <1>7, <1>8

(* The goroutine of a run deals with the units of its plan as a Batch      *)
(* does: one after the other, up to the first failure, for any runners,    *)
(* plans and number of units, as long as the keys wait for the answers to  *)
(* those before them.                                                      *)
THEOREM RunsAreBatches ==
  ASSUME SetupJobAssumption, SetupTabAssumption, ~Hasty
  PROVE  Spec => RunIsBatch
<1>1. Init => DealsInv /\ Runs!Init
  BY OneIsDealt DEF Init, DealsInv, Runs!Init
<1>2. TokenInv /\ ListsInv /\ PageInv /\ OneRun /\ DealsInv /\ [Next]_vars
      => DealsInv' /\ [Runs!Next]_Runs!vars
  BY BatchSteps
<1> QED  BY <1>1, <1>2, TokenInvariance, ListsInvariance, OneRunInvariance, PTL
         DEF Spec, RunIsBatch, Runs!Spec

-----------------------------------------------------------------------------
(* The host: only services run.                                            *)
HostFields == {"dir", "reg", "unit", "up", "busy"}

HostOk(h) ==
  /\ DOMAIN h = Ids
  /\ \A i \in Ids : DOMAIN h[i] = HostFields /\ (h[i].up => h[i].unit)

AllSteps == {"mkdir", "extract", "config", "install", "start", "stop", "uninstall", "remove",
             "drain", "unpack"}

(* Services are stopped before they are uninstalled, and a runner that was *)
(* drained is started by the last step.                                    *)
LEMMA StepsFit ==
  ASSUME NEW kind, NEW s \in StepsOf(kind)
  PROVE  /\ Len(s) \in Nat \ {0} /\ \A n \in 1 .. Len(s) : s[n] \in AllSteps
         /\ s[1] # "uninstall"
         /\ \A n \in 1 .. Len(s) - 1 : s[n + 1] = "uninstall" => s[n] = "stop"
         /\ kind = "update" =>
              /\ \A n \in 1 .. Len(s) : s[n] \in {"drain", "unpack", "start"}
              /\ s[Len(s)] = "start" \/ (Len(s) = 1 /\ s[1] = "unpack")
<1>1. CASE s = AddSteps /\ kind = "add"
  BY <1>1 DEF AddSteps, AllSteps
<1>2. CASE s = <<"stop", "uninstall", "remove">> /\ kind = "remove"
  BY <1>2 DEF AllSteps
<1>3. CASE s = <<"remove">> /\ kind = "remove"
  BY <1>3 DEF AllSteps
<1>4. CASE s = <<"drain", "unpack", "start">> /\ kind = "update"
  BY <1>4 DEF AllSteps
<1>5. CASE s = <<"unpack">> /\ kind = "update"
  BY <1>5 DEF AllSteps
<1> QED  BY <1>1, <1>2, <1>3, <1>4, <1>5 DEF StepsOf

(* What step s of runner i makes g of the host h.                          *)
Changes(h, g, i, s) ==
  /\ HostOk(g)
  /\ \A n \in Ids \ {i} : g[n] = h[n]
  /\ i \in Ids => /\ s \notin {"install", "uninstall"} => g[i].unit = h[i].unit
                  /\ s = "start" => g[i].up = h[i].unit
                  /\ s = "stop" => ~g[i].up
                  /\ s = "unpack" => g[i].up = h[i].up

LEMMA EffectsFit ==
  ASSUME NEW h, HostOk(h), NEW i, NEW s \in AllSteps,
         s = "uninstall" /\ i \in Ids => ~h[i].up
  PROVE  Changes(h, [h EXCEPT ![i] = Effect(s, @)], i, s)
<1> DEFINE e == Effect(s, h[i])
           g == [h EXCEPT ![i] = e]
<1>1. CASE i \notin Ids
  BY <1>1 DEF HostOk, Changes
<1>2. CASE i \in Ids
  <2>1. DOMAIN h[i] = HostFields /\ (h[i].up => h[i].unit)
    BY <1>2 DEF HostOk
  <2>2. /\ DOMAIN e = HostFields /\ (e.up => e.unit)
        /\ s \notin {"install", "uninstall"} => e.unit = h[i].unit
        /\ s = "start" => e.up = h[i].unit
        /\ s = "stop" => ~e.up
        /\ s = "unpack" => e.up = h[i].up
    <3>1. CASE s \in {"mkdir", "extract", "unpack"}
      BY <2>1, <3>1 DEF Effect, HostFields
    <3>2. CASE s \in {"config", "remove"}
      BY <2>1, <3>2 DEF Effect, HostFields
    <3>3. CASE s \in {"install", "start"}
      BY <2>1, <3>3 DEF Effect, HostFields
    <3>4. CASE s \in {"drain", "stop"}
      BY <2>1, <3>4 DEF Effect, HostFields
    <3>5. CASE s = "uninstall"
      BY <1>2, <2>1, <3>5 DEF Effect, HostFields
    <3> QED  BY <3>1, <3>2, <3>3, <3>4, <3>5 DEF AllSteps
  <2> HIDE DEF e
  <2>3. DOMAIN g = Ids /\ g[i] = e /\ \A n \in Ids \ {i} : g[n] = h[n]
    BY <1>2 DEF HostOk
  <2> HIDE DEF g
  <2>4. HostOk(g)
    BY <2>2, <2>3 DEF HostOk
  <2>5. Changes(h, g, i, s)
    BY <2>2, <2>3, <2>4 DEF Changes
  <2> QED  BY <2>5 DEF g, e
<1> QED  BY <1>1, <1>2

-----------------------------------------------------------------------------
(* A run is at a step of its plan.                                         *)
Place(j) ==
  /\ PlanFits(j)
  /\ j.stage \in {"client", "tarball"} => j.step = 1
  /\ j.stage = "units" /\ j.at \in DOMAIN j.units => j.step \in 1 .. Len(UnitAt(j).steps)

(* A service that is uninstalled does not run; of the runners an update    *)
(* found running, none but the one it is at is down, and that one only     *)
(* after its first step.                                                   *)
Down(j, h) ==
  /\ /\ j.stage = "units" /\ j.at \in DOMAIN j.units
     /\ UnitAt(j).id \in Ids /\ StepAt(j) = "uninstall"
     => ~h[UnitAt(j).id].up
  /\ j.kind = "update" =>
       /\ \A i \in j.wereUp : i \in Ids /\ h[i].unit
       /\ j.stage # "over" /\ j.step = 1 =>
            \A k \in DOMAIN j.units : j.units[k].id \in j.wereUp => h[j.units[k].id].up
       /\ \A k \in DOMAIN j.units :
            j.units[k].id \in j.wereUp /\ ~h[j.units[k].id].up
            => IF j.stage = "over" THEN <<j.units[k].id>> = j.bad ELSE k = j.at

LEMMA KeptStaysDown ==
  ASSUME NEW j, NEW k, Kept(j, k), NEW h, Place(j), Down(j, h)
  PROVE  Place(k) /\ Down(k, h)
<1>1. UnitAt(k) = UnitAt(j) /\ StepAt(k) = StepAt(j)
  BY DEF UnitAt, StepAt, Kept, Same
<1>2. Place(k)
  BY <1>1 DEF Place, PlanFits, Kept, Same
<1>3. Down(k, h)
  BY <1>1 DEF Down, Kept, Same
<1> QED  BY <1>2, <1>3

(* A run that goes on without a step, to its units or in them.             *)
LEMMA MovedStaysDown ==
  ASSUME NEW j, NEW k, Same(j, k), k.at = j.at, k.step = j.step,
         k.stage \in {"tarball", "units"},
         j.stage \in {"client", "tarball"} \/ (j.stage = "units" /\ k.stage = "units"),
         NEW h, Place(j), Down(j, h)
  PROVE  Place(k) /\ Down(k, h)
<1>1. UnitAt(k) = UnitAt(j) /\ StepAt(k) = StepAt(j)
  BY DEF UnitAt, StepAt, Same
<1>2. ASSUME j.step = 1, j.at \in DOMAIN j.units
      PROVE  1 \in 1 .. Len(UnitAt(j).steps) /\ StepAt(j) # "uninstall"
  <2>1. UnitAt(j).steps \in StepsOf(j.kind)
    BY <1>2 DEF Place, PlanFits, UnitAt
  <2> QED  BY <1>2, <2>1, StepsFit DEF StepAt
<1>3. Place(k)
  BY <1>1, <1>2 DEF Place, PlanFits, Same
<1>4. Down(k, h)
  BY <1>1, <1>2 DEF Down, Place, Same
<1> QED  BY <1>3, <1>4

(* A run that ends between two units.                                      *)
LEMMA StoppedStaysDown ==
  ASSUME NEW j, NEW k, Same(j, k), k.stage = "over", j.stage # "over", j.step = 1,
         NEW h, Place(j), Down(j, h)
  PROVE  Place(k) /\ Down(k, h)
<1>1. Place(k)
  BY DEF Place, PlanFits, Same
<1>2. Down(k, h)
  BY DEF Down, Same
<1> QED  BY <1>1, <1>2

(* A run that ends at a unit, whose step may have done its work.           *)
LEMMA FailedStaysDown ==
  ASSUME NEW j, NEW k, Same(j, k), j.stage = "units", j.at \in DOMAIN j.units,
         k.stage = "over", k.bad = <<UnitAt(j).id>>,
         NEW h, NEW g, g = h \/ Changes(h, g, UnitAt(j).id, StepAt(j)), Place(j), Down(j, h)
  PROVE  Place(k) /\ Down(k, g)
<1>1. Place(k)
  BY DEF Place, PlanFits, Same
<1>2. ASSUME j.kind = "update"
      PROVE  /\ \A i \in j.wereUp : i \in Ids /\ g[i].unit
             /\ \A n \in DOMAIN j.units : j.units[n].id \in j.wereUp /\ ~g[j.units[n].id].up
                                          => n = j.at
  <2>1. StepAt(j) \in {"drain", "unpack", "start"}
    <3>1. UnitAt(j).steps \in StepsOf("update") /\ j.step \in 1 .. Len(UnitAt(j).steps)
      BY <1>2 DEF Place, PlanFits, UnitAt
    <3> QED  BY <3>1, StepsFit DEF StepAt
  <2>2. \A n \in DOMAIN j.units : n # j.at => j.units[n].id # UnitAt(j).id
    BY <1>2 DEF Place, PlanFits, UnitAt
  <2>3. ASSUME NEW i \in j.wereUp PROVE i \in Ids /\ g[i].unit
    BY <1>2, <2>1, <2>3 DEF Down, Changes
  <2>4. ASSUME NEW n \in DOMAIN j.units, j.units[n].id \in j.wereUp,
               ~g[j.units[n].id].up, n # j.at
        PROVE  FALSE
    <3>1. j.units[n].id \in Ids \ {UnitAt(j).id}
      BY <1>2, <2>2, <2>4 DEF Down
    <3>2. g[j.units[n].id] = h[j.units[n].id]
      BY <3>1 DEF Changes
    <3> QED  BY <1>2, <2>4, <3>2 DEF Down
  <2> QED  BY <2>3, <2>4
<1>3. Down(k, g)
  BY <1>2 DEF Down, Same, UnitAt
<1> QED  BY <1>1, <1>3

(* A step that is done.                                                    *)
LEMMA AdvancedStaysDown ==
  ASSUME NEW j, DOMAIN j = Fields, Deals(j), j.stage = "units", j.at \in DOMAIN j.units,
         NEW h, NEW g, Changes(h, g, UnitAt(j).id, StepAt(j)), Place(j), Down(j, h)
  PROVE  Place(Advanced(j)) /\ Down(Advanced(j), g)
<1> DEFINE k == Advanced(j)
           s == UnitAt(j).steps
<1>1. /\ Same(j, k) /\ k.stage = "units"
      /\ IF LastStep(j) THEN k.at = j.at + 1 /\ k.step = 1
                        ELSE k.at = j.at /\ k.step = j.step + 1
  BY AdvancedFields
<1> HIDE DEF k
<1>2. s \in StepsOf(j.kind) /\ j.step \in 1 .. Len(s) /\ StepAt(j) = s[j.step]
  BY DEF Place, PlanFits, UnitAt, StepAt
<1>3. Len(s) \in Nat \ {0}
  BY <1>2, StepsFit
<1>4. PlanFits(k)
  BY <1>1 DEF Place, PlanFits, Same
<1>5. ASSUME j.kind = "update"
      PROVE  /\ \A i \in j.wereUp : i \in Ids /\ g[i].unit
             /\ \A n \in DOMAIN j.units : j.units[n].id \in j.wereUp /\ ~g[j.units[n].id].up
                                          => n = j.at
  <2>1. StepAt(j) \in {"drain", "unpack", "start"}
    BY <1>2, <1>5, StepsFit
  <2>2. \A n \in DOMAIN j.units : n # j.at => j.units[n].id # UnitAt(j).id
    BY <1>5 DEF Place, PlanFits, UnitAt
  <2>3. ASSUME NEW i \in j.wereUp PROVE i \in Ids /\ g[i].unit
    BY <1>5, <2>1, <2>3 DEF Down, Changes
  <2>4. ASSUME NEW n \in DOMAIN j.units, j.units[n].id \in j.wereUp,
               ~g[j.units[n].id].up, n # j.at
        PROVE  FALSE
    <3>1. j.units[n].id \in Ids \ {UnitAt(j).id}
      BY <1>5, <2>2, <2>4 DEF Down
    <3>2. g[j.units[n].id] = h[j.units[n].id]
      BY <3>1 DEF Changes
    <3> QED  BY <1>5, <2>4, <3>2 DEF Down
  <2> QED  BY <2>3, <2>4
<1>6. CASE LastStep(j)
  <2>1. j.step = Len(s)
    BY <1>6 DEF LastStep
  <2>2. ASSUME k.at \in DOMAIN k.units
        PROVE  k.step \in 1 .. Len(UnitAt(k).steps) /\ StepAt(k) # "uninstall"
    <3>1. UnitAt(k).steps \in StepsOf(k.kind) /\ k.step = 1
      BY <1>1, <1>4, <1>6, <2>2 DEF PlanFits, UnitAt
    <3> QED  BY <3>1, StepsFit DEF StepAt
  <2>3. ASSUME j.kind = "update", UnitAt(j).id \in j.wereUp PROVE g[UnitAt(j).id].up
    <3>1. UnitAt(j).id \in Ids /\ h[UnitAt(j).id].unit
      BY <2>3 DEF Down
    <3>2. StepAt(j) = "start" \/ (j.step = 1 /\ StepAt(j) = "unpack")
      BY <1>2, <2>1, <2>3, StepsFit
    <3>3. CASE StepAt(j) = "start"
      BY <3>1, <3>3 DEF Changes
    <3>4. CASE j.step = 1 /\ StepAt(j) = "unpack"
      <4>1. h[UnitAt(j).id].up
        BY <2>3, <3>4 DEF Down, UnitAt
      <4> QED  BY <3>1, <3>4, <4>1 DEF Changes
    <3> QED  BY <3>2, <3>3, <3>4
  <2>4. ASSUME j.kind = "update", NEW n \in DOMAIN j.units, j.units[n].id \in j.wereUp
        PROVE  g[j.units[n].id].up
    BY <1>5, <2>3, <2>4 DEF UnitAt
  <2>5. Place(k)
    BY <1>1, <1>4, <2>2 DEF Place
  <2>6. Down(k, g)
    BY <1>1, <1>5, <2>2, <2>4 DEF Down, Same
  <2> QED  BY <2>5, <2>6 DEF k
<1>7. CASE ~LastStep(j)
  <2>1. UnitAt(k) = UnitAt(j) /\ k.step = j.step + 1 /\ k.at = j.at
    BY <1>1, <1>7 DEF UnitAt, Same
  <2>2. j.step \in 1 .. Len(s) - 1
    BY <1>2, <1>3, <1>7 DEF LastStep
  <2>3. k.step \in 1 .. Len(UnitAt(k).steps) /\ k.step # 1
    BY <1>3, <2>1, <2>2
  <2>4. StepAt(k) = "uninstall" /\ UnitAt(k).id \in Ids => ~g[UnitAt(k).id].up
    <3>1. StepAt(k) = "uninstall" => StepAt(j) = "stop"
      BY <1>2, <2>1, <2>2, StepsFit DEF StepAt
    <3> QED  BY <2>1, <3>1 DEF Changes
  <2>5. Place(k)
    BY <1>1, <1>4, <2>3 DEF Place
  <2>6. Down(k, g)
    BY <1>1, <1>5, <2>1, <2>3, <2>4 DEF Down, Same
  <2> QED  BY <2>5, <2>6 DEF k
<1> QED  BY <1>6, <1>7

DownInv == HostOk(host) /\ \A j \in jobs : Place(j) /\ Down(j, host)

(* A step of a run, and time going by.                                     *)
LEMMA StepsStayDown ==
  ASSUME TokenInv, DealsInv, DownInv, RunStep \/ Grow
  PROVE  /\ HostOk(host')
         /\ \E j \in jobs : \E k : /\ jobs' = (jobs \ {j}) \cup {k}
                                   /\ Place(k) /\ Down(k, host')
<1>1. ASSUME NEW j \in jobs, GetsClient(j) \/ GetsTarball(j)
      PROVE  host' = host /\ \E k : Replace(j, k) /\ Place(k) /\ Down(k, host)
  <2>1. DOMAIN j = Fields /\ Place(j) /\ Down(j, host) /\ j.stage \in {"client", "tarball"}
    BY <1>1 DEF TokenInv, DownInv, GetsClient, GetsTarball
  <2> DEFINE at(s) == [j EXCEPT !.stage = s]
             Good(k) == Place(k) /\ Down(k, host)
  <2>2. \A s : /\ DOMAIN at(s) = Fields /\ at(s).stage = s /\ Same(j, at(s))
               /\ at(s).at = j.at /\ at(s).step = j.step
    BY <2>1 DEF Same, Fields
  <2>3. Good(at("tarball")) /\ Good(at("units"))
    <3> HIDE DEF at
    <3> QED  BY <2>1, <2>2, MovedStaysDown
  <2>4. Good(at("over"))
    <3>1. j.step = 1
      BY <2>1 DEF Place
    <3> HIDE DEF at
    <3> QED  BY <2>1, <2>2, <3>1, StoppedStaysDown
  <2>5. Good(Told(at("tarball"), 0, "prep"))
    <3> DEFINE i == at("tarball")
    <3>1. DOMAIN i = Fields /\ Good(i)
      BY <2>2, <2>3
    <3> HIDE DEF i
    <3> QED  BY <3>1, ToldIsKept, KeptStaysDown DEF i
  <2>6. \/ Replace(j, Told(at("tarball"), 0, "prep"))
        \/ Replace(j, at("units")) \/ Replace(j, at("over"))
    BY <1>1 DEF GetsClient, GetsTarball, FailedEarly
  <2>7. host' = host
    BY <1>1 DEF GetsClient, GetsTarball, hostVars
  <2> HIDE DEF at, Good
  <2>8. \E k : Replace(j, k) /\ Good(k)
    BY <2>3, <2>4, <2>5, <2>6
  <2> QED  BY <2>7, <2>8 DEF Good
<1>2. ASSUME NEW j \in jobs, StopsBetweenUnits(j)
      PROVE  host' = host /\ \E k : Replace(j, k) /\ Place(k) /\ Down(k, host)
  <2>1. /\ DOMAIN j = Fields /\ Place(j) /\ Down(j, host) /\ j.stage = "units" /\ j.step = 1
        /\ host' = host
    BY <1>2 DEF TokenInv, DownInv, StopsBetweenUnits, hostVars
  <2> DEFINE k == [j EXCEPT !.stage = "over", !.rest = RestFrom(j, j.at), !.toks = {}]
  <2>2. Same(j, k) /\ k.stage = "over"
    BY <2>1 DEF Same, Fields
  <2>3. Replace(j, k)
    BY <1>2 DEF StopsBetweenUnits
  <2> HIDE DEF k
  <2> QED  BY <2>1, <2>2, <2>3, StoppedStaysDown
<1>3. ASSUME NEW j \in jobs, j.stage = "units", j.at <= Len(j.units)
      PROVE  j.at \in DOMAIN j.units
  <2>1. IsSeq(j.units) /\ j.at \in Nat \ {0}
    BY DEF DealsInv, Deals
  <2>2. PICK S : j.units \in Seq(S)
    BY <2>1 DEF IsSeq
  <2> QED  BY <1>3, <2>1, <2>2
<1>4. ASSUME NEW j \in jobs, BeginsStep(j)
      PROVE  host' = host /\ \E k : Replace(j, k) /\ Place(k) /\ Down(k, host)
  <2>1. /\ DOMAIN j = Fields /\ Place(j) /\ Down(j, host) /\ j.stage = "units"
        /\ j.at \in DOMAIN j.units /\ host' = host
    BY <1>3, <1>4 DEF TokenInv, DownInv, BeginsStep, hostVars
  <2> DEFINE told == Told(j, j.at, "run")
             k    == [told EXCEPT !.begun = TRUE]
  <2>2. Kept(j, told)
    BY <2>1, ToldIsKept
  <2>3. Same(j, k) /\ k.stage = "units" /\ k.at = j.at /\ k.step = j.step
    <3> HIDE DEF told
    <3> QED  BY <2>1, <2>2 DEF Kept, Same, Fields
  <2>4. Replace(j, k) \/ Replace(j, StepFailed(j))
    BY <1>4 DEF BeginsStep
  <2> HIDE DEF k
  <2>5. Place(k) /\ Down(k, host)
    BY <2>1, <2>3, MovedStaysDown
  <2>6. Place(StepFailed(j)) /\ Down(StepFailed(j), host)
    <3> DEFINE f == StepFailed(j)
    <3>1. Same(j, f) /\ f.stage = "over" /\ f.bad = <<UnitAt(j).id>>
      BY <2>1, FailedFields DEF UnitAt
    <3> HIDE DEF f
    <3>2. Place(f) /\ Down(f, host)
      BY <2>1, <3>1, FailedStaysDown
    <3> QED  BY <3>2 DEF f
  <2> QED  BY <2>1, <2>4, <2>5, <2>6
<1>5. ASSUME NEW j \in jobs, EndsStep(j)
      PROVE  HostOk(host') /\ \E k : Replace(j, k) /\ Place(k) /\ Down(k, host')
  <2> DEFINE g     == Given(j)
             after == [host EXCEPT ![UnitAt(j).id] = Effect(StepAt(j), @)]
  <2>1. /\ DOMAIN j = Fields /\ Deals(j) /\ Place(j) /\ Down(j, host) /\ j.stage = "units"
        /\ j.at \in DOMAIN j.units
    <3>1. Deals(j) /\ j.stage = "units" /\ j.at <= Len(j.units)
      BY <1>5 DEF DealsInv, Deals, EndsStep
    <3> QED  BY <1>3, <3>1 DEF TokenInv, DownInv
  <2>2. \/ host' = after /\ Replace(j, Advanced(g))
        \/ host' \in {host, after} /\ Replace(j, StepFailed(g))
    BY <1>5 DEF EndsStep
  <2>3. Changes(host, after, UnitAt(j).id, StepAt(j))
    <3>1. UnitAt(j).steps \in StepsOf(j.kind) /\ j.step \in 1 .. Len(UnitAt(j).steps)
      BY <2>1 DEF Place, PlanFits, UnitAt
    <3>2. StepAt(j) \in AllSteps
      BY <3>1, StepsFit DEF StepAt
    <3>3. StepAt(j) = "uninstall" /\ UnitAt(j).id \in Ids => ~host[UnitAt(j).id].up
      BY <2>1 DEF Down
    <3> QED  BY <3>2, <3>3, EffectsFit DEF DownInv
  <2>4. Kept(j, g) /\ Deals(g)
    BY <2>1, GivenIsKept, KeptIsDealt
  <2> HIDE DEF g, after
  <2>5. Place(g) /\ Down(g, host)
    BY <2>1, <2>4, KeptStaysDown
  <2>6. /\ DOMAIN g = Fields /\ g.stage = "units" /\ g.at \in DOMAIN g.units
        /\ UnitAt(g) = UnitAt(j) /\ StepAt(g) = StepAt(j)
    BY <2>1, <2>4 DEF Kept, Same, UnitAt, StepAt
  <2>7. Place(Advanced(g)) /\ Down(Advanced(g), after)
    BY <2>3, <2>4, <2>5, <2>6, AdvancedStaysDown
  <2>8. \A h \in {host, after} : Place(StepFailed(g)) /\ Down(StepFailed(g), h)
    <3> DEFINE f == StepFailed(g)
    <3>1. Same(g, f) /\ f.stage = "over" /\ f.bad = <<UnitAt(g).id>>
      BY <2>6, FailedFields DEF UnitAt
    <3> HIDE DEF f
    <3>2. \A h \in {host, after} : Place(f) /\ Down(f, h)
      BY <2>3, <2>5, <2>6, <3>1, FailedStaysDown
    <3> QED  BY <3>2 DEF f
  <2>9. HostOk(after) /\ HostOk(host)
    BY <2>3 DEF Changes, DownInv
  <2> QED  BY <2>2, <2>7, <2>8, <2>9
<1>6. CASE RunStep
  <2>1. /\ HostOk(host')
        /\ \E j \in jobs : \E k : Replace(j, k) /\ Place(k) /\ Down(k, host')
    BY <1>1, <1>2, <1>4, <1>5, <1>6 DEF RunStep, DownInv
  <2> QED  BY <2>1 DEF Replace
<1>7. CASE Grow
  <2>1. PICK j \in Running : host' = host /\ \E t : Replace(j, [j EXCEPT !.toks = t])
    BY <1>7 DEF Grow, hostVars
  <2>2. PICK t : Replace(j, [j EXCEPT !.toks = t])
    BY <2>1
  <2>3. j \in jobs /\ DOMAIN j = Fields /\ Place(j) /\ Down(j, host) /\ HostOk(host)
    BY DEF Running, TokenInv, DownInv
  <2>4. Kept(j, [j EXCEPT !.toks = t])
    BY <2>3 DEF Kept, Same, Fields
  <2>5. Place([j EXCEPT !.toks = t]) /\ Down([j EXCEPT !.toks = t], host)
    BY <2>3, <2>4, KeptStaysDown
  <2> QED  BY <2>1, <2>2, <2>3, <2>5 DEF Replace
<1> QED  BY <1>6, <1>7

(* GitHub gives a job to a runner, and a job ends.                         *)
LEMMA WorkStaysDown ==
  ASSUME DownInv, JobTaken \/ JobEnds, jobs' = jobs
  PROVE  DownInv'
<1>1. PICK i \in Ids, b \in BOOLEAN : host' = [host EXCEPT ![i].busy = b]
  BY DEF JobTaken, JobEnds
<1>2. /\ HostOk(host')
      /\ \A n \in Ids : host'[n].up = host[n].up /\ host'[n].unit = host[n].unit
  BY <1>1 DEF DownInv, HostOk, HostFields
<1>3. ASSUME NEW j \in jobs PROVE Place(j) /\ Down(j, host')
  BY <1>2 DEF DownInv, Down
<1> QED  BY <1>2, <1>3 DEF DownInv, Place, Down

(* A run begins with the runners as they are, and is cancelled.            *)
LEMMA PageStaysDown ==
  ASSUME TokenInv, ListsInv, PageInv, OneRun, DownInv, UNCHANGED host,
         \/ Shutdown
         \/ \E m \in msgs : OnDecided(m)
         \/ jobs' = jobs
  PROVE  DownInv'
<1>1. ASSUME \A k \in jobs' : Place(k) /\ Down(k, host) PROVE DownInv'
  BY <1>1 DEF DownInv, Place, Down
<1>2. CASE jobs' = jobs
  BY <1>1, <1>2 DEF DownInv
<1>3. CASE Shutdown
  <2> SUFFICES ASSUME NEW k \in jobs' PROVE Place(k) /\ Down(k, host)
    BY <1>1
  <2>1. PICK j \in jobs : k = [j EXCEPT !.live = @ /\ j.seq # run.seq]
    BY <1>3 DEF Shutdown
  <2>2. Kept(j, k)
    BY <2>1 DEF TokenInv, Kept, Same, Fields
  <2> QED  BY <2>2, KeptStaysDown DEF DownInv
<1>4. ASSUME NEW m \in msgs, OnDecided(m) PROVE DownInv'
  <2>1. CASE jobs' = jobs
    BY <1>2, <2>1
  <2>2. CASE jobs' # jobs
    <3> DEFINE k == NewJob(seq + 1, plan.p, plan.scope, m.shown)
    <3>1. jobs' = Running \cup {k}
      BY <1>4, <2>2 DEF OnDecided
    <3>2. Running = {}
      BY <1>4 DEF OnDecided, Receive, PageInv, AskedInv, RunInv, OneRun, Running
    <3>3. /\ k.kind = plan.p.kind /\ k.units = plan.p.units /\ k.stage = "client" /\ k.step = 1
          /\ k.wereUp = {i \in Ids : host[i].up}
      BY DEF NewJob
    <3> HIDE DEF k
    <3>4. Place(k)
      BY <3>3 DEF Place, PlanFits, ListsInv
    <3>5. Down(k, host)
      BY <3>3 DEF Down, DownInv, HostOk
    <3> QED  BY <1>1, <3>1, <3>2, <3>4, <3>5
  <2> QED  BY <2>1, <2>2
<1> QED  BY <1>2, <1>3, <1>4

(* An update that failed, was cancelled or goes on has stopped no runner   *)
(* but the one it failed at or works on: those it drained before run       *)
(* again, for any runners and plans, as long as the keys wait for the      *)
(* answers to those before them.                                           *)
THEOREM UpdatesRestartWhatTheyDrain ==
  ASSUME SetupJobAssumption, SetupTabAssumption, ~Hasty
  PROVE  Spec => []DownOnlyWhereItFailed
<1>1. Init => DealsInv /\ DownInv
  <2>1. HostInit => HostOk(host)
    BY SetupJobAssumption DEF HostInit, HostOk, HostFields, NoRunner, AtStart
  <2> QED  BY <2>1 DEF Init, DealsInv, DownInv
<1>2. TokenInv /\ ListsInv /\ PageInv /\ OneRun /\ DealsInv /\ [Next]_vars => DealsInv'
  BY BatchSteps
<1>3. TokenInv /\ ListsInv /\ PageInv /\ OneRun /\ DealsInv /\ DownInv /\ [Next]_vars
      => DownInv'
  <2> SUFFICES ASSUME TokenInv, ListsInv, PageInv, OneRun, DealsInv, DownInv, [Next]_vars
               PROVE  DownInv'
    OBVIOUS
  <2>1. CASE RunStep \/ Grow
    <3>1. HostOk(host')
      BY <2>1, StepsStayDown
    <3>2. PICK j \in jobs : \E k : /\ jobs' = (jobs \ {j}) \cup {k}
                                   /\ Place(k) /\ Down(k, host')
      BY <2>1, StepsStayDown
    <3>3. PICK k : jobs' = (jobs \ {j}) \cup {k} /\ Place(k) /\ Down(k, host')
      BY <3>2
    <3>4. jobs' = {k}
      BY <3>3 DEF OneRun
    <3> QED  BY <3>1, <3>3, <3>4 DEF DownInv, Place, Down
  <2>2. CASE WorkComes \/ WorkEnds
    BY <2>2, WorkStaysDown DEF WorkComes, WorkEnds
  <2>3. \/ RunStep \/ Grow \/ WorkComes \/ WorkEnds
        \/ /\ UNCHANGED host
           /\ \/ Shutdown
              \/ \E m \in msgs : OnDecided(m)
              \/ jobs' = jobs
    BY DEF Next, KeyStep, OnMessage, OnGoroutine, JobStep, Passes, vars, hostVars, MenuKey,
           MenuChoice, AskFromElsewhere, ModalKey, CloseProgress, LeaveTab, EnterTab, OnRequest,
           OnForm, OnDiscarded, OnDecided, OnPlan, OnProgress, OnDone, Shutdown, Detect
  <2> QED  BY <2>1, <2>2, <2>3, PageStaysDown
<1>4. DownInv => DownOnlyWhereItFailed
  BY DEF DownInv, Down, DownOnlyWhereItFailed
<1> QED  BY <1>1, <1>2, <1>3, <1>4, TokenInvariance, ListsInvariance, OneRunInvariance, PTL
         DEF Spec

=============================================================================
