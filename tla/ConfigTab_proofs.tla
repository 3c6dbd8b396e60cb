-------------------------- MODULE ConfigTab_proofs --------------------------
(***************************************************************************)
(* Proofs about the Config tab, for any runners, units and bounds, where   *)
(* only the key that approves a diff may overtake its own answer and the   *)
(* tool's own configuration is not edited (Simple).                        *)
(*                                                                         *)
(* Gates     one modal at most is open, none while a job is in flight, and *)
(*           a change waits for its approval under the diff that shows it. *)
(* OneJob    "busy" stands for one job: the goroutine or its result.       *)
(* Fresh     no file has what is about to be written to it.                *)
(* Stays     the user is in front of the runner all this is about, and of  *)
(* Written   the change that was written to it, until it is applied.       *)
(* Loaded    what is left to be loaded, stage by stage of the apply.       *)
(*                                                                         *)
(* The last three need a user who stays while the tab is busy (Leaves is   *)
(* FALSE): if he leaves the change is applied to another runner.           *)
(***************************************************************************)
EXTENDS ConfigTab, FiniteSetTheorems, TLAPS

Simple == "self" \notin Kinds /\ Repeated \subseteq {"decided"}

Slow == {m \in msgs : m.type \in {"picked", "form", "chosen"}}
Returned == {m \in msgs : m.type \in {"loaded", "done"}}

Modal == {"form", "diff", "apply"}

Gates ==
  /\ busy \in BOOLEAN /\ pendingSet \in BOOLEAN /\ self = FALSE
  /\ stack \in {<<>>} \cup {<<k>> : k \in Modal}
  /\ \A m, n \in Slow : m = n
  /\ \A m \in Slow : /\ m.type = "picked" => m.who \in Runners
                     /\ m.type = "form" => ~busy /\ stack \in {<<>>, <<"form">>}
                     /\ m.type = "chosen" => ~busy /\ stack \in {<<>>, <<"apply">>}
  /\ pendingSet => stack = <<"diff">> /\ Slow = {}
  /\ busy => stack = <<>>

Single(S) == \E x \in S : S = {x}

OneJob ==
  IF busy
  THEN \/ Single(fetches) /\ writes = {} /\ applies = {} /\ Returned = {}
       \/ fetches = {} /\ Single(writes) /\ applies = {} /\ Returned = {}
       \/ fetches = {} /\ writes = {} /\ Single(applies) /\ Returned = {}
       \/ fetches = {} /\ writes = {} /\ applies = {} /\ Single(Returned)
  ELSE fetches = {} /\ writes = {} /\ applies = {} /\ Returned = {}

(* What is in the files was there at the beginning or is of a change.      *)
Files ==
  /\ changes \in Nat /\ target \in SomeRunner
  /\ file \in [FileKind -> [SomeRunner -> Nat]]
  /\ \A k \in FileKind, r \in SomeRunner : file[k][r] <= changes + 2

Content(c, r) == file[FileOf(c.kind)][r]

IsNew(c, todo) ==
  /\ todo \subseteq SomeRunner /\ c.content \in Nat /\ c.content <= changes + 2
  /\ \A r \in todo : Content(c, r) # c.content

WriteFields == {"id", "kind", "content", "todo", "at", "stage"}

Fresh ==
  /\ Files
  /\ pendingSet => IsNew(pending, pending.files)
  /\ \A w \in writes : /\ DOMAIN w = WriteFields /\ IsNew(w, w.todo)
                       /\ w.stage = "save" => w.at \in w.todo

Stays ==
  /\ stack # <<>> \/ busy \/ Slow # {} => front
  /\ stack # <<>> \/ busy => target # Nobody
  /\ \A m \in Slow : IF m.type = "picked" THEN ~busy /\ stack = <<>> ELSE target # Nobody

AllWritten == \A r \in pending.files : Content(pending, r) = pending.content

(* The runners a file is applied to are among those it was written for.    *)
Covers == FileBacked(pending) => ApplyTargets(pending) \subseteq pending.files

Applicable == FileBacked(pending) /\ ApplyTargets(pending) # {} /\ Covers /\ AllWritten

WritesPending(w) ==
  /\ w.kind = pending.kind /\ w.content = pending.content /\ w.todo \subseteq pending.files
  /\ \A r \in pending.files \ w.todo : Content(pending, r) = pending.content

Tells(m) ==
  /\ m.type = "chosen" => Applicable
  /\ m.type = "done" => \/ m.what = "apply" /\ pending = NoChange
                        \/ m.what = "write" /\ Covers /\ (m.ok => AllWritten)

ApplyFields == {"change", "method", "key", "todo", "done", "at", "stage", "after"}

AppliesWritten(a) ==
  /\ DOMAIN a = ApplyFields
  /\ \A r \in a.todo \cup ({a.at} \ {Nobody}) :
       r \in a.change.files /\ Content(a.change, r) = a.change.content

Written ==
  /\ pendingSet => Covers
  /\ stack = <<"apply">> => Applicable
  /\ \A w \in writes : Covers /\ WritesPending(w)
  /\ \A m \in msgs : Tells(m)
  /\ \A a \in applies : pending = NoChange /\ AppliesWritten(a)

Current(r) == [env |-> file["env"][r], dropin |-> daemon[r]]

DoneLoads(a) ==
  /\ a.todo \subseteq Runners /\ a.done \subseteq Runners /\ a.todo \cup a.done # {}
  /\ a.change.kind = "dropin" /\ a.done # {} => daemon = file["dropin"]
  /\ a.method # "none" => \A r \in a.done : loaded[r] = Current(r)

Idle(r) == request[r].verb = "none"

StageLoads(a) ==
  /\ a.stage # "next" => a.at \in a.todo
  /\ a.change.kind = "dropin" /\ a.stage \notin {"next", "reload"} => daemon = file["dropin"]
  /\ a.stage = "stopping" => request[a.at].verb = "stop" \/ (Idle(a.at) /\ ~up[a.at])
  /\ a.stage = "start" => Idle(a.at) /\ ~up[a.at]
  /\ a.stage = "finish" => \/ request[a.at].verb = "restart"
                           \/ request[a.at].verb = "start" /\ ~up[a.at]
                           \/ Idle(a.at) /\ loaded[a.at] = Current(a.at)

HostTypes == DOMAIN request = Runners /\ up \in [Runners -> BOOLEAN] /\ DOMAIN loaded = Runners

DoneIsKnown(m) == m.type = "done" /\ m.what = "apply" => m.done \subseteq Runners

Loaded == /\ HostTypes
          /\ \A a \in applies : DoneLoads(a) /\ StageLoads(a)
          /\ \A m \in msgs : DoneIsKnown(m)
          /\ AppliedIsLoaded

Turn == Gates /\ OneJob

IInv == Turn /\ Fresh
WInv == IInv /\ Stays /\ Written
LInv == WInv /\ Loaded

-----------------------------------------------------------------------------
(* With one modal at most, the stack is what is open.                      *)
LEMMA OneModal ==
  /\ Closed(<<>>) = <<>> /\ TopOf(<<>>) = "none"
  /\ \A k \in Modal : Pushed(<<>>, k) = <<k>> /\ Closed(<<k>>) = <<>> /\ TopOf(<<k>>) = k
<1>1. ASSUME NEW k \in Modal PROVE Pushed(<<>>, k) = <<k>> /\ Closed(<<k>>) = <<>>
  BY DEF Pushed, Closed
<1>2. QED
  BY <1>1 DEF Closed, TopOf

(* A key is pressed when the only answers under way are approvals.         *)
LEMMA PressedAlone ==
  ASSUME Simple, Press
  PROVE  Slow = {}
BY DEF Simple, Press, Slow, Answers

LEMMA Alone ==
  ASSUME OneJob
  PROVE  /\ \A r \in fetches : /\ busy /\ fetches = {r}
                               /\ writes = {} /\ applies = {} /\ Returned = {}
         /\ \A w \in writes : /\ busy /\ writes = {w}
                              /\ fetches = {} /\ applies = {} /\ Returned = {}
         /\ \A a \in applies : /\ busy /\ applies = {a}
                               /\ fetches = {} /\ writes = {} /\ Returned = {}
         /\ \A m \in Returned : /\ busy /\ Returned = {m}
                                /\ fetches = {} /\ writes = {} /\ applies = {}
         /\ ~busy => fetches = {} /\ writes = {} /\ applies = {} /\ Returned = {}
BY DEF OneJob, Single

-----------------------------------------------------------------------------
(* One modal and one job.                                                  *)

LEMMA TurnStays ==
  ASSUME Turn, UNCHANGED <<stack, pendingSet, self, busy, jobVars, msgs>>
  PROVE  Turn'
BY DEF Turn, Gates, OneJob, Single, Slow, Returned, jobVars

(* A key sends its answer; the guards of the handler are as they were.     *)
LEMMA TurnAnswers ==
  ASSUME Turn, Slow = {}, UNCHANGED <<stack, pendingSet, self, busy>>, NEW m, Answer(m),
         m.type \in {"picked", "form", "decided", "chosen"},
         m.type = "picked" => m.who \in Runners /\ ~pendingSet,
         m.type = "form" => stack = <<"form">>,
         m.type = "chosen" => stack = <<"apply">>
  PROVE  Turn'
<1>1. Slow' \subseteq {m} /\ (m.type = "decided" => Slow' = {}) /\ Returned' = Returned
  BY DEF Answer, Slow, Returned
<1>2. stack # <<>> => ~busy
  BY DEF Turn, Gates
<1>3. OneJob'
  BY <1>1 DEF Turn, OneJob, Single, Answer, jobVars
<1>4. ASSUME pendingSet, m.type # "decided" PROVE FALSE
  BY <1>4 DEF Turn, Gates
<1>5. Gates'
  BY <1>1, <1>2, <1>4 DEF Turn, Gates, Modal
<1>6. QED
  BY <1>3, <1>5 DEF Turn

LEMMA TurnKeys ==
  ASSUME ConfigTabAssumption, Simple, Turn, Keys
  PROVE  Turn'
<1> USE OneModal
<1>1. ASSUME NEW r \in Runners, PickKey(r) PROVE Turn'
  <2> DEFINE m == [type |-> "picked", key |-> Free, who |-> r]
  <2>1. Slow = {} /\ Answer(m) /\ UNCHANGED <<stack, pendingSet, self, busy>> /\ stack = <<>>
    BY <1>1, PressedAlone DEF PickKey, formVars
  <2>2. ~pendingSet
    BY <2>1 DEF Turn, Gates
  <2>3. QED
    BY <2>1, <2>2, TurnAnswers
<1>2. ASSUME NEW r \in Runners, EditConfig(r) PROVE Turn'
  BY <1>2, TurnStays DEF EditConfig, NothingElse, Turn, Gates
<1>3. ASSUME NEW k \in Kinds, SelectItem(k) PROVE Turn'
  <2>1. Slow = {} /\ stack = <<>> /\ ~busy
    BY <1>3, PressedAlone DEF SelectItem, MaySelect
  <2>2. Slow' = {} /\ Returned' = {} /\ fetches = {} /\ writes' = {} /\ applies' = {}
    BY <1>3, <2>1 DEF SelectItem, NothingElse, Turn, OneJob, Slow, Returned
  <2>3. CASE k = "labels"
    <3>1. busy' = TRUE /\ fetches' = {target} /\ stack' = <<>> /\ UNCHANGED <<pendingSet, self>>
      BY <1>3, <2>1, <2>2, <2>3 DEF SelectItem
    <3>2. QED
      BY <2>1, <2>2, <3>1 DEF Turn, Gates, OneJob, Single
  <2>4. CASE k # "labels"
    <3>1. /\ busy' = FALSE /\ fetches' = {} /\ stack' = <<"form">>
          /\ UNCHANGED <<pendingSet, self>>
      BY <1>3, <2>1, <2>2, <2>4 DEF SelectItem, OpenForm, Modal, Turn, Gates
    <3>2. QED
      BY <2>1, <2>2, <3>1 DEF Turn, Gates, OneJob, Modal
  <2>5. QED
    BY <2>3, <2>4
<1>4. ASSUME NEW yes \in BOOLEAN, FormKey(yes) PROVE Turn'
  <2> DEFINE m == [type |-> "form", key |-> Free, yes |-> yes]
  <2>1. Slow = {} /\ Answer(m) /\ UNCHANGED <<stack, pendingSet, self, busy>>
    BY <1>4, PressedAlone DEF FormKey
  <2>2. stack = <<"form">>
    BY <1>4 DEF FormKey, Top, Turn, Gates, Modal
  <2>3. QED
    BY <2>1, <2>2, TurnAnswers
<1>5. ASSUME NEW yes \in BOOLEAN, DecideKey(yes) PROVE Turn'
  <2> DEFINE m == [type |-> "decided", key |-> Free, yes |-> yes]
  <2>1. Slow = {} /\ Answer(m) /\ UNCHANGED <<stack, pendingSet, self, busy>>
    BY <1>5, PressedAlone DEF DecideKey, formVars
  <2>2. QED
    BY <2>1, TurnAnswers
<1>6. ASSUME NEW how, ApplyKey(how) PROVE Turn'
  <2> DEFINE m == [type |-> "chosen", key |-> Free, method |-> how]
  <2>1. Slow = {} /\ Answer(m) /\ UNCHANGED <<stack, pendingSet, self, busy>>
    BY <1>6, PressedAlone DEF ApplyKey, formVars
  <2>2. stack = <<"apply">>
    BY <1>6 DEF ApplyKey, Top, Turn, Gates, Modal
  <2>3. QED
    BY <2>1, <2>2, TurnAnswers
<1>7. CASE GoBack \/ LeaveTab \/ EnterTab
  BY <1>7, TurnStays DEF GoBack, LeaveTab, EnterTab, NothingElse
<1>8. QED
  BY <1>1, <1>2, <1>3, <1>4, <1>5, <1>6, <1>7 DEF Keys, ApplyEsc, Simple

LEMMA TurnArrivals ==
  ASSUME ConfigTabAssumption, Turn, Arrivals
  PROVE  Turn'
<1> USE OneModal DEF Turn
<1>1. PICK m \in msgs : \/ OnPicked(m) \/ OnLoaded(m) \/ OnForm(m)
                        \/ OnDecided(m) \/ OnDone(m) \/ OnChosen(m)
  BY DEF Arrivals
<1>2. Slow' \subseteq Slow /\ Returned' = Returned \ {m} /\ m \notin Slow'
  BY <1>1 DEF Slow, Returned, OnPicked, OnLoaded, OnForm, OnDecided, OnDone, OnChosen
<1>3. m \in Slow => Slow' = {} /\ ~pendingSet
  BY <1>2 DEF Gates
<1>4. ASSUME m.type \notin {"loaded", "done"} PROVE Returned' = Returned
  BY <1>2, <1>4 DEF Returned
<1>5. CASE OnPicked(m)
  <2>1. m \in Slow /\ m.who # Nobody
    BY <1>5 DEF OnPicked, Slow, Gates, ConfigTabAssumption
  <2>2. /\ self' = FALSE
        /\ UNCHANGED <<stack, pendingSet, busy, fetches, writes, applies, Returned>>
    BY <1>4, <1>5, <2>1 DEF OnPicked, jobVars
  <2>3. QED
    BY <1>2, <1>3, <2>1, <2>2 DEF Gates, OneJob, Single
<1>6. CASE OnLoaded(m)
  <2>1. m \in Returned
    BY <1>6 DEF OnLoaded, Returned
  <2>2. /\ busy /\ stack = <<>> /\ Returned' = {} /\ ~pendingSet
        /\ fetches = {} /\ writes = {} /\ applies = {}
    BY <1>2, <2>1, Alone DEF Gates
  <2>3. /\ busy' = FALSE /\ stack' \in {<<>>, <<"form">>}
        /\ UNCHANGED <<pendingSet, self, fetches, writes, applies>>
    BY <1>6, <2>2 DEF OnLoaded, OpenForm, jobVars, Modal
  <2>4. Slow' = Slow /\ \A n \in Slow : n.type = "picked" \/ stack' = <<"form">> \/ stack' = <<>>
    BY <1>2, <1>6, <2>3 DEF OnLoaded, Slow
  <2>5. \A n \in Slow : n.type = "picked"
    BY <2>2 DEF Gates, Slow
  <2>6. QED
    BY <2>2, <2>3, <2>4, <2>5 DEF Gates, OneJob, Modal
<1>7. CASE OnForm(m)
  <2>1. m \in Slow
    BY <1>7 DEF OnForm, Slow
  <2>2. ~busy /\ stack \in {<<>>, <<"form">>} /\ ~pendingSet /\ Slow' = {}
    BY <1>3, <1>7, <2>1 DEF OnForm, Gates
  <2>3. /\ \/ stack' = <<>> /\ pendingSet' = FALSE
           \/ stack' = <<"diff">> /\ pendingSet' = TRUE
        /\ UNCHANGED <<self, busy, fetches, writes, applies, Returned>>
    BY <1>4, <1>7, <2>2 DEF OnForm, jobVars, Modal, Gates
  <2>4. QED
    BY <2>2, <2>3 DEF Gates, OneJob, Single, Modal
<1>8. CASE OnDecided(m)
  <2>1. m \notin Slow /\ Slow' = Slow /\ Returned' = Returned
    BY <1>2, <1>4, <1>8 DEF OnDecided, Slow
  <2>2. stack' = <<>>
    BY <1>8 DEF OnDecided, Gates
  <2>3. CASE ~Accepted
    <3>1. UNCHANGED <<pendingSet, self, busy, fetches, writes, applies>>
      BY <1>8, <2>3 DEF OnDecided
    <3>2. ~pendingSet
      BY <2>3 DEF Accepted, Gates
    <3>3. QED
      BY <2>1, <2>2, <3>1, <3>2 DEF Gates, OneJob, Single
  <2>4. CASE Accepted
    <3>1. /\ pendingSet /\ ~busy /\ Slow = {} /\ fetches = {} /\ writes = {} /\ applies = {}
          /\ Returned = {}
      BY <2>4, Alone DEF Accepted, Gates
    <3>2. /\ pendingSet' = FALSE /\ self' = FALSE /\ UNCHANGED <<fetches, applies>>
          /\ \/ busy' = TRUE /\ writes' = {Write(pending)}
             \/ busy' = FALSE /\ writes' = {}
      BY <1>8, <2>4, <3>1 DEF OnDecided, Gates
    <3>3. QED
      BY <2>1, <2>2, <3>1, <3>2 DEF Gates, OneJob, Single
  <2>5. QED
    BY <2>3, <2>4
<1>9. CASE OnDone(m)
  <2>1. m \in Returned
    BY <1>9 DEF OnDone, Returned
  <2>2. /\ busy /\ stack = <<>> /\ Returned' = {} /\ ~pendingSet
        /\ fetches = {} /\ writes = {} /\ applies = {}
    BY <1>2, <2>1, Alone DEF Gates
  <2>3. /\ busy' = FALSE /\ stack' \in {<<>>, <<"apply">>}
        /\ UNCHANGED <<pendingSet, self, fetches, writes, applies>>
    BY <1>9, <2>2 DEF OnDone, jobVars, Modal
  <2>4. Slow' = Slow
    BY <1>9 DEF OnDone, Slow
  <2>5. \A n \in Slow : n.type = "picked"
    BY <2>2 DEF Gates, Slow
  <2>6. QED
    BY <2>2, <2>3, <2>4, <2>5 DEF Gates, OneJob, Modal
<1>10. CASE OnChosen(m)
  <2>1. m \in Slow
    BY <1>10 DEF OnChosen, Slow
  <2>2. /\ ~busy /\ stack \in {<<>>, <<"apply">>} /\ ~pendingSet /\ Slow' = {}
        /\ fetches = {} /\ writes = {} /\ applies = {} /\ Returned = {}
    BY <1>3, <1>10, <2>1, Alone DEF OnChosen, Gates
  <2>3. /\ stack' = <<>> /\ busy' = TRUE /\ Single(applies')
        /\ UNCHANGED <<pendingSet, self, fetches, writes, Returned>>
    BY <1>4, <1>10, <2>2 DEF OnChosen, Single, Modal
  <2>4. QED
    BY <2>2, <2>3 DEF Gates, OneJob, Single
<1>11. QED
  BY <1>1, <1>5, <1>6, <1>7, <1>8, <1>9, <1>10

(* What goroutines send is a result and ends them.                         *)
LEMMA TurnGoesOn ==
  ASSUME Turn, UNCHANGED <<stack, pendingSet, self, busy>>,
         \/ /\ fetches # {} /\ fetches' = {} /\ UNCHANGED <<writes, applies>>
            /\ \E m : m.type = "loaded" /\ msgs' = msgs \cup {m}
         \/ /\ writes # {} /\ UNCHANGED <<fetches, applies>>
            /\ \/ Single(writes') /\ UNCHANGED msgs
               \/ writes' = {} /\ \E m : m.type = "done" /\ msgs' = msgs \cup {m}
         \/ /\ applies # {} /\ UNCHANGED <<fetches, writes>>
            /\ \/ Single(applies') /\ UNCHANGED msgs
               \/ applies' = {} /\ \E m : m.type = "done" /\ msgs' = msgs \cup {m}
  PROVE  Turn'
<1>1. /\ busy /\ Returned = {}
      /\ fetches # {} => writes = {} /\ applies = {}
      /\ writes # {} => fetches = {} /\ applies = {}
      /\ applies # {} => fetches = {} /\ writes = {}
  BY Alone DEF Turn
<1>2. ASSUME NEW m, m.type \in {"loaded", "done"}, msgs' = msgs \cup {m}
      PROVE  Slow' = Slow /\ Returned' = {m}
  BY <1>1, <1>2 DEF Slow, Returned
<1>3. ASSUME UNCHANGED msgs PROVE Slow' = Slow /\ Returned' = {}
  BY <1>1, <1>3 DEF Slow, Returned
<1>4. Slow' = Slow
  BY <1>2, <1>3
<1>5. Gates'
  BY <1>1, <1>4 DEF Turn, Gates
<1>6. OneJob'
  BY <1>1, <1>2, <1>3 DEF OneJob, Single
<1>7. QED
  BY <1>5, <1>6 DEF Turn

LEMMA ApplyDoneFields ==
  ASSUME NEW a, NEW ok, NEW failed
  PROVE  LET m == ApplyDone(a, ok, failed) IN
         /\ m.type = "done" /\ m.what = "apply" /\ m.ok = ok /\ m.method = a.method
         /\ m.change = a.change /\ m.done = a.done
BY DEF ApplyDone, Done

(* A goroutine that applies goes on as b, or ends with a result.           *)
LEMMA ApplyStep ==
  ASSUME NEW a \in applies, RunNext(a) \/ Reload(a) \/ Scan(a) \/ Interval(a)
                            \/ Stop(a) \/ Start(a) \/ Restart(a) \/ Return(a)
  PROVE  \/ \E b : ApplyGoesOn(a, b)
         \/ /\ applies' = applies \ {a}
            /\ \E ok, failed : msgs' = msgs \cup {ApplyDone(a, ok, failed)}
<1> USE DEF ApplyFails, ApplyStage, NextRunner
<1>1. CASE RunNext(a)
  BY <1>1 DEF RunNext
<1>2. CASE Reload(a)
  BY <1>2 DEF Reload
<1>3. CASE Scan(a) \/ Interval(a)
  BY <1>3 DEF Scan, Interval
<1>4. CASE Stop(a) \/ Start(a) \/ Restart(a)
  BY <1>4 DEF Stop, Start, Restart, Systemctl
<1>5. CASE Return(a)
  BY <1>5 DEF Return
<1>6. QED
  BY <1>1, <1>2, <1>3, <1>4, <1>5

LEMMA TurnGoroutines ==
  ASSUME Turn, Goroutines
  PROVE  Turn'
<1> USE DEF formVars
<1>1. ASSUME NEW r \in fetches, FetchEnds(r) PROVE Turn'
  <2>1. fetches = {r}
    BY Alone DEF Turn
  <2>2. fetches' = {} /\ UNCHANGED <<writes, applies, stack, pendingSet, self, busy>>
    BY <1>1, <2>1 DEF FetchEnds
  <2>3. \E m : m.type = "loaded" /\ msgs' = msgs \cup {m}
    BY <1>1 DEF FetchEnds
  <2>4. QED
    BY <2>1, <2>2, <2>3, TurnGoesOn
<1>2. CASE Writing
  <2>1. PICK w \in writes : Backup(w) \/ Save(w) \/ Commit(w)
    BY <1>2 DEF Writing
  <2>2. writes = {w} /\ UNCHANGED <<fetches, applies, stack, pendingSet, self, busy>>
    BY <1>2, Alone DEF Writing, Turn
  <2>3. (\E v : WriteGoesOn(w, v)) \/ (\E ok : WriteEnds(w, ok))
    BY <2>1 DEF Backup, Save, Commit
  <2>4. ASSUME NEW v, WriteGoesOn(w, v) PROVE Turn'
    BY <2>2, <2>4, TurnGoesOn DEF WriteGoesOn, Single
  <2>5. ASSUME NEW ok, WriteEnds(w, ok) PROVE Turn'
    <3>1. Done("write", w.id, ok).type = "done" /\ writes' = {}
      BY <2>2, <2>5 DEF Done, WriteEnds
    <3>2. QED
      BY <2>2, <2>5, <3>1, TurnGoesOn DEF WriteEnds
  <2>6. QED
    BY <2>3, <2>4, <2>5
<1>3. CASE Applying
  <2>1. PICK a \in applies : \/ RunNext(a) \/ Reload(a) \/ Scan(a) \/ Interval(a)
                             \/ Stop(a) \/ Start(a) \/ Restart(a) \/ Return(a)
    BY <1>3 DEF Applying
  <2>2. applies = {a} /\ UNCHANGED <<fetches, writes, stack, pendingSet, self, busy>>
    BY <1>3, Alone DEF Applying, Turn
  <2>3. ASSUME NEW b, ApplyGoesOn(a, b) PROVE Turn'
    BY <2>2, <2>3, TurnGoesOn DEF ApplyGoesOn, Single
  <2>4. ASSUME NEW ok, NEW failed, applies' = applies \ {a},
               msgs' = msgs \cup {ApplyDone(a, ok, failed)}
        PROVE  Turn'
    BY <2>2, <2>4, ApplyDoneFields, TurnGoesOn
  <2>5. QED
    BY <2>1, <2>3, <2>4, ApplyStep
<1>4. QED
  BY <1>1, <1>2, <1>3 DEF Goroutines

LEMMA TurnInvariant ==
  ASSUME ConfigTabAssumption, Simple
  PROVE  Spec => []Turn
<1>1. Init => Turn
  BY DEF Init, Turn, Gates, OneJob, Slow, Returned, Simple
<1>2. Turn /\ [Next]_vars => Turn'
  <2>1. ASSUME Turn, Keys PROVE Turn'
    BY <2>1, TurnKeys
  <2>2. ASSUME Turn, Arrivals PROVE Turn'
    BY <2>2, TurnArrivals
  <2>3. ASSUME Turn, Goroutines PROVE Turn'
    BY <2>3, TurnGoroutines
  <2>4. ASSUME Turn, HostStep PROVE Turn'
    BY <2>4, TurnStays DEF HostStep, formVars
  <2>5. ASSUME Turn, UNCHANGED vars PROVE Turn'
    BY <2>5, TurnStays DEF vars, formVars
  <2>6. QED
    BY <2>1, <2>2, <2>3, <2>4, <2>5 DEF Next
<1>3. QED
  BY <1>1, <1>2, PTL DEF Spec

(* Model.busy: whatever is pressed and however late an answer *)
(* comes, a job is in flight or has sent its result exactly while the tab  *)
(* is busy, for any runners; also when the user leaves meanwhile.          *)
THEOREM OneJobAtATime ==
  ASSUME ConfigTabAssumption, Simple
  PROVE  Spec => []BusyIsOneJob
<1>1. Turn => BusyIsOneJob
  <2> SUFFICES ASSUME Turn PROVE BusyIsOneJob
    OBVIOUS
  <2> DEFINE Count == Cardinality(fetches) + Cardinality(writes) + Cardinality(applies)
                        + Cardinality(Returned)
             Counted == Count = IF busy THEN 1 ELSE 0
  <2> SUFFICES Counted
    BY DEF BusyIsOneJob, Returned
  <2>1. ASSUME NEW S, Single(S) PROVE Cardinality(S) = 1
    BY <2>1, FS_Singleton DEF Single
  <2>2. Cardinality({}) = 0
    BY FS_EmptySet
  <2>3. CASE busy
    <3>1. CASE Single(fetches) /\ writes = {} /\ applies = {} /\ Returned = {}
      BY <2>1, <2>2, <2>3, <3>1
    <3>2. CASE fetches = {} /\ Single(writes) /\ applies = {} /\ Returned = {}
      BY <2>1, <2>2, <2>3, <3>2
    <3>3. CASE fetches = {} /\ writes = {} /\ Single(applies) /\ Returned = {}
      BY <2>1, <2>2, <2>3, <3>3
    <3>4. CASE fetches = {} /\ writes = {} /\ applies = {} /\ Single(Returned)
      BY <2>1, <2>2, <2>3, <3>4
    <3>5. QED
      BY <2>3, <3>1, <3>2, <3>3, <3>4 DEF Turn, OneJob
  <2>4. CASE ~busy
    BY <2>2, <2>4 DEF Turn, OneJob
  <2>5. QED
    BY <2>3, <2>4
<1>2. QED
  BY <1>1, TurnInvariant, PTL

-----------------------------------------------------------------------------
(* No file has what is about to be written to it.                          *)

LEMMA FreshStays ==
  ASSUME Fresh, UNCHANGED <<file, changes, writes>>, target' \in SomeRunner,
         pendingSet' => pendingSet /\ UNCHANGED pending
  PROVE  Fresh'
BY DEF Fresh, Files, IsNew, Content

LEMMA FreshKeys ==
  ASSUME Fresh, Keys
  PROVE  Fresh'
<1> USE DEF NothingElse, formVars, diskVars, jobVars, Answer
<1>1. target \in SomeRunner /\ Nobody \in SomeRunner /\ \A r \in Runners : r \in SomeRunner
  BY DEF Fresh, Files, SomeRunner
<1>2. ASSUME NEW r, PickKey(r) PROVE Fresh'
  BY <1>1, <1>2, FreshStays DEF PickKey
<1>3. ASSUME NEW r \in Runners, EditConfig(r) PROVE Fresh'
  BY <1>1, <1>3, FreshStays DEF EditConfig
<1>4. ASSUME NEW k \in Kinds, SelectItem(k) PROVE Fresh'
  BY <1>1, <1>4, FreshStays DEF SelectItem
<1>5. ASSUME NEW yes \in BOOLEAN, FormKey(yes) \/ DecideKey(yes) PROVE Fresh'
  BY <1>1, <1>5, FreshStays DEF FormKey, DecideKey
<1>6. ASSUME NEW how, ApplyKey(how) PROVE Fresh'
  BY <1>1, <1>6, FreshStays DEF ApplyKey
<1>7. CASE GoBack \/ LeaveTab \/ EnterTab
  BY <1>1, <1>7, FreshStays DEF GoBack, LeaveTab, EnterTab
<1>8. QED
  BY <1>2, <1>3, <1>4, <1>5, <1>6, <1>7 DEF Keys, ApplyEsc

(* A new content for the files that get one, a content they do not have    *)
(* for the targets of a copy.                                              *)
LEMMA BuiltIsNew ==
  ASSUME ConfigTabAssumption, Files, NEW kind, NEW c \in Build(kind)
  PROVE  /\ c.files \subseteq SomeRunner /\ c.content \in Nat /\ c.content <= changes + 3
         /\ \A r \in c.files : Content(c, r) # c.content
<1> USE DEF Files, Content, FileOf, FileKind, SomeRunner
<1>1. /\ c.kind = kind /\ c.content = ContentOf(kind) /\ c.files \in FilesOf(kind)
  BY DEF Build
<1>2. CASE kind \in FileKind
  <2>1. c.content = changes + 3 /\ c.files \subseteq {target}
    BY <1>1, <1>2 DEF ContentOf, FilesOf
  <2>2. \A r \in c.files : Content(c, r) <= changes + 2
    BY <2>1, <1>1, <1>2
  <2>3. QED
    BY <2>1, <2>2
<1>3. CASE kind = "copy"
  <2>1. c.content = file["env"][target] /\ c.files \subseteq Runners
        /\ \A r \in c.files : file["env"][r] # file["env"][target]
    BY <1>1, <1>3 DEF ContentOf, FilesOf, CopyTargets
  <2>2. QED
    BY <1>1, <1>3, <2>1
<1>4. CASE kind \notin FileKind \cup {"copy"}
  BY <1>1, <1>4 DEF ContentOf, FilesOf
<1>5. QED
  BY <1>2, <1>3, <1>4

LEMMA FreshArrivals ==
  ASSUME ConfigTabAssumption, Turn, Fresh, Arrivals
  PROVE  Fresh'
<1> USE DEF jobVars, diskVars
<1>1. PICK m \in msgs : \/ OnPicked(m) \/ OnLoaded(m) \/ OnForm(m)
                        \/ OnDecided(m) \/ OnDone(m) \/ OnChosen(m)
  BY DEF Arrivals
<1>2. Files /\ target \in SomeRunner /\ Gates
  BY DEF Fresh, Files, Turn
<1>3. CASE OnPicked(m)
  BY <1>2, <1>3, FreshStays DEF OnPicked, SomeRunner
<1>4. CASE OnLoaded(m)
  BY <1>2, <1>4, FreshStays DEF OnLoaded
<1>5. CASE OnForm(m)
  <2>1. m \in Slow
    BY <1>5 DEF OnForm, Slow
  <2>2. writes = {} /\ self = FALSE
    BY <1>2, <1>5, <2>1, Alone DEF OnForm, Gates, Turn
  <2>3. CASE UNCHANGED <<pending, pendingSet, changes>>
    BY <1>2, <1>5, <2>3, FreshStays DEF OnForm
  <2>4. CASE pending' \in Build(form.kind) /\ changes' = changes + 1
    <3>1. UNCHANGED <<file, target, writes>>
      BY <1>5 DEF OnForm
    <3>2. /\ pending'.files \subseteq SomeRunner /\ pending'.content \in Nat
          /\ pending'.content <= changes + 3
          /\ \A r \in pending'.files : file[FileOf(pending'.kind)][r] # pending'.content
      BY <1>2, <2>4, BuiltIsNew DEF Content
    <3>3. Files'
      BY <1>2, <2>4, <3>1 DEF Files
    <3>4. IsNew(pending, pending.files)'
      BY <1>2, <2>4, <3>1, <3>2 DEF IsNew, Content, Files
    <3>5. QED
      BY <2>2, <3>1, <3>3, <3>4 DEF Fresh
  <2>5. QED
    BY <1>5, <2>2, <2>3, <2>4 DEF OnForm
<1>6. CASE OnDecided(m)
  <2>1. UNCHANGED <<file, changes, target>>
    BY <1>6 DEF OnDecided
  <2>2. CASE UNCHANGED writes
    BY <1>2, <1>6, <2>1, <2>2, FreshStays DEF OnDecided
  <2>3. CASE Accepted /\ pendingSet' = FALSE /\ writes' = writes \cup {Write(pending)}
    <3>1. IsNew(pending, pending.files)
      BY <2>3 DEF Fresh, Accepted
    <3>2. /\ IsNew(Write(pending), Write(pending).todo) /\ Write(pending).stage = "backup"
          /\ DOMAIN Write(pending) = WriteFields
      BY <3>1 DEF IsNew, Write, Content, WriteFields
    <3>3. QED
      BY <1>2, <2>1, <2>3, <3>2 DEF Fresh, Files, IsNew, Content
  <2>4. QED
    BY <1>2, <1>6, <2>2, <2>3 DEF OnDecided, Gates
<1>7. CASE OnDone(m)
  <2>1. ~pendingSet
    <3>1. m \in Returned
      BY <1>7 DEF OnDone, Returned
    <3>2. QED
      BY <1>2, <3>1, Alone DEF Gates, Turn
  <2>2. QED
    BY <1>2, <1>7, <2>1, FreshStays DEF OnDone
<1>8. CASE OnChosen(m)
  <2>1. ~pendingSet
    BY <1>2, <1>8 DEF OnChosen, Gates, Slow
  <2>2. QED
    BY <1>2, <1>8, <2>1, FreshStays DEF OnChosen
<1>9. QED
  BY <1>1, <1>3, <1>4, <1>5, <1>6, <1>7, <1>8

(* A file is written once: what is left to write has not got the content. *)
LEMMA FreshWriting ==
  ASSUME ConfigTabAssumption, Turn, Fresh, Writing
  PROVE  Fresh'
<1>1. PICK w \in writes : Backup(w) \/ Save(w) \/ Commit(w)
  BY DEF Writing
<1>2. /\ writes = {w} /\ ~pendingSet
      /\ UNCHANGED <<changes, target, pending, pendingSet>>
  BY Alone DEF Writing, formVars, Turn, Gates
<1>3. DOMAIN w = WriteFields /\ IsNew(w, w.todo) /\ Files /\ (w.stage = "save" => w.at \in w.todo)
  BY DEF Fresh
<1>4. ASSUME UNCHANGED file, writes' = {} PROVE Fresh'
  BY <1>2, <1>3, <1>4 DEF Fresh, Files
<1>5. CASE Backup(w)
  <2>1. ASSUME NEW r \in w.todo, WriteGoesOn(w, [w EXCEPT !.at = r, !.stage = "save"])
        PROVE  Fresh'
    <3> DEFINE v == [w EXCEPT !.at = r, !.stage = "save"]
    <3>1. /\ DOMAIN v = WriteFields /\ v.at = r /\ v.todo = w.todo
          /\ v.kind = w.kind /\ v.content = w.content
      BY <1>3 DEF WriteFields
    <3>2. writes' = {v} /\ UNCHANGED file
      BY <1>2, <1>5, <2>1 DEF Backup, WriteGoesOn
    <3> HIDE DEF v
    <3>3. IsNew(v, v.todo)'
      BY <1>2, <1>3, <3>1, <3>2 DEF IsNew, Content
    <3>4. QED
      BY <1>2, <1>3, <2>1, <3>1, <3>2, <3>3 DEF Fresh, Files
  <2>2. QED
    BY <1>2, <1>4, <1>5, <2>1 DEF Backup, WriteEnds
<1>6. CASE Save(w)
  <2>1. CASE WriteEnds(w, FALSE) /\ UNCHANGED file
    BY <1>2, <1>4, <2>1 DEF WriteEnds
  <2>2. CASE file' = [file EXCEPT ![FileOf(w.kind)][w.at] = w.content]
    <3>1. w.at \in w.todo /\ w.at \in SomeRunner /\ FileOf(w.kind) \in FileKind
      BY <1>3, <1>6 DEF Save, IsNew, FileOf, FileKind
    <3>2. Files'
      BY <1>2, <1>3, <2>2, <3>1 DEF Files, IsNew
    <3>3. CASE writes' = {}
      BY <1>2, <3>2, <3>3 DEF Fresh
    <3>4. CASE WriteGoesOn(w, [w EXCEPT !.todo = @ \ {w.at}, !.stage = "backup"])
      <4> DEFINE v == [w EXCEPT !.todo = @ \ {w.at}, !.stage = "backup"]
      <4>1. /\ DOMAIN v = WriteFields /\ v.todo = w.todo \ {w.at} /\ v.stage = "backup"
            /\ v.kind = w.kind /\ v.content = w.content
        BY <1>3 DEF WriteFields
      <4>2. writes' = {v}
        BY <1>2, <3>4 DEF WriteGoesOn
      <4> HIDE DEF v
      <4>3. \A r \in v.todo : file'[FileOf(w.kind)][r] = file[FileOf(w.kind)][r]
        BY <1>3, <2>2, <3>1, <4>1 DEF Files, IsNew
      <4>4. IsNew(v, v.todo)'
        BY <1>2, <1>3, <4>1, <4>3 DEF IsNew, Content
      <4>5. QED
        BY <1>2, <3>2, <4>1, <4>2, <4>4 DEF Fresh
    <3>5. QED
      BY <1>2, <1>6, <2>2, <3>3, <3>4 DEF Save, WriteEnds
  <2>3. QED
    BY <1>6, <2>1, <2>2 DEF Save
<1>7. CASE Commit(w)
  BY <1>2, <1>4, <1>7 DEF Commit, WriteEnds
<1>8. QED
  BY <1>1, <1>5, <1>6, <1>7

LEMMA FreshInvariant ==
  ASSUME ConfigTabAssumption, Simple
  PROVE  Spec => []IInv
<1>1. Init => Fresh
  <2> SUFFICES ASSUME Init PROVE Fresh
    OBVIOUS
  <2>1. file \in [FileKind -> [SomeRunner -> 0..2]]
    BY DEF Init, FileKind, SomeRunner
  <2>2. \A k \in FileKind, r \in SomeRunner : file[k][r] \in 0..2
    BY <2>1
  <2>3. target \in SomeRunner /\ changes = 0
    BY DEF Init, SomeRunner
  <2>4. Files
    BY <2>1, <2>2, <2>3 DEF Files
  <2>5. QED
    BY <2>4 DEF Init, Fresh
<1>2. Turn /\ Fresh /\ [Next]_vars => Fresh'
  <2> SUFFICES ASSUME Turn, Fresh, [Next]_vars PROVE Fresh'
    OBVIOUS
  <2> USE DEF formVars, diskVars, jobVars
  <2>1. target \in SomeRunner
    BY DEF Fresh, Files
  <2>2. CASE Keys
    BY <2>2, FreshKeys
  <2>3. CASE Arrivals
    BY <2>3, FreshArrivals
  <2>4. ASSUME NEW r \in fetches, FetchEnds(r) PROVE Fresh'
    BY <2>1, <2>4, FreshStays DEF FetchEnds
  <2>5. CASE Writing
    BY <2>5, FreshWriting
  <2>6. CASE Applying
    BY <2>1, <2>6, FreshStays DEF Applying
  <2>7. CASE HostStep
    BY <2>1, <2>7, FreshStays DEF HostStep
  <2>8. CASE UNCHANGED vars
    BY <2>1, <2>8, FreshStays DEF vars
  <2>9. QED
    BY <2>2, <2>3, <2>4, <2>5, <2>6, <2>7, <2>8 DEF Next, Goroutines
<1>3. QED
  BY <1>1, <1>2, TurnInvariant, PTL DEF Spec, IInv

(* backupIfExists of config/edit: a write about to back a file up has not  *)
(* written to it yet, however often the approval was pressed, so that .bak *)
(* gets what was there before; also when the user leaves meanwhile.        *)
THEOREM BackupsAreOfTheOld ==
  ASSUME ConfigTabAssumption, Simple
  PROVE  Spec => []BackupKeepsPrevious
<1>1. IInv => BackupKeepsPrevious
  BY DEF IInv, Fresh, IsNew, Content, BackupKeepsPrevious
<1>2. QED
  BY <1>1, FreshInvariant, PTL

-----------------------------------------------------------------------------
(* The user stays in front of the runner.                                  *)

LEMMA StaysAnswers ==
  ASSUME Stays, Slow = {}, front, UNCHANGED formVars, NEW m, Answer(m),
         m.type = "picked" => ~busy /\ stack = <<>>,
         m.type \in {"form", "chosen"} => stack # <<>>
  PROVE  Stays'
<1>1. Slow' \subseteq {m} /\ \A n \in Slow' : n.type \in {"picked", "form", "chosen"}
  BY DEF Answer, Slow
<1>2. QED
  BY <1>1 DEF Stays, formVars

LEMMA StaysKeys ==
  ASSUME ConfigTabAssumption, Simple, ~Leaves, Turn, Stays, Keys
  PROVE  Stays'
<1> USE OneModal DEF NothingElse
<1>1. ASSUME NEW r \in Runners, PickKey(r) PROVE Stays'
  <2> DEFINE m == [type |-> "picked", key |-> Free, who |-> r]
  <2>1. Slow = {} /\ Answer(m) /\ UNCHANGED formVars /\ stack = <<>> /\ front /\ ~busy
    BY <1>1, PressedAlone DEF PickKey, Press, Stays
  <2>2. QED
    BY <2>1, StaysAnswers
<1>2. ASSUME NEW r \in Runners, EditConfig(r) PROVE Stays'
  <2>1. Slow' = {}
    BY <1>2 DEF EditConfig, Stays, Slow
  <2>2. QED
    BY <1>2, <2>1 DEF EditConfig, Stays
<1>3. ASSUME NEW k \in Kinds, SelectItem(k) PROVE Stays'
  <2>1. Slow = {} /\ front /\ target # Nobody
    BY <1>3, PressedAlone DEF SelectItem, Press
  <2>2. Slow' = {} /\ UNCHANGED <<front, target>>
    BY <1>3, <2>1 DEF SelectItem, Slow
  <2>3. QED
    BY <2>1, <2>2 DEF Stays
<1>4. ASSUME NEW yes \in BOOLEAN, FormKey(yes) PROVE Stays'
  <2> DEFINE m == [type |-> "form", key |-> Free, yes |-> yes]
  <2>1. Slow = {} /\ Answer(m) /\ front /\ UNCHANGED <<front, stack, target, busy>>
    BY <1>4, PressedAlone DEF FormKey, Press
  <2>2. stack # <<>>
    BY <1>4 DEF FormKey, Top
  <2>3. Slow' \subseteq {m}
    BY <2>1 DEF Answer, Slow
  <2>4. QED
    BY <2>1, <2>2, <2>3 DEF Stays
<1>5. ASSUME NEW yes \in BOOLEAN, DecideKey(yes) PROVE Stays'
  <2> DEFINE m == [type |-> "decided", key |-> Free, yes |-> yes]
  <2>1. Slow = {} /\ Answer(m) /\ UNCHANGED formVars /\ front
    BY <1>5, PressedAlone DEF DecideKey, Press
  <2>2. QED
    BY <2>1, StaysAnswers
<1>6. ASSUME NEW how, ApplyKey(how) PROVE Stays'
  <2> DEFINE m == [type |-> "chosen", key |-> Free, method |-> how]
  <2>1. Slow = {} /\ Answer(m) /\ UNCHANGED formVars /\ front
    BY <1>6, PressedAlone DEF ApplyKey, Press
  <2>2. stack # <<>>
    BY <1>6 DEF ApplyKey, Top
  <2>3. QED
    BY <2>1, <2>2, StaysAnswers
<1>7. CASE GoBack \/ LeaveTab
  <2>1. Slow = {} /\ Slow' = {} /\ stack' = <<>> /\ ~busy'
    BY <1>7, PressedAlone DEF GoBack, LeaveTab, MayLeave, Slow
  <2>2. QED
    BY <2>1 DEF Stays
<1>8. CASE EnterTab
  <2>1. Slow' = Slow /\ front' /\ UNCHANGED <<stack, target, busy>>
    BY <1>8 DEF EnterTab, Slow
  <2>2. QED
    BY <2>1 DEF Stays
<1>9. QED
  BY <1>1, <1>2, <1>3, <1>4, <1>5, <1>6, <1>7, <1>8 DEF Keys, ApplyEsc, Simple

LEMMA StaysArrivals ==
  ASSUME ConfigTabAssumption, Turn, Stays, Arrivals
  PROVE  Stays'
<1> USE OneModal
<1>1. PICK m \in msgs : \/ OnPicked(m) \/ OnLoaded(m) \/ OnForm(m)
                        \/ OnDecided(m) \/ OnDone(m) \/ OnChosen(m)
  BY DEF Arrivals
<1>2. Slow' \subseteq Slow \ {m} /\ UNCHANGED front /\ Gates
  BY <1>1 DEF Slow, OnPicked, OnLoaded, OnForm, OnDecided, OnDone, OnChosen, Turn
<1>3. m \in Slow => Slow' = {} /\ front
  BY <1>2 DEF Gates, Stays
<1>4. m \in Returned => busy
  BY Alone DEF Turn
<1>5. CASE OnPicked(m)
  <2>1. m \in Slow /\ m.who # Nobody
    BY <1>5 DEF OnPicked, Slow, Turn, Gates, ConfigTabAssumption
  <2>2. ~busy /\ stack = <<>> /\ UNCHANGED <<stack, busy>>
    BY <1>5, <2>1 DEF OnPicked, Stays
  <2>3. QED
    BY <1>2, <1>3, <2>1, <2>2 DEF Stays
<1>6. CASE OnLoaded(m) \/ OnDone(m)
  <2>1. busy
    BY <1>4, <1>6 DEF OnLoaded, OnDone, Returned
  <2>2. QED
    BY <1>2, <1>6, <2>1 DEF OnLoaded, OnDone, Stays
<1>7. CASE OnForm(m) \/ OnChosen(m)
  <2>1. m \in Slow /\ m.type # "picked" /\ UNCHANGED target
    BY <1>7 DEF OnForm, OnChosen, Slow
  <2>2. QED
    BY <1>3, <1>2, <2>1 DEF Stays
<1>8. CASE OnDecided(m)
  <2>1. UNCHANGED target /\ stack' = <<>>
    BY <1>2, <1>8 DEF OnDecided, Gates
  <2>2. CASE ~Accepted
    BY <1>2, <1>8, <2>1, <2>2 DEF OnDecided, Stays
  <2>3. CASE Accepted
    <3>1. stack # <<>> /\ Slow = {}
      BY <1>2, <2>3 DEF Accepted, Gates
    <3>2. QED
      BY <1>2, <2>1, <3>1 DEF Stays
  <2>4. QED
    BY <2>2, <2>3
<1>9. QED
  BY <1>1, <1>5, <1>6, <1>7, <1>8

LEMMA StaysGoroutines ==
  ASSUME Stays, Goroutines
  PROVE  Stays'
<1>1. UNCHANGED formVars
  BY DEF Goroutines, FetchEnds, Writing, Applying
<1>2. \A m \in msgs' \ msgs : m.type \in {"loaded", "done"}
  <2>1. ASSUME NEW r, FetchEnds(r) PROVE \A m \in msgs' \ msgs : m.type = "loaded"
    BY <2>1 DEF FetchEnds
  <2>2. CASE Writing
    <3>1. PICK w \in writes : Backup(w) \/ Save(w) \/ Commit(w)
      BY <2>2 DEF Writing
    <3>2. UNCHANGED msgs \/ \E ok : msgs' = msgs \cup {Done("write", w.id, ok)}
      BY <3>1 DEF Backup, Save, Commit, WriteGoesOn, WriteEnds
    <3>3. \A ok : Done("write", w.id, ok).type = "done"
      BY DEF Done
    <3>4. QED
      BY <3>2, <3>3
  <2>3. CASE Applying
    <3>1. PICK a \in applies : \/ RunNext(a) \/ Reload(a) \/ Scan(a) \/ Interval(a)
                               \/ Stop(a) \/ Start(a) \/ Restart(a) \/ Return(a)
      BY <2>3 DEF Applying
    <3>2. \/ UNCHANGED msgs
          \/ \E ok, failed : msgs' = msgs \cup {ApplyDone(a, ok, failed)}
      BY <3>1, ApplyStep DEF ApplyGoesOn
    <3>3. \A ok, failed : ApplyDone(a, ok, failed).type = "done"
      BY ApplyDoneFields
    <3>4. QED
      BY <3>2, <3>3
  <2>4. QED
    BY <2>1, <2>2, <2>3 DEF Goroutines
<1>3. Slow' \subseteq Slow
  BY <1>2 DEF Slow
<1>4. QED
  BY <1>1, <1>3 DEF Stays, formVars

-----------------------------------------------------------------------------
(* The change that was written is the one that is applied.                 *)

LEMMA WrittenStays ==
  ASSUME Written, UNCHANGED <<pending, file, target, writes, applies>>,
         pendingSet' => pendingSet, stack' = <<"apply">> => stack = <<"apply">>,
         \A m \in msgs' \ msgs : m.type \notin {"done", "chosen"}
  PROVE  Written'
<1>1. /\ UNCHANGED <<Covers, Applicable, AllWritten>>
      /\ \A w : WritesPending(w)' <=> WritesPending(w)
      /\ \A a : AppliesWritten(a)' <=> AppliesWritten(a)
      /\ \A m : Tells(m)' <=> Tells(m)
  BY DEF Covers, Applicable, AllWritten, WritesPending, AppliesWritten, Tells, Content,
         ApplyTargets
<1>2. ASSUME NEW m \in msgs' \ msgs PROVE Tells(m)
  BY <1>2 DEF Tells
<1>3. QED
  BY <1>1, <1>2 DEF Written

(* Nothing is under way and nothing is put up for approval.                *)
LEMMA WrittenIdle ==
  ASSUME ~pendingSet', stack' # <<"apply">>, writes' = {}, applies' = {},
         \A m \in msgs' : m.type \notin {"done", "chosen"}
  PROVE  Written'
BY DEF Written, Tells

LEMMA WrittenKeys ==
  ASSUME ConfigTabAssumption, Simple, ~Leaves, Turn, Stays, Written, Keys
  PROVE  Written'
<1> USE OneModal DEF NothingElse, Answer, formVars, diskVars, jobVars
<1>1. ASSUME NEW r \in Runners, PickKey(r) PROVE Written'
  <2> DEFINE m == [type |-> "picked", key |-> Free, who |-> r]
  <2>1. msgs' \subseteq msgs \cup {m} /\ m.type = "picked"
    BY <1>1 DEF PickKey
  <2> HIDE DEF m
  <2>2. QED
    BY <1>1, <2>1, WrittenStays DEF PickKey
<1>2. ASSUME NEW k \in Kinds, SelectItem(k) PROVE Written'
  <2>1. stack' # <<"apply">>
    BY <1>2 DEF SelectItem, OpenForm, Modal
  <2>2. QED
    BY <1>2, <2>1, WrittenStays DEF SelectItem
<1>3. ASSUME NEW yes \in BOOLEAN, FormKey(yes) PROVE Written'
  <2> DEFINE m == [type |-> "form", key |-> Free, yes |-> yes]
  <2>1. msgs' \subseteq msgs \cup {m} /\ m.type = "form"
    BY <1>3 DEF FormKey
  <2> HIDE DEF m
  <2>2. QED
    BY <1>3, <2>1, WrittenStays DEF FormKey
<1>4. ASSUME NEW yes \in BOOLEAN, DecideKey(yes) PROVE Written'
  <2> DEFINE m == [type |-> "decided", key |-> Free, yes |-> yes]
  <2>1. msgs' \subseteq msgs \cup {m} /\ m.type = "decided"
    BY <1>4 DEF DecideKey
  <2> HIDE DEF m
  <2>2. QED
    BY <1>4, <2>1, WrittenStays DEF DecideKey
<1>5. ASSUME NEW how, ApplyKey(how) PROVE Written'
  <2> DEFINE m == [type |-> "chosen", key |-> Free, method |-> how]
  <2>1. msgs' = msgs \cup {m} /\ m.type = "chosen"
    BY <1>5 DEF ApplyKey
  <2> HIDE DEF m
  <2>2. Applicable
    BY <1>5 DEF ApplyKey, Top, Turn, Gates, Modal, Written
  <2>3. /\ UNCHANGED <<Covers, Applicable, AllWritten, pending, writes, applies, stack,
                       pendingSet>>
        /\ \A w : WritesPending(w)' <=> WritesPending(w)
        /\ \A a : AppliesWritten(a)' <=> AppliesWritten(a)
        /\ \A n : Tells(n)' <=> Tells(n)
    BY <1>5 DEF ApplyKey, Covers, Applicable, AllWritten, WritesPending, AppliesWritten,
                Tells, Content, ApplyTargets
  <2>4. Tells(m)
    BY <2>1, <2>2 DEF Tells
  <2>5. QED
    BY <2>1, <2>3, <2>4 DEF Written
<1>6. ASSUME ~busy, stack = <<>>, Slow = {},
             UNCHANGED <<stack, pendingSet, writes, applies, msgs>>
      PROVE  Written'
  <2>1. writes = {} /\ applies = {} /\ ~pendingSet
    BY <1>6, Alone DEF Turn, Gates
  <2>2. \A m \in msgs : m.type \notin {"done", "chosen"}
    BY <1>6, Alone DEF Turn, Slow, Returned
  <2>3. QED
    BY <1>6, <2>1, <2>2, WrittenIdle
<1>7. ASSUME NEW r \in Runners, EditConfig(r) PROVE Written'
  BY <1>6, <1>7 DEF EditConfig, Stays, Turn, Gates
<1>8. CASE GoBack \/ LeaveTab
  BY <1>6, <1>8, PressedAlone DEF GoBack, LeaveTab, MayLeave
<1>9. CASE EnterTab
  BY <1>9, WrittenStays DEF EnterTab
<1>10. QED
  BY <1>1, <1>2, <1>3, <1>4, <1>5, <1>7, <1>8, <1>9 DEF Keys, ApplyEsc, Simple

(* A change is built for the runners it will be applied to.                *)
LEMMA BuiltCovers ==
  ASSUME NEW kind, NEW c \in Build(kind)
  PROVE  FileBacked(c) => ApplyTargets(c) \subseteq c.files
<1>1. c.kind = kind /\ c.files \in FilesOf(kind)
  BY DEF Build
<1>2. CASE kind = "env" \/ kind = "dropin"
  BY <1>1, <1>2 DEF ApplyTargets, FilesOf
<1>3. CASE kind = "copy"
  BY <1>1, <1>3 DEF ApplyTargets
<1>4. QED
  BY <1>1, <1>2, <1>3 DEF FileBacked

LEMMA WrittenArrivals ==
  ASSUME ConfigTabAssumption, Turn, Stays, Written, Arrivals
  PROVE  Written'
<1> USE OneModal DEF jobVars, diskVars
<1>1. PICK m \in msgs : \/ OnPicked(m) \/ OnLoaded(m) \/ OnForm(m)
                        \/ OnDecided(m) \/ OnDone(m) \/ OnChosen(m)
  BY DEF Arrivals
<1>2. msgs' = msgs \ {m} /\ Gates
  BY <1>1 DEF OnPicked, OnLoaded, OnForm, OnDecided, OnDone, OnChosen, Turn
<1>3. ASSUME m \in Slow
      PROVE  (\A n \in msgs' : n.type # "chosen") /\ ~pendingSet
  BY <1>2, <1>3 DEF Gates, Slow
<1>4. ASSUME ~busy
      PROVE  writes = {} /\ applies = {} /\ \A n \in msgs : n.type # "done"
  BY <1>4, Alone DEF Turn, Returned
<1>5. ASSUME m \in Returned
      PROVE  /\ writes = {} /\ applies = {} /\ ~pendingSet /\ stack = <<>>
             /\ \A n \in msgs' : n.type \notin {"done", "chosen"}
  <2>1. busy /\ writes = {} /\ applies = {} /\ Returned = {m}
    BY <1>5, Alone DEF Turn
  <2>2. \A n \in Slow : n.type # "chosen"
    BY <2>1, <1>2 DEF Gates
  <2>3. QED
    BY <1>2, <2>1, <2>2 DEF Gates, Slow, Returned
<1>6. CASE OnPicked(m)
  <2>1. m \in Slow /\ m.who # Nobody /\ ~busy /\ stack = <<>>
    BY <1>6 DEF OnPicked, Slow, Turn, Gates, ConfigTabAssumption, Stays
  <2>2. UNCHANGED <<stack, pendingSet, writes, applies>>
    BY <1>6, <2>1 DEF OnPicked
  <2>3. QED
    BY <1>2, <1>3, <1>4, <2>1, <2>2, WrittenIdle
<1>7. CASE OnLoaded(m)
  <2>1. stack' # <<"apply">>
    BY <1>5, <1>7 DEF OnLoaded, OpenForm, Modal, Returned
  <2>2. QED
    BY <1>2, <1>7, <2>1, WrittenStays DEF OnLoaded
<1>8. CASE OnForm(m)
  <2>1. m \in Slow /\ ~busy /\ self = FALSE /\ stack \in {<<>>, <<"form">>}
    BY <1>2, <1>8 DEF OnForm, Slow, Gates
  <2>2. /\ writes = {} /\ applies = {} /\ ~pendingSet
        /\ \A n \in msgs' : n.type \notin {"done", "chosen"}
    BY <1>2, <1>3, <1>4, <2>1
  <2>3. UNCHANGED <<writes, applies, target>>
    BY <1>8 DEF OnForm
  <2>4. CASE stack' = Closed(stack) /\ UNCHANGED <<pending, pendingSet, changes>>
    BY <2>1, <2>2, <2>3, <2>4, WrittenIdle DEF Modal
  <2>5. CASE pending' \in Build(form.kind) /\ stack' = Pushed(Closed(stack), "diff")
    <3>1. stack' # <<"apply">>
      BY <2>1, <2>5 DEF Modal
    <3>2. FileBacked(pending') => ApplyTargets(pending') \subseteq pending'.files
      BY <2>5, BuiltCovers
    <3>3. Covers'
      BY <2>3, <3>2 DEF Covers, ApplyTargets, FileBacked
    <3>4. QED
      BY <2>2, <2>3, <3>1, <3>3 DEF Written, Tells
  <2>6. QED
    BY <1>8, <2>1, <2>4, <2>5 DEF OnForm
<1>9. CASE OnDecided(m)
  <2>1. stack' = <<>> /\ UNCHANGED <<file, target, applies>>
    BY <1>2, <1>9 DEF OnDecided, Gates
  <2>2. CASE ~Accepted
    BY <1>2, <1>9, <2>1, <2>2, WrittenStays DEF OnDecided
  <2>3. CASE Accepted
    <3>1. /\ pendingSet /\ self = FALSE /\ writes = {} /\ applies = {}
          /\ \A n \in msgs : n.type # "done"
      BY <1>2, <1>4, <2>3 DEF Accepted, Gates
    <3>2. \A n \in msgs' : n.type \notin {"done", "chosen"}
      BY <1>2, <3>1 DEF Gates, Slow
    <3>3. CASE writes' = {}
      BY <1>9, <2>1, <2>3, <3>1, <3>2, <3>3, WrittenIdle DEF OnDecided
    <3>4. CASE writes' = {Write(pending)} /\ UNCHANGED pending
      <4> DEFINE new == Write(pending)
      <4>1. /\ new.kind = pending.kind /\ new.content = pending.content
            /\ new.todo = pending.files
        BY DEF Write
      <4>2. writes' = {new}
        BY <3>4
      <4> HIDE DEF new
      <4>3. PICK w : /\ writes' = {w} /\ w.kind = pending.kind /\ w.content = pending.content
                     /\ w.todo = pending.files
        BY <4>1, <4>2
      <4>4. Covers'
        BY <2>1, <3>1, <3>4 DEF Written, Covers, ApplyTargets, FileBacked
      <4>5. WritesPending(w)'
        BY <3>4, <4>3 DEF WritesPending
      <4>6. pendingSet' = FALSE
        BY <1>9, <2>3 DEF OnDecided
      <4>7. QED
        BY <2>1, <3>1, <3>2, <4>3, <4>4, <4>5, <4>6 DEF Written, Tells
    <3>5. QED
      BY <1>9, <2>3, <3>1, <3>3, <3>4 DEF OnDecided
  <2>4. QED
    BY <2>2, <2>3
<1>10. CASE OnDone(m)
  <2>1. /\ UNCHANGED <<writes, applies, pendingSet, file, target>>
        /\ writes = {} /\ applies = {} /\ ~pendingSet /\ stack = <<>>
        /\ \A n \in msgs' : n.type \notin {"done", "chosen"}
    BY <1>5, <1>10 DEF OnDone, Returned
  <2>2. CASE m.ok /\ FileBacked(pending) /\ ApplyTargets(pending) # {} /\ UNCHANGED pending
    <3>1. ~FileBacked(NoChange)
      BY DEF FileBacked, NoChange
    <3>2. Tells(m)
      BY DEF Written
    <3>3. Applicable
      BY <1>10, <2>2, <3>1, <3>2 DEF OnDone, Tells, Applicable
    <3>4. Applicable'
      BY <2>1, <2>2, <3>3
         DEF Applicable, FileBacked, Covers, AllWritten, Content, ApplyTargets
    <3>5. QED
      BY <2>1, <3>4 DEF Written, Tells
  <2>3. CASE stack' = stack
    BY <2>1, <2>3, WrittenIdle
  <2>4. QED
    BY <1>10, <2>2, <2>3 DEF OnDone
<1>11. CASE OnChosen(m)
  <2>1. m \in Slow /\ ~busy /\ stack \in {<<>>, <<"apply">>}
    BY <1>2, <1>11 DEF OnChosen, Slow, Gates
  <2>2. /\ writes = {} /\ applies = {} /\ ~pendingSet
        /\ \A n \in msgs' : n.type \notin {"done", "chosen"}
    BY <1>2, <1>3, <1>4, <2>1
  <2> DEFINE new == [change |-> pending, method |-> m.method, key |-> m.key,
                     todo |-> ApplyTargets(pending), done |-> {}, at |-> Nobody,
                     stage |-> "next", after |-> 0]
  <2>3. /\ pending' = NoChange /\ stack' = <<>> /\ UNCHANGED <<writes, pendingSet, file>>
        /\ applies' = {new}
    BY <1>11, <2>1, <2>2 DEF OnChosen, Modal
  <2>4. /\ DOMAIN new = ApplyFields /\ new.change = pending
        /\ new.todo = ApplyTargets(pending) /\ new.at = Nobody
    BY DEF ApplyFields
  <2> HIDE DEF new
  <2>5. PICK a : /\ applies' = {a} /\ DOMAIN a = ApplyFields
                 /\ a.change = pending /\ a.todo = ApplyTargets(pending) /\ a.at = Nobody
    BY <2>3, <2>4
  <2>6. Applicable
    BY <1>11 DEF OnChosen, Written, Tells
  <2>7. AppliesWritten(a)'
    BY <2>3, <2>5, <2>6 DEF AppliesWritten, Applicable, Covers, AllWritten, Content
  <2>8. QED
    BY <2>2, <2>3, <2>5, <2>7 DEF Written, Tells
<1>12. QED
  BY <1>1, <1>6, <1>7, <1>8, <1>9, <1>10, <1>11

(* As a goroutine that applies goes on it turns to one of the runners that *)
(* are left, and to no other.                                              *)
LEMMA ApplyStepKeeps ==
  ASSUME NEW a \in applies, DOMAIN a = ApplyFields,
         RunNext(a) \/ Reload(a) \/ Scan(a) \/ Interval(a)
         \/ Stop(a) \/ Start(a) \/ Restart(a) \/ Return(a)
  PROVE  \/ \E b : /\ ApplyGoesOn(a, b)
                   /\ DOMAIN b = ApplyFields /\ b.change = a.change /\ b.todo \subseteq a.todo
                   /\ b.at \in a.todo \cup {a.at, Nobody}
         \/ /\ applies' = applies \ {a}
            /\ \E ok, failed : msgs' = msgs \cup {ApplyDone(a, ok, failed)}
<1> DEFINE Keeps(b) == /\ DOMAIN b = ApplyFields /\ b.change = a.change
                       /\ b.todo \subseteq a.todo /\ b.at \in a.todo \cup {a.at, Nobody}
           Ends == /\ applies' = applies \ {a}
                   /\ \E ok, failed : msgs' = msgs \cup {ApplyDone(a, ok, failed)}
<1> SUFFICES (\E b : ApplyGoesOn(a, b) /\ Keeps(b)) \/ Ends
  OBVIOUS
<1>1. ASSUME NEW stage, ApplyStage(a, stage)
      PROVE  \E b : ApplyGoesOn(a, b) /\ Keeps(b)
  <2>1. Keeps([a EXCEPT !.stage = stage])
    BY DEF ApplyFields
  <2>2. QED
    BY <1>1, <2>1 DEF ApplyStage
<1>2. ASSUME NextRunner(a) PROVE \E b : ApplyGoesOn(a, b) /\ Keeps(b)
  <2> DEFINE b == [a EXCEPT !.todo = @ \ {a.at}, !.done = @ \cup {a.at},
                            !.at = Nobody, !.stage = "next"]
  <2>1. Keeps(b)
    BY DEF ApplyFields
  <2>2. QED
    BY <1>2, <2>1 DEF NextRunner
<1>3. ASSUME NEW failed, ApplyFails(a, failed) PROVE Ends
  BY <1>3 DEF ApplyFails
<1>4. CASE RunNext(a)
  <2>1. ASSUME NEW r \in a.todo PROVE Keeps([a EXCEPT !.at = r, !.stage = "reload"])
    BY DEF ApplyFields
  <2>2. QED
    BY <1>4, <2>1 DEF RunNext
<1>5. CASE Scan(a)
  <2>1. Keeps([a EXCEPT !.stage = "stop", !.after = jobs])
    BY DEF ApplyFields
  <2>2. QED
    BY <1>1, <1>3, <1>5, <2>1 DEF Scan
<1> HIDE DEF Keeps, Ends
<1>6. CASE Reload(a)
  BY <1>1, <1>2, <1>3, <1>6 DEF Reload
<1>7. CASE Interval(a)
  BY <1>1, <1>7 DEF Interval
<1>8. CASE Stop(a) \/ Start(a) \/ Restart(a)
  BY <1>1, <1>3, <1>8 DEF Stop, Start, Restart, Systemctl
<1>9. CASE Return(a)
  BY <1>1, <1>2, <1>3, <1>9 DEF Return
<1>10. QED
  BY <1>4, <1>5, <1>6, <1>7, <1>8, <1>9

LEMMA WrittenWriting ==
  ASSUME Turn, Fresh, Written, Writing
  PROVE  Written'
<1>1. PICK w \in writes : Backup(w) \/ Save(w) \/ Commit(w)
  BY DEF Writing
<1>2. /\ writes = {w} /\ applies = {} /\ applies' = {} /\ ~pendingSet /\ stack = <<>>
      /\ UNCHANGED <<stack, target, pending, pendingSet>>
      /\ \A m \in msgs : m.type \notin {"done", "chosen"}
  BY Alone DEF Writing, formVars, Turn, Gates, Returned, Slow
<1>3. /\ Covers /\ WritesPending(w) /\ DOMAIN w = WriteFields /\ IsNew(w, w.todo) /\ Files
      /\ w.stage = "save" => w.at \in w.todo
  BY DEF Written, Fresh
<1>4. Covers'
  BY <1>2, <1>3 DEF Covers, ApplyTargets, FileBacked
<1>5. ASSUME NEW v, WriteGoesOn(w, v), WritesPending(v)' PROVE Written'
  BY <1>2, <1>4, <1>5 DEF WriteGoesOn, Written, Tells
<1>6. ASSUME NEW ok, WriteEnds(w, ok), ok => AllWritten' PROVE Written'
  <2> DEFINE m == Done("write", w.id, ok)
  <2>1. writes' = {} /\ msgs' = msgs \cup {m}
    BY <1>2, <1>6 DEF WriteEnds
  <2>2. m.type = "done" /\ m.what = "write" /\ m.ok = ok
    BY DEF Done
  <2> HIDE DEF m
  <2>3. QED
    BY <1>2, <1>4, <1>6, <2>1, <2>2 DEF Written, Tells
<1>7. CASE Backup(w)
  <2>1. ASSUME NEW r \in w.todo PROVE WritesPending([w EXCEPT !.at = r, !.stage = "save"])'
    BY <1>2, <1>3, <1>7 DEF Backup, WritesPending, Content, WriteFields
  <2>2. QED
    BY <1>5, <1>6, <1>7, <2>1 DEF Backup
<1>8. CASE Save(w)
  <2>1. CASE WriteEnds(w, FALSE) /\ UNCHANGED file
    BY <1>6, <2>1
  <2>2. CASE file' = [file EXCEPT ![FileOf(w.kind)][w.at] = w.content]
    <3>1. w.at \in w.todo /\ w.at \in SomeRunner /\ FileOf(w.kind) \in FileKind
      BY <1>3, <1>8 DEF Save, IsNew, FileOf, FileKind
    <3>2. file'[FileOf(w.kind)][w.at] = w.content
      BY <1>3, <2>2, <3>1 DEF Files
    <3>3. \A r : r # w.at => file'[FileOf(w.kind)][r] = file[FileOf(w.kind)][r]
      BY <1>3, <2>2, <3>1 DEF Files
    <3>4. \A r \in pending.files \ (w.todo \ {w.at}) : Content(pending, r)' = pending'.content
      BY <1>2, <1>3, <3>2, <3>3 DEF WritesPending, Content
    <3>5. CASE w.todo = {w.at} /\ WriteEnds(w, TRUE)
      BY <1>2, <1>6, <3>4, <3>5 DEF AllWritten
    <3>6. CASE WriteGoesOn(w, [w EXCEPT !.todo = @ \ {w.at}, !.stage = "backup"])
      <4> DEFINE v == [w EXCEPT !.todo = @ \ {w.at}, !.stage = "backup"]
      <4>1. v.todo = w.todo \ {w.at} /\ v.kind = w.kind /\ v.content = w.content
        BY <1>3 DEF WriteFields
      <4>2. WritesPending(v)'
        BY <1>2, <1>3, <3>4, <4>1 DEF WritesPending
      <4>3. QED
        BY <1>5, <3>6, <4>2
    <3>7. QED
      BY <1>8, <2>2, <3>5, <3>6, <2>1 DEF Save
  <2>3. QED
    BY <1>8, <2>1, <2>2 DEF Save
<1>9. CASE Commit(w)
  <2>1. AllWritten'
    BY <1>2, <1>3, <1>9 DEF Commit, WritesPending, AllWritten, Content
  <2>2. QED
    BY <1>6, <1>9, <2>1 DEF Commit
<1>10. QED
  BY <1>1, <1>7, <1>8, <1>9

LEMMA WrittenApplying ==
  ASSUME Turn, Written, Applying
  PROVE  Written'
<1>1. PICK a \in applies : \/ RunNext(a) \/ Reload(a) \/ Scan(a) \/ Interval(a)
                           \/ Stop(a) \/ Start(a) \/ Restart(a) \/ Return(a)
  BY DEF Applying
<1>2. /\ applies = {a} /\ writes = {} /\ writes' = {} /\ ~pendingSet /\ stack = <<>>
      /\ UNCHANGED <<file, stack, target, pending, pendingSet>>
      /\ \A m \in msgs : m.type \notin {"done", "chosen"}
  BY Alone DEF Applying, formVars, Turn, Gates, Returned, Slow
<1>3. pending = NoChange /\ AppliesWritten(a) /\ DOMAIN a = ApplyFields
  BY DEF Written, AppliesWritten
<1>4. ASSUME NEW b, ApplyGoesOn(a, b), DOMAIN b = ApplyFields, b.change = a.change,
             b.todo \subseteq a.todo, b.at \in a.todo \cup {a.at, Nobody}
      PROVE  Written'
  <2>1. AppliesWritten(b)'
    BY <1>2, <1>3, <1>4 DEF AppliesWritten, Content
  <2>2. QED
    BY <1>2, <1>3, <1>4, <2>1 DEF ApplyGoesOn, Written, Tells
<1>5. ASSUME NEW ok, NEW failed, applies' = applies \ {a},
             msgs' = msgs \cup {ApplyDone(a, ok, failed)}
      PROVE  Written'
  <2> DEFINE m == ApplyDone(a, ok, failed)
  <2>1. m.type = "done" /\ m.what = "apply"
    BY ApplyDoneFields
  <2>2. msgs' = msgs \cup {m} /\ applies' = {}
    BY <1>2, <1>5
  <2> HIDE DEF m
  <2>3. QED
    BY <1>2, <1>3, <2>1, <2>2 DEF Written, Tells
<1>6. QED
  BY <1>1, <1>3, <1>4, <1>5, ApplyStepKeeps

LEMMA WrittenInvariant ==
  ASSUME ConfigTabAssumption, Simple, ~Leaves
  PROVE  Spec => []WInv
<1>1. Init => Stays /\ Written
  <2> SUFFICES ASSUME Init PROVE Stays /\ Written
    OBVIOUS
  <2>1. stack = <<>> /\ ~busy /\ ~pendingSet /\ pending = NoChange
    BY DEF Init, Simple
  <2>2. msgs = {} /\ writes = {} /\ applies = {}
    BY DEF Init
  <2>3. Stays
    BY <2>1, <2>2 DEF Stays, Slow
  <2>4. Written
    BY <2>1, <2>2 DEF Written
  <2> QED  BY <2>3, <2>4
<1>2. IInv /\ Stays /\ [Next]_vars => Stays'
  <2> SUFFICES ASSUME IInv, Stays, [Next]_vars PROVE Stays'
    OBVIOUS
  <2>1. CASE Keys
    BY <2>1, StaysKeys DEF IInv
  <2>2. CASE Arrivals
    BY <2>2, StaysArrivals DEF IInv
  <2>3. CASE Goroutines
    BY <2>3, StaysGoroutines
  <2>4. CASE HostStep \/ UNCHANGED vars
    BY <2>4 DEF HostStep, vars, formVars, Stays, Slow
  <2>5. QED
    BY <2>1, <2>2, <2>3, <2>4 DEF Next
<1>3. IInv /\ Stays /\ Written /\ [Next]_vars => Written'
  <2> SUFFICES ASSUME IInv, Stays, Written, [Next]_vars PROVE Written'
    OBVIOUS
  <2> USE DEF formVars, diskVars, jobVars
  <2>1. CASE Keys
    BY <2>1, WrittenKeys DEF IInv
  <2>2. CASE Arrivals
    BY <2>2, WrittenArrivals DEF IInv
  <2>3. ASSUME NEW r \in fetches, FetchEnds(r) PROVE Written'
    <3>1. \A m \in msgs' \ msgs : m.type \notin {"done", "chosen"}
      BY <2>3 DEF FetchEnds
    <3>2. QED
      BY <2>3, <3>1, WrittenStays DEF FetchEnds
  <2>4. CASE Writing
    BY <2>4, WrittenWriting DEF IInv
  <2>5. CASE Applying
    BY <2>5, WrittenApplying DEF IInv
  <2>6. CASE HostStep
    BY <2>6, WrittenStays DEF HostStep
  <2>7. CASE UNCHANGED vars
    BY <2>7, WrittenStays DEF vars
  <2>8. QED
    BY <2>1, <2>2, <2>3, <2>4, <2>5, <2>6, <2>7 DEF Next, Goroutines
<1>4. QED
  BY <1>1, <1>2, <1>3, FreshInvariant, PTL DEF Spec, WInv

(* onApplyChosen, Change.ApplyTargets: as long as the user stays, only     *)
(* runners the change was written to are restarted, and their files still  *)
(* hold it; of a copy never the source.                                    *)
THEOREM OnlyWrittenRestart ==
  ASSUME ConfigTabAssumption, Simple, ~Leaves
  PROVE  Spec => []RestartsOnlyWritten
<1>1. WInv => RestartsOnlyWritten
  BY DEF WInv, Written, AppliesWritten, Content, RestartsOnlyWritten
<1>2. QED
  BY <1>1, WrittenInvariant, PTL

-----------------------------------------------------------------------------
(* What is reported as applied is what systemd and the listeners have.     *)

LEMMA LoadedStays ==
  ASSUME Loaded, UNCHANGED <<hostVars, diskVars, applies>>,
         \A m \in msgs' \ msgs : m.type # "done"
  PROVE  Loaded'
<1>1. /\ \A a : DoneLoads(a)' <=> DoneLoads(a)
      /\ \A a : StageLoads(a)' <=> StageLoads(a)
  BY DEF DoneLoads, StageLoads, Current, Idle, hostVars, diskVars
<1>2. HostTypes'
  BY DEF Loaded, HostTypes, hostVars, diskVars
<1>3. AppliedIsLoaded'
  BY DEF Loaded, AppliedIsLoaded, diskVars
<1>4. QED
  BY <1>1, <1>2, <1>3 DEF Loaded, DoneIsKnown

LEMMA LoadedKeys ==
  ASSUME Loaded, Keys
  PROVE  Loaded'
<1> USE DEF NothingElse, formVars, jobVars
<1>1. ASSUME NEW m, m.type # "done", Answer(m) PROVE Loaded'
  BY <1>1, LoadedStays DEF Answer
<1>2. ASSUME NEW r, PickKey(r) PROVE Loaded'
  BY <1>1, <1>2 DEF PickKey
<1>3. ASSUME NEW r \in Runners, EditConfig(r) PROVE Loaded'
  BY <1>3, LoadedStays DEF EditConfig
<1>4. ASSUME NEW k \in Kinds, SelectItem(k) PROVE Loaded'
  BY <1>4, LoadedStays DEF SelectItem
<1>5. ASSUME NEW yes \in BOOLEAN, FormKey(yes) \/ DecideKey(yes) PROVE Loaded'
  BY <1>1, <1>5 DEF FormKey, DecideKey
<1>6. ASSUME NEW how, ApplyKey(how) PROVE Loaded'
  BY <1>1, <1>6 DEF ApplyKey
<1>7. CASE GoBack \/ LeaveTab \/ EnterTab
  BY <1>7, LoadedStays DEF GoBack, LeaveTab, EnterTab
<1>8. QED
  BY <1>2, <1>3, <1>4, <1>5, <1>6, <1>7 DEF Keys, ApplyEsc

LEMMA LoadedArrivals ==
  ASSUME ConfigTabAssumption, WInv, Loaded, Arrivals
  PROVE  Loaded'
<1> USE OneModal
<1>1. PICK m \in msgs : \/ OnPicked(m) \/ OnLoaded(m) \/ OnForm(m)
                        \/ OnDecided(m) \/ OnDone(m) \/ OnChosen(m)
  BY DEF Arrivals
<1>2. msgs' = msgs \ {m} /\ UNCHANGED <<hostVars, diskVars>>
  BY <1>1 DEF OnPicked, OnLoaded, OnForm, OnDecided, OnDone, OnChosen
<1>3. CASE UNCHANGED applies
  BY <1>2, <1>3, LoadedStays
<1>4. CASE OnChosen(m)
  <2>1. m \in Slow /\ ~busy
    BY <1>4 DEF OnChosen, Slow, WInv, IInv, Turn, Gates
  <2>2. applies = {} /\ \A n \in msgs : n.type # "done"
    BY <2>1, Alone DEF WInv, IInv, Turn, Returned
  <2> DEFINE new == [change |-> pending, method |-> m.method, key |-> m.key,
                     todo |-> ApplyTargets(pending), done |-> {}, at |-> Nobody,
                     stage |-> "next", after |-> 0]
  <2>3. applies' = {new}
    BY <1>4, <2>2 DEF OnChosen
  <2>4. new.todo = ApplyTargets(pending) /\ new.done = {} /\ new.stage = "next"
    OBVIOUS
  <2> HIDE DEF new
  <2>5. PICK a : /\ applies' = {a} /\ a.todo = ApplyTargets(pending) /\ a.done = {}
                 /\ a.stage = "next"
    BY <2>3, <2>4
  <2>6. a.todo \subseteq Runners /\ a.todo # {}
    <3>1. Tells(m)
      BY DEF WInv, Written
    <3>2. ApplyTargets(pending) # {}
      BY <1>4, <3>1 DEF OnChosen, Tells, Applicable
    <3>3. ApplyTargets(pending) \subseteq Runners
      BY ServicesAssumption DEF ApplyTargets
    <3>4. QED
      BY <2>5, <3>2, <3>3
  <2>7. DoneLoads(a)' /\ StageLoads(a)'
    BY <2>5, <2>6 DEF DoneLoads, StageLoads
  <2>8. HostTypes'
    BY <1>2 DEF Loaded, HostTypes, hostVars, diskVars
  <2>9. AppliedIsLoaded'
    BY <1>2, <2>2 DEF AppliedIsLoaded
  <2>10. QED
    BY <1>2, <2>5, <2>7, <2>8, <2>9 DEF Loaded
<1>5. QED
  BY <1>1, <1>3, <1>4 DEF OnPicked, OnLoaded, OnForm, OnDecided, OnDone, jobVars

LEMMA LoadedWriting ==
  ASSUME WInv, Loaded, Writing
  PROVE  Loaded'
<1>1. PICK w \in writes : Backup(w) \/ Save(w) \/ Commit(w)
  BY DEF Writing
<1>2. applies = {} /\ applies' = {} /\ \A m \in msgs : m.type # "done"
  BY Alone DEF Writing, WInv, IInv, Turn, Returned
<1>3. UNCHANGED msgs \/ \E ok : msgs' = msgs \cup {Done("write", w.id, ok)}
  BY <1>1 DEF Backup, Save, Commit, WriteGoesOn, WriteEnds
<1>4. \A ok : Done("write", w.id, ok).what = "write"
  BY DEF Done
<1>5. \A m \in msgs' : m.type = "done" => m.what = "write"
  BY <1>2, <1>3, <1>4
<1>6. AppliedIsLoaded'
  BY <1>5 DEF AppliedIsLoaded
<1>7. HostTypes'
  BY DEF Writing, Loaded, HostTypes, hostVars
<1>8. QED
  BY <1>2, <1>5, <1>6, <1>7 DEF Loaded, DoneIsKnown

(* What systemd does is what it was asked to, and a listener it starts     *)
(* reads the files as they are.                                            *)
LEMMA HostLoads ==
  ASSUME HostTypes, HostStep, NEW r \in Runners
  PROVE  /\ HostTypes'
         /\ loaded'[r] = loaded[r] \/ loaded'[r] = Current(r)
         /\ Idle(r) => Idle(r)' /\ up'[r] = up[r] /\ loaded'[r] = loaded[r]
         /\ ~Idle(r) => \/ request'[r] = request[r] /\ up'[r] = up[r]
                        \/ /\ Idle(r)' /\ up'[r] = (request[r].verb # "stop")
                           /\ (IF up[r] THEN request[r].verb = "restart" ELSE up'[r])
                              => loaded'[r] = Current(r)
<1> USE DEF HostTypes
<1>1. /\ \A q \in Runners : loaded'[q] = IF Started(q) THEN Current(q) ELSE loaded[q]
      /\ DOMAIN loaded' = Runners
  BY DEF HostStep, Current
<1>2. PICK q \in Runners : Perform(q) \/ JobBegins(q) \/ JobEnds(q)
  BY DEF HostStep, Environment
<1>3. CASE JobBegins(q) \/ JobEnds(q)
  <2>1. UNCHANGED <<request, up>>
    BY <1>3 DEF JobBegins, JobEnds
  <2>2. Started(r) => ~Idle(r)
    BY <2>1 DEF Started, Idle
  <2>3. QED
    BY <1>1, <2>1, <2>2 DEF Idle
<1>4. CASE Perform(q)
  <2>1. /\ request' = [request EXCEPT ![q] = NoRequest] /\ request[q].verb # "none"
        /\ up' = [up EXCEPT ![q] = (request[q].verb # "stop")]
    BY <1>4 DEF Perform
  <2>2. CASE r = q
    BY <1>1, <2>1, <2>2 DEF Idle, NoRequest, Started
  <2>3. CASE r # q
    <3>1. request'[r] = request[r] /\ up'[r] = up[r]
      BY <2>1, <2>3
    <3>2. Idle(r) => ~Started(r)
      BY <3>1 DEF Started, Idle
    <3>3. QED
      BY <1>1, <2>1, <3>1, <3>2 DEF Idle
  <2>4. QED
    BY <2>2, <2>3
<1>5. QED
  BY <1>2, <1>3, <1>4

LEMMA LoadedHostStep ==
  ASSUME WInv, Loaded, HostStep
  PROVE  Loaded'
<1>1. UNCHANGED <<file, daemon, applies, msgs>> /\ HostTypes
  BY DEF HostStep, jobVars, Loaded
<1>2. \A r : Current(r)' = Current(r)
  BY <1>1 DEF Current
<1>3. \A r \in Runners : loaded[r] = Current(r) => loaded'[r] = Current(r)'
  BY <1>1, <1>2, HostLoads
<1>4. HostTypes'
  BY <1>1 DEF HostTypes, HostStep, Environment, Perform, JobBegins, JobEnds
<1>5. ASSUME NEW a \in applies PROVE DoneLoads(a)' /\ StageLoads(a)'
  <2>1. DoneLoads(a) /\ StageLoads(a)
    BY DEF Loaded
  <2>2. DoneLoads(a)'
    BY <1>1, <1>3, <2>1 DEF DoneLoads, Current
  <2>3. CASE a.stage \notin {"stopping", "start", "finish"}
    BY <1>1, <2>1, <2>2, <2>3 DEF StageLoads
  <2>4. CASE a.stage \in {"stopping", "start", "finish"}
    <3>1. PICK r \in Runners : r = a.at
      BY <2>1, <2>4 DEF DoneLoads, StageLoads
    <3>2. /\ request[r].verb = "none" =>
               request'[r].verb = "none" /\ up'[r] = up[r] /\ loaded'[r] = loaded[r]
          /\ request[r].verb # "none" =>
               \/ request'[r] = request[r] /\ up'[r] = up[r]
               \/ /\ request'[r].verb = "none" /\ up'[r] = (request[r].verb # "stop")
                  /\ (IF up[r] THEN request[r].verb = "restart" ELSE up'[r])
                     => loaded'[r] = Current(r)
      BY <1>1, HostLoads DEF Idle
    <3>3. up[r] \in BOOLEAN /\ up'[r] \in BOOLEAN
      BY <1>1, <1>4 DEF HostTypes
    <3>4. CASE a.stage = "start"
      BY <1>1, <2>1, <2>2, <3>1, <3>2, <3>4 DEF StageLoads, Idle, Current
    <3>5. CASE a.stage = "stopping"
      BY <1>1, <2>1, <2>2, <3>1, <3>2, <3>3, <3>5 DEF StageLoads, Idle, Current
    <3>6. CASE a.stage = "finish"
      BY <1>1, <1>2, <2>1, <2>2, <3>1, <3>2, <3>3, <3>6 DEF StageLoads, Idle, Current
    <3>7. QED
      BY <2>4, <3>4, <3>5, <3>6
  <2>5. QED
    BY <2>2, <2>3, <2>4
<1>6. AppliedIsLoaded'
  <2> SUFFICES ASSUME NEW m \in msgs, m.type = "done", m.what = "apply", m.ok
               PROVE  /\ m.change.kind = "dropin" => daemon = file["dropin"]
                      /\ m.method # "none" => \A r \in m.done : loaded'[r] = Current(r)
    BY <1>1, <1>2 DEF AppliedIsLoaded, Current
  <2>1. /\ m.done \subseteq Runners
        /\ m.change.kind = "dropin" => daemon = file["dropin"]
        /\ m.method # "none" => \A r \in m.done : loaded[r] = Current(r)
    BY DEF Loaded, DoneIsKnown, AppliedIsLoaded, Current
  <2>2. QED
    BY <1>2, <1>3, <2>1
<1>7. QED
  BY <1>1, <1>4, <1>5, <1>6 DEF Loaded, DoneIsKnown

LEMMA LoadedApplying ==
  ASSUME ConfigTabAssumption, WInv, Loaded, Applying
  PROVE  Loaded'
<1>1. PICK a \in applies : \/ RunNext(a) \/ Reload(a) \/ Scan(a) \/ Interval(a)
                           \/ Stop(a) \/ Start(a) \/ Restart(a) \/ Return(a)
  BY DEF Applying
<1>2. /\ applies = {a} /\ UNCHANGED <<file, loaded>>
      /\ \A m \in msgs : m.type # "done"
  BY Alone DEF Applying, WInv, IInv, Turn, Returned
<1>3. DOMAIN a = ApplyFields /\ DoneLoads(a) /\ StageLoads(a) /\ HostTypes
  BY DEF WInv, Written, AppliesWritten, Loaded
<1>4. HostTypes'
  BY <1>1, <1>2, <1>3 DEF RunNext, Reload, Scan, Interval, Stop, Start, Restart, Return,
                         Systemctl, Submit, HostTypes, hostVars
<1>5. ASSUME NEW failed, ApplyFails(a, failed) PROVE Loaded'
  <2> DEFINE m == ApplyDone(a, FALSE, failed)
  <2>1. m.ok = FALSE /\ m.done = a.done
    BY DEF ApplyDone, Done
  <2>2. applies' = {} /\ msgs' = msgs \cup {m} /\ a.done \subseteq Runners
    BY <1>2, <1>3, <1>5 DEF ApplyFails, DoneLoads
  <2> HIDE DEF m
  <2>3. \A n \in msgs' : DoneIsKnown(n)
    BY <1>2, <2>1, <2>2 DEF DoneIsKnown
  <2>4. AppliedIsLoaded'
    BY <1>2, <2>1, <2>2 DEF AppliedIsLoaded
  <2>5. QED
    BY <1>4, <2>2, <2>3, <2>4 DEF Loaded, DoneIsKnown
<1>6. ASSUME NEW b, ApplyGoesOn(a, b), DoneLoads(b)', StageLoads(b)' PROVE Loaded'
  <2>1. applies' = {b} /\ msgs' = msgs
    BY <1>2, <1>6 DEF ApplyGoesOn
  <2>2. AppliedIsLoaded'
    BY <1>2, <2>1 DEF AppliedIsLoaded
  <2>3. QED
    BY <1>4, <1>6, <2>1, <2>2 DEF Loaded, DoneIsKnown
<1>7. ASSUME UNCHANGED daemon, NEW b, ApplyGoesOn(a, b), b.todo = a.todo, b.done = a.done,
             b.change = a.change, b.method = a.method, StageLoads(b)'
      PROVE  Loaded'
  BY <1>2, <1>3, <1>6, <1>7 DEF DoneLoads, Current
<1>8. ASSUME NEW stage, ApplyStage(a, stage)
      PROVE  \E b : /\ ApplyGoesOn(a, b) /\ b.stage = stage /\ b.todo = a.todo
                    /\ b.done = a.done /\ b.change = a.change /\ b.method = a.method
                    /\ b.at = a.at
  <2> DEFINE b == [a EXCEPT !.stage = stage]
  <2>1. /\ b.stage = stage /\ b.todo = a.todo /\ b.done = a.done /\ b.change = a.change
        /\ b.method = a.method /\ b.at = a.at
    BY <1>3 DEF ApplyFields
  <2>2. ApplyGoesOn(a, b)
    BY <1>8 DEF ApplyStage
  <2> HIDE DEF b
  <2>3. QED
    BY <2>1, <2>2
<1>9. ASSUME NextRunner(a)
      PROVE  \E b : /\ ApplyGoesOn(a, b) /\ b.stage = "next" /\ b.todo = a.todo \ {a.at}
                    /\ b.done = a.done \cup {a.at} /\ b.change = a.change
                    /\ b.method = a.method
  <2> DEFINE b == [a EXCEPT !.todo = @ \ {a.at}, !.done = @ \cup {a.at},
                            !.at = Nobody, !.stage = "next"]
  <2>1. /\ b.stage = "next" /\ b.todo = a.todo \ {a.at} /\ b.done = a.done \cup {a.at}
        /\ b.change = a.change /\ b.method = a.method
    BY <1>3 DEF ApplyFields
  <2>2. ApplyGoesOn(a, b)
    BY <1>9 DEF NextRunner
  <2> HIDE DEF b
  <2>3. QED
    BY <2>1, <2>2
<1>10. CASE RunNext(a)
  <2>1. UNCHANGED daemon
    BY <1>10 DEF RunNext
  <2>2. ASSUME a.todo = {}, applies' = applies \ {a},
               msgs' = msgs \cup {ApplyDone(a, TRUE, "none")}
        PROVE  Loaded'
    <3> DEFINE m == ApplyDone(a, TRUE, "none")
    <3>1. m.done = a.done /\ m.change = a.change /\ m.method = a.method
      BY DEF ApplyDone, Done
    <3>2. applies' = {} /\ msgs' = msgs \cup {m}
      BY <1>2, <2>2
    <3> HIDE DEF m
    <3>3. /\ a.done \subseteq Runners /\ a.done # {}
          /\ a.change.kind = "dropin" => daemon = file["dropin"]
          /\ a.method # "none" => \A r \in a.done : loaded[r] = Current(r)
      BY <1>3, <2>2 DEF DoneLoads
    <3>4. \A n \in msgs' : DoneIsKnown(n)
      BY <1>2, <3>1, <3>2, <3>3 DEF DoneIsKnown
    <3>5. AppliedIsLoaded'
      BY <1>2, <2>1, <3>1, <3>2, <3>3 DEF AppliedIsLoaded, Current
    <3>6. QED
      BY <1>4, <3>2, <3>4, <3>5 DEF Loaded, DoneIsKnown
  <2>3. ASSUME NEW r \in a.todo,
               ApplyGoesOn(a, [a EXCEPT !.at = r, !.stage = "reload"])
        PROVE  Loaded'
    <3> DEFINE b == [a EXCEPT !.at = r, !.stage = "reload"]
    <3>1. /\ b.stage = "reload" /\ b.todo = a.todo /\ b.done = a.done /\ b.at = r
          /\ b.change = a.change /\ b.method = a.method
      BY <1>3 DEF ApplyFields
    <3>2. ApplyGoesOn(a, b)
      BY <2>3
    <3> HIDE DEF b
    <3>3. StageLoads(b)'
      BY <3>1 DEF StageLoads
    <3>4. QED
      BY <1>7, <2>1, <3>1, <3>2, <3>3
  <2>4. QED
    BY <1>10, <2>2, <2>3 DEF RunNext
<1>11. CASE Reload(a)
  <2>1. a.stage = "reload" /\ a.at \in a.todo
    BY <1>3, <1>11 DEF Reload, StageLoads
  <2>2. CASE daemon' = IF NeedsReload(a) THEN file["dropin"] ELSE daemon
    <3>1. /\ a.change.kind = "dropin" => daemon' = file["dropin"]
          /\ \A r : loaded[r] = Current(r) /\ r \in a.done => loaded'[r] = Current(r)'
      BY <1>2, <1>3, <2>2 DEF NeedsReload, DoneLoads, Current
    <3>2. CASE a.method = "none" /\ NextRunner(a)
      <4>1. PICK b : /\ ApplyGoesOn(a, b) /\ b.stage = "next" /\ b.todo = a.todo \ {a.at}
                     /\ b.done = a.done \cup {a.at} /\ b.change = a.change
                     /\ b.method = a.method
        BY <1>9, <3>2
      <4>2. DoneLoads(b)' /\ StageLoads(b)'
        BY <1>2, <1>3, <2>1, <3>1, <3>2, <4>1 DEF DoneLoads, StageLoads
      <4>3. QED
        BY <1>6, <4>1, <4>2
    <3>3. ASSUME NEW stage \in {"restart", "scan"}, ApplyStage(a, stage) PROVE Loaded'
      <4>1. PICK b : /\ ApplyGoesOn(a, b) /\ b.stage = stage /\ b.todo = a.todo
                     /\ b.done = a.done /\ b.change = a.change /\ b.method = a.method
                     /\ b.at = a.at
        BY <1>8, <3>3
      <4>2. DoneLoads(b)'
        BY <1>2, <1>3, <3>1, <4>1 DEF DoneLoads
      <4>3. StageLoads(b)'
        BY <1>2, <2>1, <3>1, <3>3, <4>1 DEF StageLoads
      <4>4. QED
        BY <1>6, <4>1, <4>2, <4>3
    <3>4. QED
      BY <1>5, <1>11, <3>2, <3>3 DEF Reload
  <2>3. QED
    BY <1>5, <1>11, <2>2 DEF Reload
<1>12. CASE Scan(a)
  <2> DEFINE new == [a EXCEPT !.stage = "stop", !.after = jobs]
  <2>1. /\ new.stage = "stop" /\ new.todo = a.todo /\ new.done = a.done
        /\ new.change = a.change /\ new.method = a.method /\ new.at = a.at
    BY <1>3 DEF ApplyFields
  <2> HIDE DEF new
  <2>2. \/ \E failed : ApplyFails(a, failed)
        \/ \E b : /\ ApplyGoesOn(a, b) /\ b.stage \in {"stop", "wait"} /\ b.todo = a.todo
                  /\ b.done = a.done /\ b.change = a.change /\ b.method = a.method
                  /\ b.at = a.at
    <3>1. CASE ApplyGoesOn(a, new)
      BY <2>1, <3>1
    <3>2. CASE ApplyStage(a, "wait")
      BY <1>8, <3>2
    <3>3. QED
      BY <1>12, <3>1, <3>2 DEF Scan, new
  <2>3. ASSUME NEW b, b.stage \in {"stop", "wait"}, b.change = a.change, b.todo = a.todo,
               b.at = a.at
        PROVE  StageLoads(b)'
    BY <1>2, <1>3, <1>12, <2>3 DEF Scan, StageLoads
  <2>4. UNCHANGED daemon
    BY <1>12 DEF Scan
  <2>5. QED
    BY <1>5, <1>7, <2>2, <2>3, <2>4
<1>13. CASE Interval(a)
  <2>1. PICK b : /\ ApplyGoesOn(a, b) /\ b.stage = "scan" /\ b.todo = a.todo
                 /\ b.done = a.done /\ b.change = a.change /\ b.method = a.method
                 /\ b.at = a.at
    BY <1>8, <1>13 DEF Interval
  <2>2. UNCHANGED daemon /\ StageLoads(b)'
    BY <1>2, <1>3, <1>13, <2>1 DEF Interval, StageLoads
  <2>3. QED
    BY <1>7, <2>1, <2>2
<1>14. CASE Stop(a) \/ Start(a) \/ Restart(a)
  <2>1. a.at \in Runners /\ UNCHANGED daemon /\ a.stage \notin {"next", "reload"}
    BY <1>3, <1>14 DEF Stop, Start, Restart, Systemctl, StageLoads, DoneLoads
  <2>2. ASSUME NEW verb, NEW by, NEW next, Submit(a.at, verb, by, a.after),
               ApplyStage(a, next), <<verb, next>> \in {<<"stop", "stopping">>,
                                     <<"start", "finish">>, <<"restart", "finish">>},
               verb = "start" => ~up[a.at]
        PROVE  Loaded'
    <3>1. PICK b : /\ ApplyGoesOn(a, b) /\ b.stage = next /\ b.todo = a.todo
                   /\ b.done = a.done /\ b.change = a.change /\ b.method = a.method
                   /\ b.at = a.at
      BY <1>8, <2>2
    <3>2. request'[a.at].verb = verb /\ up' = up
      BY <1>3, <2>1, <2>2 DEF Submit, HostTypes
    <3>3. StageLoads(b)'
      BY <1>2, <1>3, <2>1, <2>2, <3>1, <3>2 DEF StageLoads
    <3>4. QED
      BY <1>7, <2>1, <3>1, <3>3
  <2>3. CASE Stop(a)
    BY <1>5, <2>2, <2>3 DEF Stop, Systemctl
  <2>4. CASE Start(a)
    BY <1>3, <1>5, <2>2, <2>4 DEF Start, Systemctl, StageLoads
  <2>5. CASE Restart(a)
    BY <1>5, <2>2, <2>5 DEF Restart, Systemctl
  <2>6. QED
    BY <1>14, <2>3, <2>4, <2>5
<1>15. CASE Return(a)
  <2>1. UNCHANGED <<daemon, request, up>> /\ a.at \in a.todo
    BY <1>3, <1>15 DEF Return, StageLoads, hostVars
  <2>2. CASE request[a.at].verb = "none" /\ a.stage = "stopping" /\ ApplyStage(a, "start")
    <3>1. PICK b : /\ ApplyGoesOn(a, b) /\ b.stage = "start" /\ b.todo = a.todo
                   /\ b.done = a.done /\ b.change = a.change /\ b.method = a.method
                   /\ b.at = a.at
      BY <1>8, <2>2
    <3>2. StageLoads(b)'
      BY <1>2, <1>3, <2>1, <2>2, <3>1 DEF StageLoads, Idle
    <3>3. QED
      BY <1>7, <2>1, <3>1, <3>2
  <2>3. CASE request[a.at].verb = "none" /\ a.stage = "finish" /\ NextRunner(a)
    <3>1. PICK b : /\ ApplyGoesOn(a, b) /\ b.stage = "next" /\ b.todo = a.todo \ {a.at}
                   /\ b.done = a.done \cup {a.at} /\ b.change = a.change
                   /\ b.method = a.method
      BY <1>9, <2>3
    <3>2. loaded[a.at] = Current(a.at)
      BY <1>3, <2>3 DEF StageLoads, Idle
    <3>3. DoneLoads(b)'
      BY <1>2, <1>3, <2>1, <2>3, <3>1, <3>2 DEF DoneLoads, StageLoads, Current
    <3>4. StageLoads(b)'
      BY <3>1 DEF StageLoads
    <3>5. QED
      BY <1>6, <3>1, <3>3, <3>4
  <2>4. QED
    BY <1>5, <1>15, <2>2, <2>3 DEF Return
<1>16. QED
  BY <1>1, <1>10, <1>11, <1>12, <1>13, <1>14, <1>15

(* RunAll, svc.DaemonReload: as long as the user stays, success is only    *)
(* reported when systemd has read every drop-in, and every runner that was *)
(* drained or restarted runs with the files as they are.                   *)
THEOREM AppliedMeansLoaded ==
  ASSUME ConfigTabAssumption, Simple, ~Leaves
  PROVE  Spec => []AppliedIsLoaded
<1>1. Init => Loaded
  BY DEF Init, HostInit, Loaded, HostTypes, AppliedIsLoaded
<1>2. WInv /\ Loaded /\ [Next]_vars => Loaded'
  <2> SUFFICES ASSUME WInv, Loaded, [Next]_vars PROVE Loaded'
    OBVIOUS
  <2>1. CASE Keys
    BY <2>1, LoadedKeys
  <2>2. CASE Arrivals
    BY <2>2, LoadedArrivals
  <2>3. ASSUME NEW r \in fetches, FetchEnds(r) PROVE Loaded'
    <3>1. \A m \in msgs' \ msgs : m.type # "done"
      BY <2>3 DEF FetchEnds
    <3>2. QED
      BY <2>3, <3>1, LoadedStays DEF FetchEnds
  <2>4. CASE Writing
    BY <2>4, LoadedWriting
  <2>5. CASE Applying
    BY <2>5, LoadedApplying
  <2>6. CASE HostStep
    BY <2>6, LoadedHostStep
  <2>7. CASE UNCHANGED vars
    BY <2>7, LoadedStays DEF vars, jobVars
  <2>8. QED
    BY <2>1, <2>2, <2>3, <2>4, <2>5, <2>6, <2>7 DEF Next, Goroutines
<1>3. Loaded => AppliedIsLoaded
  BY DEF Loaded
<1>4. QED
  BY <1>1, <1>2, <1>3, WrittenInvariant, PTL DEF Spec

=============================================================================
