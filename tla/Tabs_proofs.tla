---------------------------- MODULE Tabs_proofs -----------------------------
(***************************************************************************)
(* Proofs about the tabs of MCTabs.                                        *)
(*                                                                         *)
(* The parent and the border of the pages (TabShell), for any list of tabs *)
(* that has the ones errands are sent to, and any number of keys, in two   *)
(* arguments on one set of types.  What is on its way is for the tab it    *)
(* was sent for (Letters), so it can only be received by that one.  And    *)
(* nothing is on its way before the first tab was told it is in front      *)
(* (Quiet), so no tab is changed before, and told follows active (Follows).*)
(*                                                                         *)
(* The Jobs tab (JobsTab), on a host whose runner takes one job at a time: *)
(* a row of a running job shows nothing of another one.                    *)
(*                                                                         *)
(* The service operations (RunnerOp), for any runners, units, operations,  *)
(* selections and bounds.                                                  *)
(*   Spared    what a drain knows of the last job begun stays true, through *)
(*             its goroutine and through systemd, until the stop is carried *)
(*             out: whatever the runner works on by then began later.      *)
(*   Screen    the waiting screen is on top while there is a drain, so no  *)
(*             second one can be started and no dialog be closed instead;  *)
(*             a step of the drain on its way means that its wait ended.   *)
(*   Approved  an answer on its way was given on the dialog that is open.  *)
(* The first holds however fast the user types; the others need that keys  *)
(* wait for the answer to the last one (FastTyping is FALSE).              *)
(*                                                                         *)
(* The list of the Runners tab (RunnerTable), for any lists a detection    *)
(* may give: a cursor is on a row that is shown and only rows of the list  *)
(* are marked (TableOK), so a list put in place of another finds the row   *)
(* of the cursor again (Relists).                                          *)
(***************************************************************************)
EXTENDS RunnerOp, RunnerTable, TabShell, JobsTab, FiniteSetTheorems, SequenceTheorems,
        WellFoundedInduction, TLAPS

Opened == {"Runners", "Logs", "Config"}

TypeInv ==
  /\ active \in Tab /\ activated \in BOOLEAN
  /\ sent \in Seq(Tab)
  /\ page = [t \in Tab |-> page[t]]
  /\ \A t \in Tab : "told" \in DOMAIN page[t] /\ page[t].told \in Nat

(* An answer or the end of a job is for the tab that was sent, an errand   *)
(* for the one with that title.                                            *)
AnswerOK(m) == m.id \in DOMAIN sent /\ m.tab = sent[m.id]
OpenOK(m) ==
  /\ m.title \in Opened
  /\ m.id # 0 => m.id \in DOMAIN sent /\ IndexOfTitle(m.title) = sent[m.id]
MsgOK(m) ==
  /\ m.what \in {"result", "done"} => AnswerOK(m)
  /\ m.what = "open" => OpenOK(m)

Letters ==
  /\ \A m \in ways : MsgOK(m)
  /\ \A w \in works : w.what = "done" /\ AnswerOK(w)

Quiet == ~activated => ways = {} /\ works = {}

Follows ==
  phase = "on" => \A t \in Tab : page[t].told = IF activated /\ t = active THEN 1 ELSE 0

IInv == TypeInv /\ Letters

-----------------------------------------------------------------------------
(* There is a tab for each title errands are sent to.                      *)
LEMMA TitleHasTab ==
  ASSUME TabShellAssumption, NEW title \in Opened
  PROVE  IndexOfTitle(title) \in Tab /\ 1 \in Tab /\ Len(Titles) \in Nat \ {0}
<1>1. PICK i \in DOMAIN Titles : Titles[i] = title
  BY DEF TabShellAssumption, Opened
<1>2. Titles \in Seq(STRING) /\ DOMAIN Titles = 1 .. Len(Titles) /\ Len(Titles) \in Nat
  BY DEF TabShellAssumption
<1>3. i \in Tab
  BY <1>1, <1>2 DEF Tab
<1>4. IndexOfTitle(title) \in Tab
  BY <1>1, <1>3 DEF IndexOfTitle
<1>5. QED
  BY <1>2, <1>3, <1>4 DEF Tab

(* The next tab is a tab, after the last one too.                          *)
LEMMA NextIsTab ==
  ASSUME TabShellAssumption, NEW i \in Tab
  PROVE  NextTab(i, 1) \in Tab
<1>1. Len(Titles) \in Nat \ {0}
  BY TitleHasTab DEF Opened
<1>2. (i - 1 + 1) % Len(Titles) \in 0 .. Len(Titles) - 1
  BY <1>1 DEF Tab
<1>3. QED
  BY <1>1, <1>2 DEF NextTab, Tab

(* Being told changes nothing else, and being given the shared state does  *)
(* not change what was told.                                               *)
LEMMA ToldIsTold ==
  ASSUME NEW p, NEW t, "told" \in DOMAIN p, p.told \in Nat
  PROVE  /\ \A what \in {"activate", "deactivate", "shutdown"} :
              "told" \in DOMAIN Told(p, what) /\ Told(p, what).told \in Nat
         /\ Told(p, "activate").told = p.told + 1
         /\ p.told = 0 \/ Told(p, "deactivate").told = p.told - 1
         /\ p.told = 0 => Told(p, "deactivate").told = 0
         /\ "told" \in DOMAIN Stated(p, t) /\ Stated(p, t).told = p.told
<1>1. \A what \in {"activate", "deactivate", "shutdown"} : Receives(p, what)
  BY DEF Receives, Handles
<1>2. ASSUME NEW what \in {"activate", "deactivate", "shutdown"}
      PROVE  /\ "told" \in DOMAIN Told(p, what)
             /\ Told(p, what).told = IF what = "activate" THEN p.told + 1
                                     ELSE IF p.told = 0 THEN 0 ELSE p.told - 1
  BY <1>1 DEF Told
<1>3. "told" \in DOMAIN Stated(p, t) /\ Stated(p, t).told = p.told
  BY DEF Stated
<1>4. QED
  BY <1>2, <1>3

(* The pages of the tab that is left and of the one that comes, after a    *)
(* change of tabs.                                                         *)
LEMMA ActivateChanges ==
  ASSUME TabShellAssumption, TypeInv, NEW i \in Tab, NEW left, Activate(i, left),
         UNCHANGED <<activated, sent>>
  PROVE  /\ TypeInv'
         /\ active' = i /\ ways' \in {left, left \cup ToFront({i})}
         /\ i = active => page' = page
         /\ i # active =>
              /\ page'[i].told = page[i].told + 1
              /\ page'[active].told = IF page[active].told = 0 THEN 0
                                      ELSE page[active].told - 1
              /\ \A t \in Tab \ {i, active} : page'[t] = page[t]
<1>1. CASE i = active
  BY <1>1 DEF Activate, TypeInv
<1>2. CASE i # active
  <2> DEFINE off == Told(page[active], "deactivate")
             on  == Told(page[i], "activate")
  <2>1. page' = [page EXCEPT ![active] = off, ![i] = Stated(on, i)]
    BY <1>2 DEF Activate, TypeInv
  <2>2. /\ active \in Tab /\ page = [t \in Tab |-> page[t]]
        /\ \A t \in Tab : "told" \in DOMAIN page[t] /\ page[t].told \in Nat
    BY DEF TypeInv
  <2>3. /\ "told" \in DOMAIN off /\ off.told \in Nat
        /\ off.told = IF page[active].told = 0 THEN 0 ELSE page[active].told - 1
    BY <2>2, ToldIsTold
  <2>4. "told" \in DOMAIN on /\ on.told \in Nat /\ on.told = page[i].told + 1
    BY <2>2, ToldIsTold
  <2>5. "told" \in DOMAIN Stated(on, i) /\ Stated(on, i).told = on.told
    BY <2>4, ToldIsTold
  <2>6. /\ page' = [t \in Tab |-> page'[t]]
        /\ page'[active] = off /\ page'[i] = Stated(on, i)
        /\ \A t \in Tab \ {i, active} : page'[t] = page[t]
    <3> HIDE DEF off, on
    <3> QED BY <1>2, <2>1, <2>2
  <2>7. \A t \in Tab : "told" \in DOMAIN page'[t] /\ page'[t].told \in Nat
    BY <2>2, <2>3, <2>4, <2>5, <2>6
  <2>8. active' = i /\ ways' = left \cup ToFront({i})
    BY <1>2 DEF Activate
  <2>9. TypeInv'
    BY <2>6, <2>7, <2>8 DEF TypeInv
  <2> QED
    BY <1>2, <2>3, <2>4, <2>5, <2>6, <2>8, <2>9
<1>3. QED
  BY <1>1, <1>2

(* What the wizard sends to the parent is an errand for a tab that is      *)
(* there.                                                                  *)
LEMMA ToFrontOK ==
  ASSUME NEW T, NEW m \in ToFront(T)
  PROVE  m.what = "open" /\ m.title \in Opened /\ m.id = 0
<1>1. m = [what |-> "open", title |-> "Config", id |-> 0]
  BY DEF ToFront
<1>2. QED
  BY <1>1 DEF Opened

(* Nothing new but the errand of the wizard is on its way.                 *)
LEMMA LettersKept ==
  ASSUME Letters, NEW T, ways' \subseteq ways \cup ToFront(T), UNCHANGED <<works, sent>>
  PROVE  Letters'
<1>1. ASSUME NEW m \in ways' PROVE MsgOK(m)'
  <2>1. CASE m \in ways
    BY <2>1 DEF Letters, MsgOK, AnswerOK, OpenOK
  <2>2. CASE m \in ToFront(T)
    BY <2>2, ToFrontOK DEF MsgOK, OpenOK
  <2>3. QED
    BY <2>1, <2>2
<1>2. \A w \in works' : w.what = "done" /\ AnswerOK(w)'
  BY DEF Letters, AnswerOK
<1>3. QED
  BY <1>1, <1>2 DEF Letters

(* A number given to an answer before stays the number of its tab.         *)
LEMMA SentGrows ==
  ASSUME NEW t \in Tab, sent \in Seq(Tab), sent' = Append(sent, t)
  PROVE  /\ sent' \in Seq(Tab)
         /\ Len(sent) + 1 \in DOMAIN sent' /\ sent'[Len(sent) + 1] = t
         /\ DOMAIN sent' = DOMAIN sent \cup {Len(sent) + 1}
         /\ \A i \in DOMAIN sent : sent'[i] = sent[i]
OBVIOUS

(* So when one thing is sent, what was on its way stays on its way to the  *)
(* same tab.                                                               *)
LEMMA LettersGrow ==
  ASSUME TypeInv, Letters, NEW t \in Tab, sent' = Append(sent, t)
  PROVE  /\ \A m \in ways : MsgOK(m)'
         /\ \A w \in works : w.what = "done" /\ AnswerOK(w)'
<1>1. /\ DOMAIN sent \subseteq DOMAIN sent' /\ \A i \in DOMAIN sent : sent'[i] = sent[i]
  BY SentGrows DEF TypeInv
<1>2. ASSUME NEW m \in ways PROVE MsgOK(m)'
  BY <1>1 DEF Letters, MsgOK, AnswerOK, OpenOK
<1>3. ASSUME NEW w \in works PROVE w.what = "done" /\ AnswerOK(w)'
  BY <1>1 DEF Letters, AnswerOK
<1>4. QED
  BY <1>2, <1>3

-----------------------------------------------------------------------------
(* Each step keeps the types and the letters.                              *)
LEMMA DistributeKeeps ==
  ASSUME TabShellAssumption, IInv, Distribute
  PROVE  /\ IInv'
         /\ \A t \in Tab : page'[t].told = IF ActivateOnce(t) THEN page[t].told + 1
                                           ELSE page[t].told
<1> DEFINE q(t) == IF ActivateOnce(t) THEN Told(page[t], "activate") ELSE page[t]
<1>1. ASSUME NEW t \in Tab
      PROVE  /\ "told" \in DOMAIN page'[t] /\ page'[t].told \in Nat
             /\ page'[t].told = IF ActivateOnce(t) THEN page[t].told + 1
                                ELSE page[t].told
  <2>1. page'[t] = Stated(q(t), t)
    BY DEF Distribute
  <2>2. "told" \in DOMAIN page[t] /\ page[t].told \in Nat
    BY DEF IInv, TypeInv
  <2>3. "told" \in DOMAIN q(t) /\ q(t).told \in Nat
        /\ q(t).told = IF ActivateOnce(t) THEN page[t].told + 1 ELSE page[t].told
    BY <2>2, ToldIsTold
  <2>4. "told" \in DOMAIN Stated(q(t), t) /\ Stated(q(t), t).told = q(t).told
    BY <2>3, ToldIsTold
  <2>5. QED
    BY <2>1, <2>3, <2>4
<1>2. page' = [t \in Tab |-> page'[t]]
  BY DEF Distribute
<1>3. TypeInv'
  BY <1>1, <1>2 DEF Distribute, IInv, TypeInv
<1>4. Letters'
  BY LettersKept DEF IInv, Distribute
<1>5. QED
  BY <1>1, <1>3, <1>4 DEF IInv

(* The end of the program tells every page; it does so whether a key or a  *)
(* signal asked for it.                                                    *)
LEMMA QuitKeeps ==
  ASSUME TabShellAssumption, IInv, NEW left, left \subseteq ways, Quit(left)
  PROVE  IInv'
<1>1. ASSUME NEW t \in Tab
      PROVE  "told" \in DOMAIN page'[t] /\ page'[t].told \in Nat
  BY ToldIsTold DEF Quit, IInv, TypeInv
<1>2. TypeInv'
  BY <1>1 DEF Quit, IInv, TypeInv
<1>3. Letters'
  BY LettersKept DEF IInv, Quit
<1>4. QED
  BY <1>2, <1>3 DEF IInv

LEMMA GlobalKeyKeeps ==
  ASSUME TabShellAssumption, IInv, NEW m \in ways, GlobalKey(m)
  PROVE  IInv'
<1>1. CASE Quit(ways \ {m})
  BY <1>1, QuitKeeps
<1>2. ASSUME NEW i \in Tab, Activate(i, ways \ {m}), UNCHANGED <<activated, works, sent>>
      PROVE  IInv'
  <2>1. TypeInv' /\ ways' \in {ways \ {m}, (ways \ {m}) \cup ToFront({i})}
    BY <1>2, ActivateChanges DEF IInv
  <2>2. Letters'
    BY <1>2, <2>1, LettersKept DEF IInv
  <2>3. QED
    BY <2>1, <2>2 DEF IInv
<1>3. NextTab(active, 1) \in Tab /\ 1 \in Tab
  BY NextIsTab, TitleHasTab DEF IInv, TypeInv, Opened
<1>4. QED
  BY <1>1, <1>2, <1>3 DEF GlobalKey

LEMMA OpenTabKeeps ==
  ASSUME TabShellAssumption, IInv, NEW m \in ways, OpenTab(m)
  PROVE  IInv'
<1> DEFINE i == IndexOfTitle(m.title)
<1>1. i \in Tab
  BY TitleHasTab DEF IInv, Letters, MsgOK, OpenOK, OpenTab
<1>2. Activate(i, ways \ {m}) /\ UNCHANGED <<activated, works, sent>>
  BY DEF OpenTab
<1>3. TypeInv' /\ ways' \in {ways \ {m}, (ways \ {m}) \cup ToFront({i})}
  BY <1>1, <1>2, ActivateChanges DEF IInv
<1>4. Letters'
  BY <1>2, <1>3, LettersKept DEF IInv
<1>5. QED
  BY <1>3, <1>4 DEF IInv

(* What a page does with an answer changes its modals, never what it was   *)
(* told.                                                                   *)
LEMMA DeliverKeeps ==
  ASSUME TabShellAssumption, IInv, NEW m \in ways, Deliver(m)
  PROVE  IInv' /\ \A t \in Tab : page'[t].told = page[t].told
<1> DEFINE a == Addressee(m)
<1>1. a \in Tab /\ a = sent[m.id] /\ m.id \in DOMAIN sent
  BY DEF IInv, TypeInv, Letters, MsgOK, AnswerOK, Deliver, Addressee
<1>2. CASE UNCHANGED <<page, works, sent>>
  <2>1. TypeInv' /\ \A t \in Tab : page'[t].told = page[t].told
    BY <1>2 DEF IInv, TypeInv, Deliver
  <2>2. Letters'
    BY <1>2, LettersKept DEF IInv, Deliver
  <2>3. QED
    BY <2>1, <2>2 DEF IInv
<1>3. CASE Answered(a, m)
  <2>1. page' = [page EXCEPT ![a].asking = FALSE, ![a].stack = Closed(@)]
    BY <1>3 DEF Answered
  <2>2. page' = [t \in Tab |-> page'[t]]
        /\ \A t \in Tab : "told" \in DOMAIN page'[t] /\ page'[t].told = page[t].told
    BY <1>1, <2>1 DEF IInv, TypeInv
  <2>3. CASE ~m.yes
    <3>1. UNCHANGED <<works, sent, active, activated>> /\ ways' = ways \ {m}
      BY <1>3, <2>3 DEF Answered, Deliver
    <3>2. TypeInv'
      BY <2>2, <3>1 DEF IInv, TypeInv
    <3>3. Letters'
      BY <3>1, LettersKept DEF IInv
    <3>4. QED
      BY <2>2, <3>2, <3>3 DEF IInv
  <2>4. CASE m.yes
    <3> DEFINE w == [what |-> "done", tab |-> a, id |-> Len(sent) + 1, yes |-> TRUE]
    <3>1. /\ works' = works \cup {w} /\ sent' = Append(sent, a)
          /\ ways' = ways \ {m} /\ UNCHANGED <<active, activated>>
      BY <1>3, <2>4 DEF Answered, Deliver, Request
    <3>2. /\ sent' \in Seq(Tab)
          /\ Len(sent) + 1 \in DOMAIN sent' /\ sent'[Len(sent) + 1] = a
      BY <1>1, <3>1, SentGrows DEF IInv, TypeInv
    <3>3. TypeInv'
      BY <2>2, <3>1, <3>2 DEF IInv, TypeInv
    <3>4. \A v \in {w} : v.what = "done" /\ AnswerOK(v)'
      BY <3>2 DEF AnswerOK
    <3>5. /\ \A v \in ways : MsgOK(v)'
          /\ \A v \in works : v.what = "done" /\ AnswerOK(v)'
      BY <1>1, <3>1, LettersGrow DEF IInv
    <3>7. Letters'
      BY <3>1, <3>4, <3>5 DEF Letters
    <3>6. QED
      BY <2>2, <3>3, <3>7 DEF IInv
  <2>5. QED
    BY <2>3, <2>4
<1>4. QED
  BY <1>2, <1>3 DEF Deliver

LEMMA WorkEndsKeeps ==
  ASSUME TabShellAssumption, IInv, NEW w \in works, WorkEnds(w)
  PROVE  IInv'
BY DEF WorkEnds, shellVars, IInv, TypeInv, Letters, MsgOK, AnswerOK, OpenOK

-----------------------------------------------------------------------------
(* The page in front does something of its own: nothing is sent, and what  *)
(* it was told stays.                                                      *)
LEMMA PageChanges ==
  ASSUME TabShellAssumption, IInv, UNCHANGED <<active, activated, works, ways, sent>>,
         NEW p, page' = [page EXCEPT ![active] = p],
         "told" \in DOMAIN p, p.told = page[active].told
  PROVE  IInv' /\ \A t \in Tab : page'[t].told = page[t].told
<1>1. page' = [t \in Tab |-> page'[t]]
      /\ \A t \in Tab : "told" \in DOMAIN page'[t] /\ page'[t].told = page[t].told
  BY DEF IInv, TypeInv
<1>2. TypeInv'
  BY <1>1 DEF IInv, TypeInv
<1>3. Letters'
  BY LettersKept DEF IInv
<1>4. QED
  BY <1>1, <1>2, <1>3 DEF IInv

(* A key sends at most one thing, to the tab it is for, and leaves what    *)
(* the pages were told.                                                    *)
LEMMA ConfinedKeeps ==
  ASSUME TabShellAssumption, IInv, NEW k \in Key, Confined(k),
         UNCHANGED <<active, activated, works>>
  PROVE  /\ IInv' /\ ways \subseteq ways'
         /\ \A t \in Tab : page'[t].told = page[t].told
         /\ \/ sent' = sent
            \/ /\ sent' = Append(sent, active)
               /\ \E m \in ways' : m.what = "result" /\ m.id = Len(sent) + 1
<1>1. ASSUME UNCHANGED <<ways, sent>>, NEW p, page' = [page EXCEPT ![active] = p],
             "told" \in DOMAIN p, p.told = page[active].told
      PROVE  IInv' /\ \A t \in Tab : page'[t].told = page[t].told
  BY <1>1, PageChanges
<1>2. CASE page[active].typing
  <2> DEFINE p == [page[active] EXCEPT !.typing = k \notin {"esc", "enter"}]
  <2>1. page' = [page EXCEPT ![active] = p] /\ UNCHANGED <<ways, sent>>
    BY <1>2 DEF Confined
  <2>2. "told" \in DOMAIN p /\ p.told = page[active].told
    BY DEF IInv, TypeInv
  <2>3. QED
    BY <1>1, <2>1, <2>2
<1>3. CASE ~page[active].typing /\ TopOf(page[active].stack) = "help"
  <2> DEFINE p == [page[active] EXCEPT !.stack = Closed(@)]
  <2>1. UNCHANGED <<ways, sent>>
        /\ page' \in {page, [page EXCEPT ![active] = p]}
    BY <1>3 DEF Confined
  <2>2. "told" \in DOMAIN p /\ p.told = page[active].told
    BY DEF IInv, TypeInv
  <2>3. page = [page EXCEPT ![active] = page[active]] /\ "told" \in DOMAIN page[active]
    BY DEF IInv, TypeInv
  <2>4. QED
    BY <1>1, <2>1, <2>2, <2>3
<1>4. CASE ~page[active].typing /\ TopOf(page[active].stack) # "help"
  <2> DEFINE m == [what |-> "result", tab |-> active, id |-> Len(sent) + 1,
                   yes |-> k = "enter"]
  <2>1. /\ ways' = ways \cup {m} /\ sent' = Append(sent, active) /\ page' = page
    BY <1>4 DEF Confined, Request
  <2>2. active \in Tab /\ sent \in Seq(Tab)
    BY DEF IInv, TypeInv
  <2>3. /\ sent' \in Seq(Tab)
        /\ Len(sent) + 1 \in DOMAIN sent' /\ sent'[Len(sent) + 1] = active
    BY <2>1, <2>2, SentGrows
  <2>4. TypeInv'
    BY <2>1, <2>3 DEF IInv, TypeInv
  <2>5. \A n \in {m} : MsgOK(n)'
    BY <2>3 DEF MsgOK, AnswerOK
  <2>6. /\ \A n \in ways : MsgOK(n)'
        /\ \A w \in works : w.what = "done" /\ AnswerOK(w)'
    BY <2>1, <2>2, LettersGrow DEF IInv
  <2>7. Letters'
    BY <2>1, <2>5, <2>6 DEF Letters
  <2>8. m \in ways' /\ m.what = "result" /\ m.id = Len(sent) + 1
    BY <2>1
  <2>9. IInv' /\ ways \subseteq ways' /\ page' = page /\ sent' = Append(sent, active)
    BY <2>1, <2>4, <2>7 DEF IInv
  <2>10. QED
    BY <2>8, <2>9
<1>5. QED
  BY <1>2, <1>3, <1>4, <1>1 DEF Confined

LEMMA OwnKeyKeeps ==
  ASSUME TabShellAssumption, IInv, NEW k \in Key, OwnKey(k),
         UNCHANGED <<active, activated, works>>
  PROVE  /\ IInv' /\ ways \subseteq ways'
         /\ \A t \in Tab : page'[t].told = page[t].told
         /\ \/ sent' = sent
            \/ \E t \in Tab :
                 /\ sent' = Append(sent, t)
                 /\ \E m \in ways' : m.what = "open" /\ m.id = Len(sent) + 1
<1>1. CASE k \in {"help", "op", "filter"}
  <2> DEFINE p == [page[active] EXCEPT
                     !.typing = (k = "filter"),
                     !.asking = @ \/ k = "op",
                     !.stack = IF k = "filter" THEN @
                               ELSE Pushed(@, IF k = "op" THEN "ask" ELSE k)]
  <2>1. page' = [page EXCEPT ![active] = p] /\ UNCHANGED <<ways, sent>>
    BY <1>1 DEF OwnKey, IInv, TypeInv
  <2>2. "told" \in DOMAIN p /\ p.told = page[active].told
    BY DEF IInv, TypeInv
  <2>3. QED
    BY <2>1, <2>2, PageChanges
<1>2. CASE k = "logs"
  <2> DEFINE t == IndexOfTitle("Logs")
             m == [what |-> "open", title |-> "Logs", id |-> Len(sent) + 1]
  <2>1. ways' = ways \cup {m} /\ sent' = Append(sent, t) /\ page' = page
    BY <1>2 DEF OwnKey, Errand
  <2>2. t \in Tab /\ sent \in Seq(Tab)
    BY TitleHasTab DEF IInv, TypeInv, Opened
  <2>3. /\ sent' \in Seq(Tab)
        /\ Len(sent) + 1 \in DOMAIN sent' /\ sent'[Len(sent) + 1] = t
    BY <2>1, <2>2, SentGrows
  <2>4. TypeInv'
    BY <2>1, <2>3 DEF IInv, TypeInv
  <2>5. \A n \in {m} : MsgOK(n)'
    BY <2>3 DEF MsgOK, OpenOK, Opened
  <2>6. /\ \A n \in ways : MsgOK(n)'
        /\ \A w \in works : w.what = "done" /\ AnswerOK(w)'
    BY <2>1, <2>2, LettersGrow DEF IInv
  <2>7. Letters'
    BY <2>1, <2>5, <2>6 DEF Letters
  <2>8. m \in ways' /\ m.what = "open" /\ m.id = Len(sent) + 1
    BY <2>1
  <2>9. IInv' /\ ways \subseteq ways' /\ page' = page /\ sent' = Append(sent, t)
    BY <2>1, <2>4, <2>7 DEF IInv
  <2>10. QED
    BY <2>2, <2>8, <2>9
<1>3. CASE k = "esc"
  <2> DEFINE m == [what |-> "open", title |-> "Runners", id |-> 0]
  <2>1. ways' = ways \cup {m} /\ UNCHANGED <<page, sent>>
    BY <1>3 DEF OwnKey
  <2>2. \A n \in {m} : MsgOK(n)'
    BY DEF MsgOK, OpenOK, Opened
  <2>3. TypeInv' /\ Letters'
    BY <2>1, <2>2 DEF IInv, TypeInv, Letters, MsgOK, AnswerOK, OpenOK
  <2>4. QED
    BY <2>1, <2>3 DEF IInv
<1>4. QED
  BY <1>1, <1>2, <1>3 DEF OwnKey

LEMMA PressKeeps ==
  ASSUME TabShellAssumption, IInv, NEW k \in Key, KeyPressed(k)
  PROVE  /\ IInv' /\ ways \subseteq ways'
         /\ \A t \in Tab : page'[t].told = page[t].told
         /\ \/ sent' = sent
            \/ \E t \in Tab :
                 /\ sent' = Append(sent, t)
                 /\ \E m \in ways' : m.what \in {"result", "open"} /\ m.id = Len(sent) + 1
<1>1. UNCHANGED <<active, activated, works>>
  BY DEF KeyPressed
<1>2. CASE Confined(k)
  BY <1>1, <1>2, ConfinedKeeps DEF IInv, TypeInv
<1>3. CASE OwnKey(k)
  BY <1>1, <1>3, OwnKeyKeeps
<1>4. CASE GivenBack(k)
  <2> DEFINE m == [what |-> "key", key |-> k, n |-> typed + 1]
  <2>1. ways' = ways \cup {m} /\ UNCHANGED <<page, sent>>
    BY <1>4 DEF GivenBack, Bubbled
  <2>2. \A n \in {m} : MsgOK(n)'
    BY DEF MsgOK
  <2>3. TypeInv' /\ Letters'
    BY <1>1, <2>1, <2>2 DEF IInv, TypeInv, Letters, MsgOK, AnswerOK, OpenOK
  <2>4. QED
    BY <2>1, <2>3 DEF IInv
<1>5. QED
  BY <1>2, <1>3, <1>4 DEF KeyPressed

-----------------------------------------------------------------------------
(* Whatever is on its way is for the tab it was sent for: a message of a   *)
(* page can only come back to that page, and an errand only to a tab that  *)
(* there is.                                                               *)
LEMMA StepKeeps ==
  ASSUME TabShellAssumption, IInv, [ShellNext]_allVars
  PROVE  IInv'
<1>1. CASE Distribute
  BY <1>1, DistributeKeeps
<1>2. CASE Interrupt
  BY <1>2, QuitKeeps DEF Interrupt
<1>3. CASE Ends
  BY <1>3 DEF Ends, IInv, TypeInv, Letters, MsgOK, AnswerOK, OpenOK
<1>4. ASSUME NEW k \in Key, KeyPressed(k) PROVE IInv'
  BY <1>4, PressKeeps
<1>5. ASSUME NEW w \in works, WorkEnds(w) PROVE IInv'
  BY <1>5, WorkEndsKeeps
<1>6. ASSUME NEW m \in ways, GlobalKey(m) \/ OpenTab(m) \/ Deliver(m) PROVE IInv'
  BY <1>6, GlobalKeyKeeps, OpenTabKeeps, DeliverKeeps
<1>7. CASE UNCHANGED allVars
  BY <1>7 DEF allVars, shellVars, IInv, TypeInv, Letters, MsgOK, AnswerOK, OpenOK
<1>8. QED
  BY <1>1, <1>2, <1>3, <1>4, <1>5, <1>6, <1>7 DEF ShellNext

LEMMA InitHolds ==
  ASSUME TabShellAssumption, ShellInit
  PROVE  IInv /\ Quiet /\ Follows
<1>1. 1 \in Tab
  BY TitleHasTab DEF Opened
<1>2. TypeInv
  <2>1. page = [t \in Tab |-> page[t]]
        /\ \A t \in Tab : "told" \in DOMAIN page[t] /\ page[t].told \in Nat
    BY DEF ShellInit
  <2>2. sent \in Seq(Tab)
    BY DEF ShellInit
  <2>3. QED
    BY <1>1, <2>1, <2>2 DEF ShellInit, TypeInv
<1>3. Letters /\ Quiet
  BY DEF ShellInit, Letters, Quiet
<1>4. Follows
  BY DEF ShellInit, Follows
<1>5. QED
  BY <1>2, <1>3, <1>4 DEF IInv

THEOREM LettersFindTheirTab ==
  ASSUME TabShellAssumption
  PROVE  ShellSpec => []IInv
<1>1. ShellInit => IInv
  BY InitHolds
<1>2. IInv /\ [ShellNext]_allVars => IInv'
  BY StepKeeps
<1>3. QED
  BY <1>1, <1>2, PTL DEF ShellSpec

-----------------------------------------------------------------------------
OnItsWay(i) ==
  \E m \in ways \cup works : m.what \in {"result", "done", "open"} /\ m.id = i

(* NothingLost, step by step: what leaves the set of what is on its way    *)
(* has been received by the tab it is for.                                 *)
LEMMA NothingLostKept ==
  ASSUME TabShellAssumption, IInv, NothingLost, [ShellNext]_allVars
  PROVE  NothingLost'
<1>1. ASSUME UNCHANGED <<sent, got, works>>, ways \subseteq ways' PROVE NothingLost'
  BY <1>1 DEF NothingLost
<1>2. ASSUME UNCHANGED <<sent, got, works>>, NEW m \in ways, m.what = "key",
             ways \ {m} \subseteq ways'
      PROVE  NothingLost'
  <2>1. SUFFICES ASSUME NEW i \in DOMAIN sent, [id |-> i, tab |-> sent[i]] \notin got
                 PROVE  OnItsWay(i)'
    BY <1>2 DEF NothingLost, OnItsWay
  <2>2. PICK n \in ways \cup works : n.what \in {"result", "done", "open"} /\ n.id = i
    BY <2>1 DEF NothingLost
  <2>3. n # m
    BY <1>2, <2>2
  <2>4. n \in (ways \cup works)'
    BY <1>2, <2>3
  <2>5. QED
    BY <2>2, <2>4 DEF OnItsWay
<1>3. CASE Distribute
  BY <1>1, <1>3 DEF Distribute
<1>4. CASE Interrupt
  BY <1>1, <1>4 DEF Interrupt, Quit
<1>5. CASE Ends \/ UNCHANGED allVars
  BY <1>1, <1>5 DEF Ends, allVars, shellVars
<1>6. ASSUME NEW m \in ways, GlobalKey(m) PROVE NothingLost'
  BY <1>2, <1>6 DEF GlobalKey, Quit, Activate
<1>7. ASSUME NEW w \in works, WorkEnds(w) PROVE NothingLost'
  <2>1. (ways \cup works)' = ways \cup works /\ UNCHANGED <<sent, got>>
    BY <1>7 DEF WorkEnds
  <2>2. QED
    BY <2>1 DEF NothingLost
<1>8. ASSUME NEW k \in Key, KeyPressed(k) PROVE NothingLost'
  <2>1. ways \subseteq ways' /\ UNCHANGED <<got, works>>
    BY <1>8, PressKeeps DEF KeyPressed
  <2>2. CASE sent' = sent
    BY <1>1, <2>1, <2>2
  <2>3. CASE sent' # sent
    <3>1. PICK t \in Tab :
             /\ sent' = Append(sent, t)
             /\ \E m \in ways' : m.what \in {"result", "open"} /\ m.id = Len(sent) + 1
      BY <1>8, <2>3, PressKeeps
    <3>2. /\ DOMAIN sent' = DOMAIN sent \cup {Len(sent) + 1}
          /\ \A i \in DOMAIN sent : sent'[i] = sent[i]
      BY <3>1, SentGrows DEF IInv, TypeInv
    <3>3. \A i \in DOMAIN sent : [id |-> i, tab |-> sent'[i]] \in got' \/ OnItsWay(i)'
      BY <2>1, <3>2 DEF NothingLost, OnItsWay
    <3>4. \A i \in {Len(sent) + 1} : OnItsWay(i)'
      BY <3>1 DEF OnItsWay
    <3>5. QED
      BY <3>2, <3>3, <3>4 DEF NothingLost, OnItsWay
  <2>4. QED
    BY <2>2, <2>3
<1>9. ASSUME NEW m \in ways, OpenTab(m) PROVE NothingLost'
  <2> DEFINE a == IndexOfTitle(m.title)
  <2>1. /\ m.what = "open" /\ UNCHANGED <<sent, works>> /\ ways \ {m} \subseteq ways'
        /\ got \subseteq got'
        /\ m.id # 0 => [id |-> m.id, tab |-> a] \in got'
    BY <1>9 DEF OpenTab, Activate, Receives, OwnCases
  <2>2. m.id # 0 => a = sent[m.id]
    BY <2>1 DEF IInv, Letters, MsgOK, OpenOK
  <2>3. \A i \in DOMAIN sent : i # 0
    BY DEF IInv, TypeInv
  <2> HIDE DEF a
  <2>4. ASSUME NEW i \in DOMAIN sent, [id |-> i, tab |-> sent[i]] \notin got'
        PROVE  OnItsWay(i)'
    <3>1. PICK n \in ways \cup works : n.what \in {"result", "done", "open"} /\ n.id = i
      BY <2>1, <2>4 DEF NothingLost
    <3>2. n # m
      BY <2>1, <2>2, <2>3, <2>4, <3>1
    <3>3. n \in (ways \cup works)'
      BY <2>1, <3>2
    <3>4. QED
      BY <3>1, <3>3 DEF OnItsWay
  <2>5. QED
    BY <2>1, <2>4 DEF NothingLost, OnItsWay
<1>10. ASSUME NEW m \in ways, Deliver(m) PROVE NothingLost'
  <2> DEFINE a == Addressee(m)
  <2>1. /\ m.what \in {"result", "done"} /\ ways' = ways \ {m}
        /\ got' = got \cup {[id |-> m.id, tab |-> m.tab]}
        /\ m.id \in DOMAIN sent /\ m.tab = sent[m.id] /\ sent \in Seq(Tab)
    BY <1>10 DEF Deliver, Receives, OwnCases, Addressee, IInv, TypeInv, Letters, MsgOK,
                 AnswerOK
  <2>2. \/ UNCHANGED <<works, sent>>
        \/ /\ works' = works \cup {Request("done", m.tab, TRUE)}
           /\ sent' = Append(sent, m.tab)
    BY <1>10 DEF Deliver, Answered, Addressee
  <2>3. ASSUME NEW i \in DOMAIN sent, [id |-> i, tab |-> sent[i]] \notin got'
        PROVE  OnItsWay(i)'
    <3>1. PICK n \in ways \cup works : n.what \in {"result", "done", "open"} /\ n.id = i
      BY <2>1, <2>3 DEF NothingLost
    <3>2. n # m
      BY <2>1, <2>3, <3>1
    <3>3. n \in (ways \cup works)'
      BY <2>1, <2>2, <3>2
    <3>4. QED
      BY <3>1, <3>3 DEF OnItsWay
  <2>4. CASE UNCHANGED <<works, sent>>
    BY <2>3, <2>4 DEF NothingLost, OnItsWay
  <2>5. CASE /\ works' = works \cup {Request("done", m.tab, TRUE)}
             /\ sent' = Append(sent, m.tab)
    <3>1. m.tab \in Tab
      BY <2>1
    <3>2. /\ DOMAIN sent' = DOMAIN sent \cup {Len(sent) + 1}
          /\ \A i \in DOMAIN sent : sent'[i] = sent[i]
      BY <2>1, <2>5, <3>1, SentGrows
    <3>3. \A i \in {Len(sent) + 1} : OnItsWay(i)'
      <4> DEFINE w == Request("done", m.tab, TRUE)
      <4>1. w.what = "done" /\ w.id = Len(sent) + 1
        BY DEF Request
      <4>2. w \in works'
        BY <2>5
      <4>3. QED
        BY <4>1, <4>2 DEF OnItsWay
    <3>4. QED
      BY <2>3, <3>2, <3>3 DEF NothingLost, OnItsWay
  <2>6. QED
    BY <2>2, <2>4, <2>5
<1>11. QED
  BY <1>3, <1>4, <1>5, <1>6, <1>7, <1>8, <1>9, <1>10 DEF ShellNext

(* Every answer, every end of a job and every errand reaches the page it   *)
(* is for, whichever tab is in front and whatever modal is open when it    *)
(* comes (comments of TabMsg, ModalMsg, Overlay.Handles).                  *)
THEOREM NothingIsLost ==
  ASSUME TabShellAssumption
  PROVE  ShellSpec => []NothingLost
<1>1. ShellInit => IInv /\ NothingLost
  <2>1. ShellInit => DOMAIN sent = {}
    BY DEF ShellInit
  <2>2. QED
    BY <2>1, InitHolds DEF NothingLost
<1>2. IInv /\ NothingLost /\ [ShellNext]_allVars => (IInv /\ NothingLost)'
  BY StepKeeps, NothingLostKept
<1>3. QED
  BY <1>1, <1>2, PTL DEF ShellSpec

-----------------------------------------------------------------------------
(* ActivationsBalance, step by step, if no key comes before the program    *)
(* knows the size of the terminal: a tab chosen before that is told twice. *)
BalanceInv == Quiet /\ Follows

LEMMA ChangeOfTabsFollows ==
  ASSUME TabShellAssumption, IInv, BalanceInv, activated, NEW i \in Tab, NEW left,
         Activate(i, left), UNCHANGED <<activated, phase, sent>>
  PROVE  BalanceInv'
<1>1. Quiet'
  BY DEF Quiet
<1>2. active' = i /\ active \in Tab
  BY ActivateChanges DEF IInv, TypeInv
<1>3. CASE i = active
  <2>1. page' = page
    BY <1>3, ActivateChanges DEF IInv
  <2>2. QED
    BY <1>1, <1>2, <1>3, <2>1 DEF BalanceInv, Follows
<1>4. CASE i # active
  <2>1. /\ page'[i].told = page[i].told + 1
        /\ page'[active].told = IF page[active].told = 0 THEN 0 ELSE page[active].told - 1
        /\ \A t \in Tab \ {i, active} : page'[t] = page[t]
    BY <1>4, ActivateChanges DEF IInv
  <2>2. QED
    BY <1>1, <1>2, <1>4, <2>1 DEF BalanceInv, Follows
<1>5. QED
  BY <1>3, <1>4

LEMMA StepBalances ==
  ASSUME TabShellAssumption, ~Early, IInv, BalanceInv, [ShellNext]_allVars
  PROVE  BalanceInv'
<1>1. CASE Distribute
  <2>1. activated' = TRUE /\ UNCHANGED <<active, phase>>
    BY <1>1 DEF Distribute
  <2>2. \A t \in Tab : page'[t].told = IF ActivateOnce(t) THEN page[t].told + 1
                                       ELSE page[t].told
    BY <1>1, DistributeKeeps
  <2>3. QED
    BY <2>1, <2>2 DEF BalanceInv, Quiet, Follows, ActivateOnce, IInv, TypeInv
<1>2. CASE Interrupt
  BY <1>2 DEF Interrupt, Quit, BalanceInv, Quiet, Follows
<1>3. CASE Ends
  BY <1>3 DEF Ends, BalanceInv, Quiet, Follows
<1>4. ASSUME NEW k \in Key, KeyPressed(k) PROVE BalanceInv'
  <2>1. /\ activated /\ UNCHANGED <<active, activated, phase>>
        /\ \A t \in Tab : page'[t].told = page[t].told
    BY <1>4, PressKeeps DEF KeyPressed
  <2>2. QED
    BY <2>1 DEF BalanceInv, Quiet, Follows
<1>5. ASSUME NEW w \in works, WorkEnds(w) PROVE BalanceInv'
  BY <1>5 DEF WorkEnds, shellVars, BalanceInv, Quiet, Follows
<1>6. ASSUME NEW m \in ways PROVE activated
  BY <1>6 DEF BalanceInv, Quiet
<1>7. ASSUME NEW m \in ways, GlobalKey(m) PROVE BalanceInv'
  <2>1. CASE Quit(ways \ {m})
    BY <1>6, <2>1 DEF Quit, BalanceInv, Quiet, Follows
  <2>2. NextTab(active, 1) \in Tab /\ 1 \in Tab
    BY NextIsTab, TitleHasTab DEF IInv, TypeInv, Opened
  <2>3. QED
    BY <1>6, <1>7, <2>1, <2>2, ChangeOfTabsFollows DEF GlobalKey
<1>8. ASSUME NEW m \in ways, OpenTab(m) PROVE BalanceInv'
  <2>1. IndexOfTitle(m.title) \in Tab
    BY <1>8, TitleHasTab DEF OpenTab, IInv, Letters, MsgOK, OpenOK
  <2>2. QED
    BY <1>6, <1>8, <2>1, ChangeOfTabsFollows DEF OpenTab
<1>9. ASSUME NEW m \in ways, Deliver(m) PROVE BalanceInv'
  <2>1. /\ UNCHANGED <<active, activated, phase>>
        /\ \A t \in Tab : page'[t].told = page[t].told
    BY <1>9, DeliverKeeps DEF Deliver
  <2>2. QED
    BY <1>6, <2>1 DEF BalanceInv, Quiet, Follows
<1>10. CASE UNCHANGED allVars
  BY <1>10 DEF allVars, shellVars, BalanceInv, Quiet, Follows
<1>11. QED
  BY <1>1, <1>2, <1>3, <1>4, <1>5, <1>7, <1>8, <1>9, <1>10 DEF ShellNext

(* A page that subscribes when it is told it is in front and unsubscribes  *)
(* when it is told the opposite has one subscription in front and none     *)
(* behind, however quickly the tabs are changed (comment of ActivateMsg,   *)
(* page/lifecycle.go).                                                     *)
THEOREM ActivationsAreBalanced ==
  ASSUME TabShellAssumption, ~Early
  PROVE  ShellSpec => []ActivationsBalance
<1>1. ShellInit => IInv /\ BalanceInv
  BY InitHolds DEF BalanceInv
<1>2. IInv /\ BalanceInv /\ [ShellNext]_allVars => (IInv /\ BalanceInv)'
  BY StepKeeps, StepBalances
<1>3. IInv /\ BalanceInv => ActivationsBalance
  BY DEF IInv, TypeInv, BalanceInv, Follows, ActivationsBalance
<1>4. QED
  BY <1>1, <1>2, <1>3, PTL DEF ShellSpec

-----------------------------------------------------------------------------
(* One worker after the other: when one starts the others are over, and    *)
(* what they have written is older than it.                                *)
Worker == [log : Logs, written : Nat, started : Nat, changed : Nat, over : BOOLEAN]

HostInv ==
  /\ clock \in Nat
  /\ workers \in Seq(Worker)
  /\ \A w \in DOMAIN workers : workers[w].started <= clock /\ workers[w].changed <= clock
  /\ \A v, w \in DOMAIN workers :
       v < w => workers[v].over /\ workers[v].changed < workers[w].started

(* What was read for a worker is its own, or the worker is over.           *)
Own(w, of) == w \in DOMAIN workers /\ (of \in {0, w} \/ workers[w].over)

PageInv ==
  /\ list \subseteq DOMAIN workers
  /\ \A p \in parses : Own(p.key, p.log)
  /\ \A m \in answers : Own(m.key, m.info.of)
  /\ \A w \in DOMAIN info : Own(w, info[w].of)
  /\ \A r \in rows : Own(r.worker, r.info.of)

RowsInv == HostInv /\ PageInv

-----------------------------------------------------------------------------
(* Workers stay what they are, and stay over.                              *)
Later == \A w \in DOMAIN workers : w \in DOMAIN workers' /\ (workers[w].over => workers'[w].over)

(* What the page knows stays right while the host goes on.                 *)
LEMMA PageStays ==
  ASSUME PageInv, Later, UNCHANGED <<infoVars, parses, answers>>
  PROVE  PageInv'
BY DEF PageInv, Later, Own, infoVars

(* What is known of a worker.                                              *)
LEMMA WorkersAre ==
  ASSUME RowsInv
  PROVE  /\ DOMAIN workers \subseteq Nat
         /\ \A w \in DOMAIN workers :
              /\ workers[w] \in Worker
              /\ workers[w].started \in Nat /\ workers[w].changed \in Nat
<1>1. DOMAIN workers \subseteq Nat /\ \A w \in DOMAIN workers : workers[w] \in Worker
  BY DEF RowsInv, HostInv
<1> QED  BY <1>1 DEF Worker

(* A worker starts when no other is running.                               *)
LEMMA StartsAlone ==
  ASSUME JobsTabAssumption, MaxAtOnce = 1, RowsInv, WorkerStarts
  PROVE  RowsInv'
<1>1. Running = {}
  <2>1. IsFiniteSet(Running)
    <3>1. IsFiniteSet(1 .. Len(workers))
      BY FS_Interval DEF RowsInv, HostInv
    <3>2. Running \subseteq 1 .. Len(workers)
      BY DEF Running, RowsInv, HostInv
    <3> QED  BY <3>1, <3>2, FS_Subset
  <2>2. Cardinality(Running) \in Nat /\ Cardinality(Running) < 1
    BY <2>1, FS_CardinalityType DEF WorkerStarts
  <2> QED  BY <2>1, <2>2, FS_EmptySet
<1>2. PICK l \in Logs : workers' = Append(workers, [log |-> l, written |-> 0,
        started |-> clock + 1, changed |-> 0, over |-> FALSE])
  BY DEF WorkerStarts
<1> DEFINE new == [log |-> l, written |-> 0, started |-> clock + 1, changed |-> 0, over |-> FALSE]
<1>3. clock' = clock + 1 /\ clock \in Nat /\ UNCHANGED <<infoVars, parses, answers>>
  BY DEF WorkerStarts, RowsInv, HostInv
<1>4. /\ new \in Worker /\ new.started = clock + 1 /\ new.changed = 0
      /\ workers \in Seq(Worker) /\ workers' = Append(workers, new)
  BY <1>2, <1>3 DEF Worker, RowsInv, HostInv
<1> HIDE DEF new
<1>5. /\ workers' \in Seq(Worker) /\ DOMAIN workers' = DOMAIN workers \cup {Len(workers) + 1}
      /\ workers'[Len(workers) + 1] = new
      /\ \A w \in DOMAIN workers : workers'[w] = workers[w] /\ w < Len(workers) + 1
      /\ Len(workers) + 1 \notin DOMAIN workers /\ DOMAIN workers \subseteq Nat
      /\ Len(workers) \in Nat
  BY <1>4
<1>6. \A w \in DOMAIN workers : /\ workers[w].over /\ workers[w].changed <= clock
                                /\ workers[w].started <= clock
                                /\ workers[w].changed \in Nat /\ workers[w].started \in Nat
  BY <1>1, WorkersAre DEF Running, RowsInv, HostInv
<1>7. HostInv'
  <2>1. \A w \in DOMAIN workers' : workers'[w].started <= clock' /\ workers'[w].changed <= clock'
    BY <1>3, <1>4, <1>5, <1>6
  <2>2. ASSUME NEW v \in DOMAIN workers', NEW w \in DOMAIN workers', v < w
        PROVE  workers'[v].over /\ workers'[v].changed < workers'[w].started
    <3>1. v \in DOMAIN workers
      BY <1>5, <2>2
    <3>2. CASE w \in DOMAIN workers
      BY <1>5, <2>2, <3>1, <3>2 DEF RowsInv, HostInv
    <3>3. CASE w = Len(workers) + 1
      BY <1>3, <1>4, <1>5, <1>6, <3>1, <3>3
    <3> QED  BY <1>5, <3>2, <3>3
  <2> QED  BY <1>3, <1>5, <2>1, <2>2 DEF HostInv
<1>8. Later
  BY <1>5 DEF Later
<1> QED  BY <1>3, <1>7, <1>8, PageStays DEF RowsInv

(* A worker that runs writes its log, or ends; it is the last one.         *)
LEMMA RunsLast ==
  ASSUME RowsInv, NEW w \in Running, WorkerWrites(w) \/ WorkerEnds(w)
  PROVE  RowsInv'
<1> DEFINE new == workers'[w]
<1>1. /\ w \in DOMAIN workers /\ ~workers[w].over /\ workers \in Seq(Worker) /\ clock \in Nat
      /\ DOMAIN workers \subseteq Nat
  BY DEF Running, RowsInv, HostInv
<1>2. /\ clock' \in Nat /\ clock <= clock' /\ DOMAIN workers' = DOMAIN workers
      /\ \A v \in DOMAIN workers : v # w => workers'[v] = workers[v]
      /\ new \in Worker /\ workers' \in Seq(Worker)
      /\ new.started = workers[w].started /\ new.changed \in {workers[w].changed, clock'}
      /\ UNCHANGED <<infoVars, parses, answers>>
  <2>1. workers[w] \in Worker
    BY <1>1
  <2>2. PICK v \in Worker : /\ v.started = workers[w].started
                            /\ v.changed \in {workers[w].changed, clock'}
                            /\ workers' = [workers EXCEPT ![w] = v]
    <3>1. CASE WorkerWrites(w)
      <4> DEFINE v == [workers[w] EXCEPT !.written = @ + 1, !.changed = clock + 1]
      <4>1. clock + 1 \in Nat
        BY <1>1
      <4>2. v \in Worker /\ v.started = workers[w].started /\ v.changed = clock + 1
        <5>1. workers[w].written + 1 \in Nat
          BY <2>1 DEF Worker
        <5> DEFINE k == workers[w].written + 1
                   n == clock + 1
        <5>2. v = [workers[w] EXCEPT !.written = k, !.changed = n]
          OBVIOUS
        <5>3. k \in Nat /\ n \in Nat /\ n = clock + 1
          BY <4>1, <5>1
        <5> HIDE DEF v, k, n
        <5> QED  BY <2>1, <5>2, <5>3 DEF Worker
      <4>3. workers' = [workers EXCEPT ![w] = v] /\ clock' = clock + 1
        BY <1>1, <2>1, <3>1 DEF WorkerWrites, Worker
      <4> QED  BY <4>2, <4>3
    <3>2. CASE WorkerEnds(w)
      <4> DEFINE v == [workers[w] EXCEPT !.over = TRUE]
      <4>1. v \in Worker /\ v.started = workers[w].started /\ v.changed = workers[w].changed
        BY <2>1 DEF Worker
      <4>2. workers' = [workers EXCEPT ![w] = v]
        BY <3>2 DEF WorkerEnds
      <4> QED  BY <4>1, <4>2
    <3> QED  BY <3>1, <3>2
  <2>3. clock' \in Nat /\ clock <= clock' /\ UNCHANGED <<infoVars, parses, answers>>
    BY <1>1 DEF WorkerWrites, WorkerEnds
  <2> QED  BY <1>1, <2>2, <2>3
<1> HIDE DEF new
<1>3. \A v \in DOMAIN workers : v # w => v < w
  BY <1>1 DEF RowsInv, HostInv
<1>4. \A v \in DOMAIN workers : workers[v].started \in Nat /\ workers[v].changed \in Nat
  BY WorkersAre
<1>5. HostInv'
  <2>1. \A v \in DOMAIN workers' : workers'[v].started <= clock' /\ workers'[v].changed <= clock'
    BY <1>1, <1>2, <1>4 DEF new, RowsInv, HostInv
  <2>2. ASSUME NEW u \in DOMAIN workers', NEW v \in DOMAIN workers', u < v
        PROVE  workers'[u].over /\ workers'[u].changed < workers'[v].started
    <3>1. u # w
      BY <1>1, <1>2, <1>3, <2>2
    <3>2. workers'[u] = workers[u] /\ workers'[v].started = workers[v].started
      BY <1>2, <3>1, <2>2 DEF new
    <3> QED  BY <1>2, <2>2, <3>2 DEF RowsInv, HostInv
  <2> QED  BY <1>2, <2>1, <2>2 DEF HostInv
<1>6. Later
  BY <1>1, <1>2 DEF Later
<1> QED  BY <1>2, <1>5, <1>6, PageStays DEF RowsInv

(* The log changed after a worker has started is the worker's own, or that *)
(* of a later worker.                                                      *)
LEMMA FindsItsOwn ==
  ASSUME RowsInv, NEW w \in DOMAIN workers, NEW log \in LogOf(w)
  PROVE  Own(w, log)
<1>1. log \in DOMAIN workers /\ workers[log].changed >= workers[w].started
  BY DEF LogOf, LatestWorker, LogFiles, IsItsOwn
<1>2. /\ workers[log].changed \in Nat /\ workers[w].started \in Nat
      /\ log \in Nat /\ w \in Nat
  BY <1>1, WorkersAre
<1>3. ~(log < w)
  BY <1>1, <1>2 DEF RowsInv, HostInv
<1> QED  BY <1>1, <1>2, <1>3 DEF Own, RowsInv, HostInv

(* The goroutine that looks for the log and reads it.                      *)
LEMMA ParsesItsOwn ==
  ASSUME RowsInv, NEW p \in parses, Finds(p) \/ Reads(p)
  PROVE  RowsInv'
<1>1. /\ UNCHANGED <<logVars, infoVars>> /\ Own(p.key, p.log) /\ Own(p.key, 0)
  BY DEF Finds, Reads, RowsInv, PageInv, Own
<1>2. CASE Finds(p)
  <2>1. CASE LogOf(p.key) = {}
    <3>1. /\ parses' = parses \ {p}
          /\ answers' = answers \cup {[key |-> p.key, info |-> Empty, retry |-> Empty.repo = 0]}
      BY <1>2, <2>1 DEF Finds, InfoAnswer
    <3>2. Empty.of = 0
      BY DEF Empty
    <3> QED  BY <1>1, <3>1, <3>2 DEF RowsInv, HostInv, PageInv, Own, logVars, infoVars
  <2>2. CASE LogOf(p.key) # {}
    <3>1. PICK log \in LogOf(p.key) : parses' = (parses \ {p}) \cup {[p EXCEPT !.log = log]}
      BY <1>2, <2>2 DEF Finds
    <3> DEFINE found == [p EXCEPT !.log = log]
    <3>2. Own(p.key, log)
      BY <1>1, FindsItsOwn DEF Own
    <3>3. Own(found.key, found.log)
      BY <3>2
    <3> QED  BY <1>1, <1>2, <2>2, <3>1, <3>3
             DEF Finds, RowsInv, HostInv, PageInv, Own, logVars, infoVars
  <2> QED  BY <2>1, <2>2
<1>3. CASE Reads(p)
  <2> DEFINE found == ParseWorker(p.log, Written(p.log))
  <2>1. /\ parses' = parses \ {p}
        /\ answers' = answers \cup {[key |-> p.key, info |-> found, retry |-> found.repo = 0]}
    BY <1>3 DEF Reads, InfoAnswer
  <2>2. found.of = p.log
    BY DEF ParseWorker
  <2> HIDE DEF found
  <2> QED  BY <1>1, <2>1, <2>2 DEF RowsInv, HostInv, PageInv, Own, logVars, infoVars
<1> QED  BY <1>2, <1>3

(* The rows show what is remembered.                                       *)
LEMMA RowsAreOwn ==
  ASSUME NEW l, l \subseteq DOMAIN workers, NEW i, \A w \in DOMAIN i : Own(w, i[w].of)
  PROVE  \A r \in JobRows(l, i) : Own(r.worker, r.info.of)
<1> SUFFICES ASSUME NEW r \in JobRows(l, i) PROVE Own(r.worker, r.info.of)
  OBVIOUS
<1>1. PICK w \in l : r = [worker |-> w, info |-> IF w \in DOMAIN i THEN i[w] ELSE Empty]
  BY DEF JobRows
<1>2. CASE w \in DOMAIN i
  BY <1>1, <1>2
<1>3. CASE w \notin DOMAIN i
  BY <1>1, <1>3 DEF Empty, Own
<1> QED  BY <1>2, <1>3

(* A detection, and the answer of a goroutine.                             *)
LEMMA PageKeeps ==
  ASSUME RowsInv, SetState \/ \E m \in answers : OnJobInfo(m)
  PROVE  RowsInv'
<1>1. workers' = workers /\ clock' = clock
  BY DEF SetState, OnJobInfo, logVars
<1>2. \A w, of : Own(w, of)' <=> Own(w, of)
  BY <1>1 DEF Own
<1>3. HostInv'
  BY <1>1 DEF RowsInv, HostInv
<1>4. CASE SetState
  <2> DEFINE live == Live(Running)
             ask  == {w \in live \ (DOMAIN info \cup sought) : Tries(w) < MaxTries}
  <2>1. Running \subseteq DOMAIN workers /\ live \subseteq Running
    BY DEF Running, Live
  <2>2. /\ list' = Running /\ rows' = JobRows(Running, info) /\ answers' = answers
        /\ parses' = parses \cup {[key |-> w, log |-> 0] : w \in ask}
        /\ info' = [w \in DOMAIN info \cap live |-> info[w]]
    BY <1>4 DEF SetState, ResolveInfo, Restrict
  <2>3. ask \subseteq DOMAIN workers
    BY <2>1
  <2> HIDE DEF live, ask
  <2>4. \A r \in rows' : Own(r.worker, r.info.of)
    BY <2>1, <2>2, RowsAreOwn DEF RowsInv, PageInv
  <2>5. \A p \in parses' : Own(p.key, p.log)
    BY <2>2, <2>3 DEF RowsInv, PageInv, Own
  <2>6. \A w \in DOMAIN info' : Own(w, info'[w].of)
    BY <2>2 DEF RowsInv, PageInv
  <2> QED  BY <1>1, <1>2, <1>3, <2>1, <2>2, <2>4, <2>5, <2>6 DEF RowsInv, PageInv
<1>5. ASSUME NEW m \in answers, OnJobInfo(m) PROVE RowsInv'
  <2>1. list' = list /\ parses' = parses /\ answers' \subseteq answers
    BY <1>5 DEF OnJobInfo
  <2>2. CASE m.retry
    BY <1>1, <1>3, <1>5, <2>1, <2>2 DEF OnJobInfo, RowsInv, PageInv, Own
  <2>3. CASE ~m.retry
    <3>1. /\ info' = [w \in DOMAIN info \cup {m.key} |-> IF w = m.key THEN m.info ELSE info[w]]
          /\ rows' = JobRows(list, info')
      BY <1>5, <2>3 DEF OnJobInfo
    <3>2. \A w \in DOMAIN info' : Own(w, info'[w].of)
      BY <3>1 DEF RowsInv, PageInv
    <3>3. \A r \in rows' : Own(r.worker, r.info.of)
      BY <3>1, <3>2, RowsAreOwn DEF RowsInv, PageInv
    <3> QED  BY <1>1, <1>2, <1>3, <2>1, <3>2, <3>3 DEF RowsInv, PageInv
  <2> QED  BY <2>2, <2>3
<1> QED  BY <1>4, <1>5

(* As long as a job runs its row shows nothing that was read from the log  *)
(* of another job, for whatever the workers write and whenever the         *)
(* detections and the answers come, on a runner that takes one job at a    *)
(* time.                                                                   *)
THEOREM RowsShowTheirJob ==
  ASSUME JobsTabAssumption, MaxAtOnce = 1
  PROVE  JobsSpec => []RowShowsItsJob
<1>1. JobsInit => RowsInv
  BY DEF JobsInit, RowsInv, HostInv, PageInv
<1>2. RowsInv /\ [JobsNext]_jobsVars => RowsInv'
  <2> SUFFICES ASSUME RowsInv, [JobsNext]_jobsVars PROVE RowsInv'
    OBVIOUS
  <2>1. CASE UNCHANGED jobsVars
    BY <2>1 DEF jobsVars, logVars, infoVars, RowsInv, HostInv, PageInv, Own
  <2> QED  BY <2>1, StartsAlone, RunsLast, ParsesItsOwn, PageKeeps DEF JobsNext
<1>3. RowsInv => RowShowsItsJob
  BY DEF RowsInv, PageInv, Own, RowShowsItsJob, Running
<1> QED  BY <1>1, <1>2, <1>3, PTL DEF JobsSpec

-----------------------------------------------------------------------------
(* The service operations (RunnerOp). *)


WaitFields == {"seq", "index", "id", "stage", "live", "after"}
RunFields  == {"id", "op", "targets", "at", "phase", "ok", "failed", "since", "approved"}
DrainFields == {"seq", "targets", "index", "ok", "failed"}

(* Jobs are numbered in the order they begin.                              *)
Numbered ==
  /\ jobs \in Nat
  /\ worker \in [Runners -> Nat]
  /\ \A r \in Runners : worker[r] <= jobs

(* What runner r works on, if anything, began after job n.                 *)
BeganAfter(r, n) == worker[r] = 0 \/ worker[r] > n

RequestsSpare ==
  /\ DOMAIN request = Runners
  /\ \A r \in Runners :
       /\ request[r].after \in Nat /\ request[r].after <= jobs
       /\ request[r].by = "drain" => BeganAfter(r, request[r].after)

WaitSpares(w) ==
  /\ DOMAIN w = WaitFields
  /\ w.after \in Nat /\ w.after <= jobs
  /\ w.stage = "stop" /\ w.id \in Runners => BeganAfter(w.id, w.after)

WaitsSpare == \A w \in waits : WaitSpares(w)

Spared == Numbered /\ RequestsSpare /\ WaitsSpare /\ DrainSparesJobs

Modal == {"detail", "confirm", "drain"}

Asks == {"chosen", "decided", "cancel"}

OneAnswer == \A m, n \in msgs : m.type \in Asks /\ n.type \in Asks => m = n

DrainOnTop ==
  /\ stack \in Seq(Modal)
  /\ drain.seq # 0 => Top = "drain" /\ \A m \in msgs : m.type \notin {"chosen", "decided"}

DrainCounts ==
  /\ seq \in Nat /\ DOMAIN drain = DrainFields
  /\ drain.seq \in Nat /\ drain.seq <= seq /\ drain.index \in Nat

WaitIsDrains(w) ==
  /\ DOMAIN w = WaitFields
  /\ w.seq \in Nat \ {0} /\ w.seq <= seq /\ w.index \in Nat /\ w.live \in BOOLEAN
  /\ IF w.live THEN w.seq = drain.seq /\ w.index = drain.index ELSE w.seq # drain.seq

OneLive == \A v, w \in waits : v.live /\ w.live => v = w

StepIsOver(m) ==
  m.type = "step" =>
    /\ m.seq \in Nat \ {0} /\ m.seq <= seq /\ m.index \in Nat
    /\ m.seq = drain.seq => m.index <= drain.index
    /\ m.seq = drain.seq /\ m.index = drain.index => \A w \in waits : ~w.live

Screen ==
  /\ OneAnswer /\ DrainOnTop /\ DrainCounts
  /\ \A w \in waits : WaitIsDrains(w)
  /\ OneLive
  /\ \A m \in msgs : StepIsOver(m)

AnsweredAfter(m) ==
  m.type = "decided" => m.key \in Nat /\ m.key > pending.since /\ m.key <= keys

Approved ==
  /\ keys \in Nat /\ pending.since \in Nat /\ pending.since <= keys
  /\ \A m \in msgs : AnsweredAfter(m)
  /\ \A r \in runs : DOMAIN r = RunFields
  /\ ApprovedOnly

-----------------------------------------------------------------------------
(* The screen adds only waits that have not looked yet, and a cancelled    *)
(* wait knows what it knew.                                                *)
LEMMA NewWaitsSpare ==
  ASSUME Spared, UNCHANGED hostVars, NEW d, waits' \subseteq waits \cup {Wait(d)}
  PROVE  Spared'
<1>1. WaitSpares(Wait(d))
  BY DEF WaitSpares, Wait, WaitFields, Spared, Numbered
<1>2. ASSUME NEW w \in waits' PROVE WaitSpares(w)'
  BY <1>1, <1>2 DEF Spared, WaitsSpare, WaitSpares, BeganAfter, hostVars
<1>3. QED
  BY <1>2 DEF Spared, Numbered, RequestsSpare, WaitsSpare, DrainSparesJobs, BeganAfter,
              hostVars

LEMMA StartSpares ==
  ASSUME Spared, UNCHANGED hostVars, NEW op, NEW targets, NEW key, Start(op, targets, key)
  PROVE  Spared'
<1> DEFINE allowed == SelectSeq(targets, LAMBDA t : Allowed(op, t))
           d == [seq |-> seq + 1, targets |-> allowed, index |-> 1, ok |-> 0, failed |-> 0]
<1>1. waits' \subseteq waits \cup {Wait(d)}
  BY DEF Start, StartDrain, OpenDrain
<1>2. QED
  BY <1>1, NewWaitsSpare

LEMMA KeysSpare ==
  ASSUME Spared, Keys
  PROVE  Spared'
<1>1. ASSUME UNCHANGED hostVars, UNCHANGED waits PROVE Spared'
  BY <1>1, NewWaitsSpare
<1>2. ASSUME NEW op \in Ops, NEW sel \in Selections, ListKey(op, sel) PROVE Spared'
  BY <1>2, StartSpares DEF ListKey, HostUnchanged
<1>3. ASSUME NEW op \in Ops, ChooseKey(op) PROVE Spared'
  BY <1>1, <1>3 DEF ChooseKey, Answer, HostUnchanged
<1>4. ASSUME NEW r \in Runners, OpenDetail(r) PROVE Spared'
  BY <1>1, <1>4 DEF OpenDetail, HostUnchanged
<1>5. ASSUME NEW yes \in BOOLEAN, DecideKey(yes) PROVE Spared'
  BY <1>1, <1>5 DEF DecideKey, Answer, HostUnchanged
<1>6. CASE CancelKey
  BY <1>1, <1>6 DEF CancelKey, Answer, HostUnchanged
<1>7. CASE BackKey
  BY <1>1, <1>7 DEF BackKey, HostUnchanged
<1>8. QED
  BY <1>2, <1>3, <1>4, <1>5, <1>6, <1>7 DEF Keys

LEMMA ArrivalsSpare ==
  ASSUME Spared, Arrivals
  PROVE  Spared'
<1>1. ASSUME UNCHANGED hostVars, UNCHANGED waits PROVE Spared'
  BY <1>1, NewWaitsSpare
<1>2. PICK m \in msgs :
        OnChosen(m) \/ OnDecided(m) \/ OnCancel(m) \/ OnStep(m) \/ OnDone(m)
  BY DEF Arrivals
<1>3. CASE OnChosen(m)
  BY <1>3, StartSpares DEF OnChosen
<1>4. CASE OnDecided(m)
  BY <1>1, <1>4 DEF OnDecided
<1>5. CASE OnDone(m)
  BY <1>1, <1>5 DEF OnDone
<1>6. CASE OnStep(m)
  BY <1>1, <1>6, NewWaitsSpare DEF OnStep, OpenDrain
<1>7. CASE OnCancel(m)
  <2>1. UNCHANGED hostVars /\ waits' \in {waits, Cancelled}
    BY <1>7 DEF OnCancel
  <2>2. ASSUME NEW v \in Cancelled PROVE WaitSpares(v)
    <3>1. PICK w \in waits : v = [w EXCEPT !.live =
                  @ /\ ~(w.seq = drain.seq /\ w.index = drain.index)]
      BY <2>2 DEF Cancelled
    <3>2. DOMAIN v = DOMAIN w /\ v.id = w.id /\ v.stage = w.stage /\ v.after = w.after
      BY <3>1 DEF Spared, WaitsSpare, WaitSpares, WaitFields
    <3>3. QED
      BY <3>2 DEF Spared, WaitsSpare, WaitSpares
  <2>3. \A w \in waits' : WaitSpares(w)
    BY <2>1, <2>2 DEF Spared, WaitsSpare
  <2>4. QED
    BY <2>1, <2>3 DEF Spared, Numbered, RequestsSpare, WaitsSpare, WaitSpares,
                      DrainSparesJobs, BeganAfter, hostVars
<1>8. QED
  BY <1>2, <1>3, <1>4, <1>5, <1>6, <1>7

(* A goroutine of a drain stops a runner only for what it saw, which is    *)
(* that there was no job; what has begun since has a higher number.        *)
LEMMA WaitsSpareStep ==
  ASSUME Spared, Waits
  PROVE  Spared'
<1>1. PICK w \in waits : DrainScan(w) \/ DrainInterval(w) \/ DrainStop(w) \/ DrainReturn(w)
  BY DEF Waits
<1>2. WaitSpares(w) /\ Numbered
  BY DEF Spared, WaitsSpare
<1>3. ASSUME UNCHANGED hostVars, NEW v, WaitSpares(v), waits' \subseteq waits \cup {v}
      PROVE  Spared'
  BY <1>3 DEF Spared, Numbered, RequestsSpare, WaitsSpare, WaitSpares, DrainSparesJobs,
              BeganAfter, hostVars
<1>4. CASE DrainScan(w)
  <2> DEFINE v == [w EXCEPT !.stage = IF NoWorker(w) THEN "stop" ELSE "wait", !.after = jobs]
  <2>1. WaitSpares(v)
    BY <1>2 DEF WaitSpares, WaitFields, Numbered, BeganAfter, NoWorker
  <2>2. UNCHANGED hostVars /\ waits' \subseteq waits \cup {v}
    BY <1>4 DEF DrainScan, WaitEnds, WaitGoesOn
  <2>3. QED
    BY <1>3, <2>1, <2>2
<1>5. CASE DrainInterval(w)
  <2> DEFINE v == [w EXCEPT !.stage = "scan"]
  <2>1. WaitSpares(v)
    BY <1>2 DEF WaitSpares, WaitFields
  <2>2. UNCHANGED hostVars /\ waits' \subseteq waits \cup {v}
    BY <1>5 DEF DrainInterval, WaitEnds, WaitGoesOn
  <2>3. QED
    BY <1>3, <2>1, <2>2
<1>6. CASE DrainStop(w)
  <2> DEFINE v == [w EXCEPT !.stage = "stopping"]
  <2>1. WaitSpares(v)
    BY <1>2 DEF WaitSpares, WaitFields
  <2>2. CASE UNCHANGED hostVars /\ waits' \subseteq waits \cup {v}
    BY <1>3, <2>1, <2>2
  <2>3. CASE w.stage = "stop" /\ Submit(w.id, "stop", "drain", w.after)
             /\ waits' \subseteq waits \cup {v}
    <3>1. /\ request' = [request EXCEPT ![w.id] =
                           [verb |-> "stop", by |-> "drain", after |-> w.after]]
          /\ UNCHANGED <<up, worker, jobs, lost>>
      BY <2>3 DEF Submit
    <3>2. RequestsSpare'
      BY <1>2, <2>3, <3>1 DEF Spared, RequestsSpare, WaitSpares, BeganAfter
    <3>3. \A u \in waits' : WaitSpares(u)'
      BY <2>1, <2>3, <3>1 DEF Spared, WaitsSpare, WaitSpares, BeganAfter
    <3>4. QED
      BY <3>1, <3>2, <3>3 DEF Spared, Numbered, WaitsSpare, DrainSparesJobs
  <2>4. QED
    BY <1>6, <2>2, <2>3 DEF DrainStop, WaitEnds, WaitGoesOn
<1>7. CASE DrainReturn(w)
  <2>1. UNCHANGED hostVars /\ waits' \subseteq waits \cup {w}
    BY <1>7 DEF DrainReturn, WaitEnds
  <2>2. QED
    BY <1>2, <1>3, <2>1
<1>8. QED
  BY <1>1, <1>4, <1>5, <1>6, <1>7

(* What the user asked for ends jobs in his name, and replaces what a      *)
(* drain has asked for.                                                    *)
LEMMA UserSubmitSpares ==
  ASSUME Spared, NEW r, NEW verb, Submit(r, verb, "user", jobs), UNCHANGED waits
  PROVE  Spared'
<1>1. /\ request' = [request EXCEPT ![r] = [verb |-> verb, by |-> "user", after |-> jobs]]
      /\ UNCHANGED <<up, worker, jobs, lost>>
  BY DEF Submit
<1>2. RequestsSpare'
  BY <1>1 DEF Spared, Numbered, RequestsSpare, BeganAfter
<1>3. QED
  BY <1>1, <1>2 DEF Spared, Numbered, WaitsSpare, WaitSpares, DrainSparesJobs, BeganAfter

(* A runner without a job satisfies everybody who waits for that.          *)
LEMMA StoppedSpares ==
  ASSUME Spared, NEW r, worker' = [worker EXCEPT ![r] = 0], UNCHANGED <<jobs, waits>>,
         request' = request \/ request' = [request EXCEPT ![r] = NoRequest],
         \A l \in lost' : l \in lost \/ (l.by = "drain" => l.job > l.after)
  PROVE  Spared'
<1>1. Numbered'
  <2>1. worker \in [Runners -> Nat] /\ jobs \in Nat /\ \A x \in Runners : worker[x] <= jobs
    BY DEF Spared, Numbered
  <2>2. \A x \in Runners : worker'[x] \in {0, worker[x]}
    BY <2>1
  <2>3. worker' \in [Runners -> Nat]
    BY <2>1
  <2>4. \A x \in Runners : worker'[x] <= jobs
    BY <2>1, <2>2
  <2>5. QED
    BY <2>1, <2>3, <2>4 DEF Numbered
<1>2. \A x \in Runners : \A n : BeganAfter(x, n) => BeganAfter(x, n)'
  BY DEF Spared, Numbered, BeganAfter
<1>3. RequestsSpare'
  BY <1>2 DEF Spared, Numbered, RequestsSpare, NoRequest
<1>4. WaitsSpare'
  BY <1>2 DEF Spared, WaitsSpare, WaitSpares
<1>5. QED
  BY <1>1, <1>3, <1>4 DEF Spared, DrainSparesJobs

LEMMA RunsSpare ==
  ASSUME Spared, Runs
  PROVE  Spared'
<1>1. PICK r \in runs : Issue(r) \/ KillStop(r) \/ Return(r)
  BY DEF Runs
<1>2. UNCHANGED waits
  BY <1>1 DEF Issue, Toggle, Kill, KillStop, Return, NextTarget, RunGoesOn
<1>3. ASSUME UNCHANGED hostVars PROVE Spared'
  BY <1>2, <1>3, NewWaitsSpare
<1>4. ASSUME NEW x, NEW job, KillProcesses(x, job) PROVE Spared'
  <2>1. CASE worker[x] = job
    <3>1. /\ worker' = [worker EXCEPT ![x] = 0] /\ UNCHANGED <<jobs, request>>
          /\ lost' = lost \cup Interrupted(x, "user", jobs)
      BY <1>4, <2>1 DEF KillProcesses
    <3>2. \A l \in Interrupted(x, "user", jobs) : l.by = "user"
      BY DEF Interrupted
    <3>3. QED
      BY <1>2, <3>1, <3>2, StoppedSpares
  <2>2. CASE worker[x] # job
    <3>1. UNCHANGED <<worker, lost, jobs, request>>
      BY <1>4, <2>2 DEF KillProcesses
    <3>2. QED
      BY <1>2, <3>1 DEF Spared, Numbered, RequestsSpare, WaitsSpare, WaitSpares,
                        DrainSparesJobs, BeganAfter
  <2>3. QED
    BY <2>1, <2>2
<1>5. CASE Issue(r)
  <2> DEFINE t == r.targets[r.at]
  <2>1. CASE UNCHANGED hostVars
    BY <1>3, <2>1
  <2>2. CASE KillProcesses(t.id, t.job)
    BY <1>4, <2>2
  <2>3. CASE Submit(t.id, r.op, "user", jobs)
    BY <1>2, <2>3, UserSubmitSpares
  <2>4. UNCHANGED hostVars \/ KillProcesses(t.id, t.job) \/ Submit(t.id, r.op, "user", jobs)
    BY <1>5 DEF Issue, Toggle, Kill
  <2>5. QED
    BY <2>1, <2>2, <2>3, <2>4
<1>6. CASE KillStop(r)
  BY <1>2, <1>6, UserSubmitSpares DEF KillStop
<1>7. CASE Return(r)
  BY <1>3, <1>7 DEF Return
<1>8. QED
  BY <1>1, <1>5, <1>6, <1>7

(* systemd carries out a stop late; jobs begin and end meanwhile.          *)
LEMMA HostSpares ==
  ASSUME Spared, HostStep
  PROVE  Spared'
<1>1. PICK r \in Runners : Perform(r) \/ JobBegins(r) \/ JobEnds(r)
  BY DEF HostStep, Environment
<1>2. UNCHANGED waits
  BY DEF HostStep
<1>3. CASE JobEnds(r)
  BY <1>2, <1>3, StoppedSpares DEF JobEnds, Spared, DrainSparesJobs
<1>4. CASE JobBegins(r)
  <2>1. /\ worker[r] = 0 /\ jobs' = jobs + 1
        /\ worker' = [worker EXCEPT ![r] = jobs + 1] /\ UNCHANGED <<lost, request>>
    BY <1>4 DEF JobBegins
  <2>2. Numbered'
    BY <2>1 DEF Spared, Numbered
  <2>3. \A x \in Runners, n \in Nat : n <= jobs /\ BeganAfter(x, n) => BeganAfter(x, n)'
    BY <2>1 DEF Spared, Numbered, BeganAfter
  <2>4. RequestsSpare'
    BY <2>1, <2>3 DEF Spared, Numbered, RequestsSpare
  <2>5. WaitsSpare'
    BY <1>2, <2>1, <2>3 DEF Spared, Numbered, WaitsSpare, WaitSpares
  <2>6. QED
    BY <2>1, <2>2, <2>4, <2>5 DEF Spared, DrainSparesJobs
<1>5. CASE Perform(r)
  <2> DEFINE q == request[r]
  <2>1. request' = [request EXCEPT ![r] = NoRequest] /\ UNCHANGED jobs
    BY <1>5 DEF Perform
  <2>2. CASE q.verb \in {"stop", "restart"}
    <3>1. /\ worker' = [worker EXCEPT ![r] = 0]
          /\ lost' = lost \cup Interrupted(r, q.by, q.after)
      BY <1>5, <2>2 DEF Perform
    <3>2. \A l \in Interrupted(r, q.by, q.after) : l.by = "drain" => l.job > l.after
      BY DEF Interrupted, Spared, RequestsSpare, BeganAfter
    <3>3. QED
      BY <1>2, <2>1, <3>1, <3>2, StoppedSpares
  <2>3. CASE q.verb \notin {"stop", "restart"}
    <3>1. UNCHANGED <<worker, lost>>
      BY <1>5, <2>3 DEF Perform
    <3>2. RequestsSpare'
      BY <2>1, <3>1 DEF Spared, Numbered, RequestsSpare, BeganAfter, NoRequest
    <3>3. QED
      BY <1>2, <2>1, <3>1, <3>2 DEF Spared, Numbered, WaitsSpare, WaitSpares,
                                    DrainSparesJobs, BeganAfter
  <2>4. QED
    BY <2>2, <2>3
<1>6. QED
  BY <1>1, <1>3, <1>4, <1>5

LEMMA InitSpares ==
  ASSUME Init
  PROVE  Spared
BY DEF Init, HostInit, Spared, Numbered, RequestsSpare, WaitsSpare, DrainSparesJobs,
       NoRequest, BeganAfter

LEMMA StepSpares ==
  ASSUME Spared, [Next]_vars
  PROVE  Spared'
<1>1. CASE Detect
  BY <1>1, NewWaitsSpare DEF Detect
<1>2. CASE UNCHANGED vars
  BY <1>2, NewWaitsSpare DEF vars
<1>3. QED
  BY <1>1, <1>2, KeysSpare, ArrivalsSpare, WaitsSpareStep, RunsSpare, HostSpares DEF Next

(* A drain never interrupts a job it could see: however late systemd       *)
(* carries out its stop, and though the request outlives the command that  *)
(* made it, the job that ends began after its last look.                   *)
THEOREM DrainsSpareJobs == Spec => []DrainSparesJobs
<1>1. Init => Spared
  BY InitSpares
<1>2. Spared /\ [Next]_vars => Spared'
  BY StepSpares
<1>3. Spared => DrainSparesJobs
  BY DEF Spared
<1>4. QED
  BY <1>1, <1>2, <1>3, PTL DEF Spec

-----------------------------------------------------------------------------
(* The stack of modals: what is pushed is on top.                          *)
LEMMA PushedIsOnTop ==
  ASSUME NEW K, NEW s \in Seq(K), NEW kind \in K
  PROVE  /\ Pushed(s, kind) \in Seq(K)
         /\ TopOf(Pushed(s, kind)) = kind
<1> DEFINE at == {i \in DOMAIN s : s[i] = kind}
           i  == CHOOSE i \in at : TRUE
           kept == SubSeq(s, 1, i - 1) \o SubSeq(s, i + 1, Len(s))
<1>1. ASSUME NEW k \in Seq(K)
      PROVE  Append(k, kind) \in Seq(K) /\ TopOf(Append(k, kind)) = kind
  <2>1. PICK x : x = Append(k, kind)
    OBVIOUS
  <2>2. x \in Seq(K) /\ x # <<>> /\ Len(x) = Len(k) + 1 /\ x[Len(k) + 1] = kind
    BY <2>1, AppendProperties
  <2>3. TopOf(x) = kind
    BY <2>2 DEF TopOf
  <2> QED  BY <2>1, <2>2, <2>3
<1>2. CASE at = {}
  BY <1>1, <1>2 DEF Pushed
<1>3. CASE at # {}
  <2>1. i \in at
    BY <1>3
  <2> HIDE DEF i
  <2>2. kept \in Seq(K)
    BY <2>1
  <2> HIDE DEF kept
  <2>3. Pushed(s, kind) = Append(kept, kind)
    BY <1>3 DEF Pushed, kept, i
  <2>4. QED
    BY <1>1, <2>2, <2>3
<1>4. QED
  BY <1>2, <1>3

LEMMA ClosedIsStack ==
  ASSUME NEW K, NEW s \in Seq(K)
  PROVE  Closed(s) \in Seq(K)
<1>1. CASE s = <<>>
  BY <1>1 DEF Closed
<1>2. CASE s # <<>>
  BY <1>2 DEF Closed
<1>3. QED
  BY <1>1, <1>2

-----------------------------------------------------------------------------
(* Without a drain no wait is live.                                        *)
LEMMA NoDrainNoWait ==
  ASSUME Screen, drain.seq = 0, NEW w \in waits
  PROVE  ~w.live
BY DEF Screen, WaitIsDrains

(* Nothing that concerns a drain happens.                                  *)
LEMMA OtherwiseScreen ==
  ASSUME Screen, drain' = drain, waits' = waits, seq' = seq,
         stack' = stack \/ (drain.seq = 0 /\ stack' \in Seq(Modal)),
         \A m \in msgs' : m \in msgs \/ m.type \notin Asks \cup {"step"}
  PROVE  Screen'
<1>1. OneAnswer' /\ OneLive' /\ DrainCounts'
  BY DEF Screen, OneAnswer, OneLive, DrainCounts
<1>2. DrainOnTop'
  BY DEF Screen, DrainOnTop, Top, Asks
<1>3. \A w \in waits' : WaitIsDrains(w)'
  BY DEF Screen, WaitIsDrains
<1>4. \A m \in msgs' : StepIsOver(m)'
  BY DEF Screen, StepIsOver
<1>5. QED
  BY <1>1, <1>2, <1>3, <1>4 DEF Screen

(* An operation starts: without a drain, and with no answer on its way.    *)
LEMMA StartScreen ==
  ASSUME Screen, drain.seq = 0, msgs' \subseteq msgs, \A m \in msgs' : m.type \notin Asks,
         NEW op, NEW targets, NEW key, Start(op, targets, key)
  PROVE  Screen'
<1> DEFINE allowed == SelectSeq(targets, LAMBDA t : Allowed(op, t))
           d == [seq |-> seq + 1, targets |-> allowed, index |-> 1, ok |-> 0, failed |-> 0]
<1> HIDE DEF allowed, d
<1>0. stack \in Seq(Modal) /\ \A kind \in Modal : Pushed(stack, kind) \in Seq(Modal)
  BY PushedIsOnTop DEF Screen, DrainOnTop, Modal
<1>1. CASE UNCHANGED <<stack, drain, seq, waits>>
  <2>1. drain' = drain /\ waits' = waits /\ seq' = seq /\ stack' = stack
    BY <1>1
  <2>2. \A m \in msgs' : m \in msgs \/ m.type \notin Asks \cup {"step"}
    OBVIOUS
  <2>3. QED
    BY <2>1, <2>2, OtherwiseScreen
<1>2. CASE stack' = Pushed(stack, "confirm") /\ UNCHANGED <<drain, seq, waits>>
  <2>1. drain' = drain /\ waits' = waits /\ seq' = seq /\ stack' \in Seq(Modal)
    BY <1>0, <1>2 DEF Modal
  <2>2. \A m \in msgs' : m \in msgs \/ m.type \notin Asks \cup {"step"}
    OBVIOUS
  <2>3. QED
    BY <2>1, <2>2, OtherwiseScreen
<1>3. CASE StartDrain(allowed)
  <2>1. /\ seq' = seq + 1 /\ drain' = d /\ stack' = Pushed(stack, "drain")
        /\ waits' = waits \cup {Wait(d)}
    BY <1>3 DEF StartDrain, OpenDrain, d
  <2>2. DrainCounts' /\ drain'.seq = seq + 1 /\ drain'.index = 1
    BY <2>1 DEF Screen, DrainCounts, DrainFields, d
  <2>3. Wait(d).seq = seq + 1 /\ Wait(d).index = 1 /\ Wait(d).live = TRUE
        /\ DOMAIN Wait(d) = WaitFields
    BY DEF Wait, WaitFields, d
  <2>4. \A w \in waits : ~w.live /\ w.seq <= seq /\ WaitIsDrains(w)
    BY NoDrainNoWait DEF Screen, WaitIsDrains
  <2>5. ASSUME NEW w \in waits' PROVE WaitIsDrains(w)'
    <3>1. CASE w \in waits
      BY <2>1, <2>2, <2>4, <3>1 DEF Screen, DrainCounts, WaitIsDrains
    <3>2. CASE w = Wait(d)
      <4>1. w.seq = seq' /\ w.index = 1 /\ w.live = TRUE /\ DOMAIN w = WaitFields
        BY <2>1, <2>3, <3>2
      <4>2. seq \in Nat /\ seq' \in Nat \ {0}
        BY <2>1 DEF Screen, DrainCounts
      <4>3. w.live \in BOOLEAN /\ w.live
        BY <4>1
      <4>4. w.seq = drain'.seq /\ w.index = drain'.index /\ w.seq <= seq'
        BY <2>1, <2>2, <4>1, <4>2
      <4>5. QED
        BY <4>1, <4>2, <4>3, <4>4 DEF WaitIsDrains
    <3>3. QED
      BY <2>1, <3>1, <3>2
  <2>6. OneLive'
    BY <2>1, <2>4 DEF OneLive
  <2>7. \A m \in msgs' : StepIsOver(m)'
    BY <2>1, <2>2 DEF Screen, DrainCounts, StepIsOver
  <2>8. DrainOnTop' /\ OneAnswer'
    <3>1. stack' \in Seq(Modal) /\ Top' = "drain"
      BY <2>1, <1>0, PushedIsOnTop DEF Top, Modal
    <3>2. QED
      BY <3>1 DEF DrainOnTop, OneAnswer, Asks
  <2>9. QED
    BY <2>2, <2>5, <2>6, <2>7, <2>8 DEF Screen
<1>4. QED
  BY <1>1, <1>2, <1>3 DEF Start, allowed

-----------------------------------------------------------------------------
(* A key is pressed: no answer is on its way, and while there is a drain   *)
(* only its cancellation can be asked for.                                 *)
LEMMA KeysScreen ==
  ASSUME Screen, FastTyping = FALSE, Keys
  PROVE  Screen'
<1>1. \A m \in msgs : m.type \notin Asks
  BY DEF Keys, ListKey, OpenDetail, ChooseKey, DecideKey, CancelKey, Answer, BackKey, Press,
         Asks
<1>2. stack = <<>> \/ Top \in {"detail", "confirm"} => drain.seq = 0
  BY DEF Screen, DrainOnTop, Top, TopOf
<1>3. stack \in Seq(Modal)
  BY DEF Screen, DrainOnTop
<1>4. ASSUME NEW op \in Ops, NEW sel \in Selections, ListKey(op, sel) PROVE Screen'
  <2>1. drain.seq = 0 /\ msgs' = msgs
    BY <1>2, <1>4 DEF ListKey
  <2>2. QED
    BY <1>1, <1>4, <2>1, StartScreen DEF ListKey
<1>5. ASSUME NEW r \in Runners, OpenDetail(r) PROVE Screen'
  <2>1. /\ drain.seq = 0 /\ msgs' = msgs /\ drain' = drain /\ waits' = waits /\ seq' = seq
        /\ stack' = Pushed(stack, "detail")
    BY <1>2, <1>5 DEF OpenDetail
  <2>2. stack' \in Seq(Modal)
    BY <1>3, <2>1, PushedIsOnTop DEF Modal
  <2>3. QED
    BY <2>1, <2>2, OtherwiseScreen
<1>6. CASE BackKey
  <2>1. /\ drain.seq = 0 /\ msgs' = msgs /\ drain' = drain /\ waits' = waits /\ seq' = seq
        /\ stack' = Closed(stack)
    BY <1>2, <1>6 DEF BackKey
  <2>2. stack' \in Seq(Modal)
    BY <1>3, <2>1, ClosedIsStack
  <2>3. QED
    BY <2>1, <2>2, OtherwiseScreen
<1>7. ASSUME NEW kind, kind = "drain" \/ drain.seq = 0, NEW m, Answer(kind, m),
             m.type \in Asks, kind = "drain" => m.type = "cancel"
      PROVE  Screen'
  <2>1. /\ msgs' = msgs \cup {m} /\ stack' = stack /\ drain' = drain /\ waits' = waits
        /\ seq' = seq
    BY <1>7 DEF Answer, pageVars
  <2>2. OneAnswer'
    BY <1>1, <2>1 DEF OneAnswer
  <2>3. DrainOnTop'
    BY <1>7, <2>1 DEF Screen, DrainOnTop, Top
  <2>4. \A n \in msgs' : StepIsOver(n)'
    BY <1>7, <2>1 DEF Screen, StepIsOver, Asks
  <2>5. QED
    BY <2>1, <2>2, <2>3, <2>4 DEF Screen, DrainCounts, WaitIsDrains, OneLive
<1>8. ASSUME NEW op \in Ops, ChooseKey(op) PROVE Screen'
  <2> DEFINE m == [type |-> "chosen", key |-> keys + 1, op |-> op, target |-> shown]
  <2>1. Answer("detail", m) /\ m.type = "chosen"
    BY <1>8 DEF ChooseKey
  <2>2. drain.seq = 0
    BY <1>2, <2>1 DEF Answer
  <2> HIDE DEF m
  <2>3. QED
    BY <1>7, <2>1, <2>2 DEF Asks
<1>9. ASSUME NEW yes \in BOOLEAN, DecideKey(yes) PROVE Screen'
  <2> DEFINE m == [type |-> "decided", key |-> keys + 1, yes |-> yes]
  <2>1. Answer("confirm", m) /\ m.type = "decided"
    BY <1>9 DEF DecideKey
  <2>2. drain.seq = 0
    BY <1>2, <2>1 DEF Answer
  <2> HIDE DEF m
  <2>3. QED
    BY <1>7, <2>1, <2>2 DEF Asks
<1>10. CASE CancelKey
  <2> DEFINE m == [type |-> "cancel", key |-> keys + 1]
  <2>1. Answer("drain", m) /\ m.type = "cancel"
    BY <1>10 DEF CancelKey
  <2> HIDE DEF m
  <2>2. QED
    BY <1>7, <2>1 DEF Asks
<1>11. QED
  BY <1>4, <1>5, <1>6, <1>8, <1>9, <1>10 DEF Keys

(* A step of the drain brings its next wait, when the one before has       *)
(* ended; the screen stays on top.                                         *)
LEMMA StepScreen ==
  ASSUME Screen, NEW m \in msgs, OnStep(m)
  PROVE  Screen'
<1> DEFINE d == [drain EXCEPT !.index = @ + 1,
                              !.ok = @ + (IF m.ok THEN 1 ELSE 0),
                              !.failed = @ + (IF m.ok THEN 0 ELSE 1)]
<1>1. m.type = "step" /\ seq' = seq
  BY DEF OnStep
<1>2. CASE ~ExpectedStep(m)
  <2>1. drain' = drain /\ waits' = waits /\ stack' = stack /\ msgs' = msgs \ {m}
    BY <1>2 DEF OnStep
  <2>2. QED
    BY <1>1, <2>1, OtherwiseScreen
<1>3. CASE ExpectedStep(m)
  <2>1. m.seq = drain.seq /\ m.index = drain.index
    BY <1>3 DEF ExpectedStep
  <2>2. drain.seq # 0 /\ \A w \in waits : ~w.live
    BY <1>1, <2>1 DEF Screen, StepIsOver
  <2>3. /\ DOMAIN d = DrainFields /\ d.seq = drain.seq /\ d.index = drain.index + 1
    BY DEF Screen, DrainCounts, DrainFields
  <2>4. \A w \in waits : WaitIsDrains(w) /\ w.seq # drain.seq /\ ~w.live
    BY <2>2 DEF Screen, WaitIsDrains
  <2>5. stack \in Seq(Modal)
    BY DEF Screen, DrainOnTop
  <2>6. CASE d.index <= Len(d.targets)
    <3>1. /\ drain' = d /\ stack' = Pushed(stack, "drain") /\ waits' = waits \cup {Wait(d)}
          /\ msgs' = msgs \ {m}
      BY <1>3, <2>6 DEF OnStep, OpenDrain
    <3>2. DOMAIN Wait(d) = WaitFields /\ Wait(d).seq = d.seq /\ Wait(d).index = d.index
          /\ Wait(d).live = TRUE
      BY DEF Wait, WaitFields
    <3> HIDE DEF d
    <3>3. DrainCounts'
      BY <1>1, <2>3, <3>1 DEF Screen, DrainCounts
    <3>4. stack' \in Seq(Modal) /\ Top' = "drain"
      BY <2>5, <3>1, PushedIsOnTop DEF Top, Modal
    <3>5. DrainOnTop' /\ OneAnswer'
      BY <2>2, <3>1, <3>4 DEF Screen, DrainOnTop, OneAnswer
    <3>6. ASSUME NEW w \in waits' PROVE WaitIsDrains(w)'
      <4>1. CASE w \in waits
        BY <1>1, <2>3, <2>4, <3>1, <4>1 DEF WaitIsDrains
      <4>2. CASE w = Wait(d)
        <5>1. w.live \in BOOLEAN /\ w.live
          BY <3>2, <4>2
        <5>2. w.seq = drain'.seq /\ w.index = drain'.index /\ DOMAIN w = WaitFields
          BY <3>1, <3>2, <4>2
        <5>3. w.seq \in Nat \ {0} /\ w.seq <= seq' /\ w.index \in Nat
          BY <1>1, <2>2, <2>3, <3>1, <5>2 DEF Screen, DrainCounts
        <5>4. QED
          BY <5>1, <5>2, <5>3 DEF WaitIsDrains
      <4>3. QED
        BY <3>1, <4>1, <4>2
    <3>7. OneLive'
      BY <2>4, <3>1 DEF OneLive
    <3>8. ASSUME NEW n \in msgs' PROVE StepIsOver(n)'
      <4>1. n \in msgs /\ drain.index \in Nat /\ drain'.index = drain.index + 1
            /\ drain'.seq = drain.seq
        BY <2>3, <3>1 DEF Screen, DrainCounts
      <4>2. n.type = "step" /\ n.seq = drain.seq => n.index < drain'.index
        BY <4>1 DEF Screen, StepIsOver
      <4>3. QED
        BY <1>1, <4>1, <4>2 DEF Screen, StepIsOver
    <3>9. QED
      BY <3>3, <3>5, <3>6, <3>7, <3>8 DEF Screen
  <2>7. CASE ~(d.index <= Len(d.targets))
    <3>1. /\ drain' = NoDrain /\ stack' = Closed(stack) /\ waits' = waits
          /\ msgs' = (msgs \ {m}) \cup {DrainDone(d)}
      BY <1>3, <2>7 DEF OnStep, FinishDrain
    <3>2. DrainDone(d).type = "done"
      BY DEF DrainDone, Done
    <3> HIDE DEF d
    <3>3. DrainCounts' /\ drain'.seq = 0
      BY <1>1, <3>1 DEF Screen, DrainCounts, NoDrain, DrainFields
    <3>4. DrainOnTop' /\ OneAnswer'
      BY <2>5, <3>1, <3>2, <3>3, ClosedIsStack DEF Screen, DrainOnTop, OneAnswer, Asks
    <3>5. \A w \in waits' : WaitIsDrains(w)'
      BY <1>1, <2>4, <3>1, <3>3 DEF WaitIsDrains
    <3>6. OneLive'
      BY <2>4, <3>1 DEF OneLive
    <3>7. \A n \in msgs' : StepIsOver(n)'
      BY <1>1, <3>1, <3>2, <3>3 DEF Screen, StepIsOver
    <3>8. QED
      BY <3>3, <3>4, <3>5, <3>6, <3>7 DEF Screen
  <2>8. QED
    BY <2>6, <2>7
<1>4. QED
  BY <1>2, <1>3

(* The cancellation ends the wait in progress, and there is no other.      *)
LEMMA CancelScreen ==
  ASSUME Screen, NEW m \in msgs, OnCancel(m)
  PROVE  Screen'
<1>1. seq' = seq
  BY DEF OnCancel
<1>2. CASE drain.seq = 0
  <2>1. drain' = drain /\ waits' = waits /\ stack' = stack /\ msgs' = msgs \ {m}
    BY <1>2 DEF OnCancel
  <2>2. QED
    BY <1>1, <2>1, OtherwiseScreen
<1>3. CASE drain.seq # 0
  <2>1. /\ drain' = NoDrain /\ stack' = Closed(stack) /\ waits' = Cancelled
        /\ msgs' = (msgs \ {m}) \cup {DrainDone(drain)}
    BY <1>3 DEF OnCancel, FinishDrain
  <2>2. DrainDone(drain).type = "done"
    BY DEF DrainDone, Done
  <2>3. DrainCounts' /\ drain'.seq = 0
    BY <1>1, <2>1 DEF Screen, DrainCounts, NoDrain, DrainFields
  <2>4. DrainOnTop' /\ OneAnswer'
    BY <2>1, <2>2, <2>3, ClosedIsStack DEF Screen, DrainOnTop, OneAnswer, Asks
  <2>5. ASSUME NEW v \in waits' PROVE WaitIsDrains(v)' /\ ~v.live
    <3>1. PICK w \in waits : v = [w EXCEPT !.live =
                  @ /\ ~(w.seq = drain.seq /\ w.index = drain.index)]
      BY <2>1 DEF Cancelled
    <3>2. WaitIsDrains(w)
      BY DEF Screen
    <3>3. /\ DOMAIN v = WaitFields /\ v.seq = w.seq /\ v.index = w.index
          /\ v.live = (w.live /\ ~(w.seq = drain.seq /\ w.index = drain.index))
      BY <3>1, <3>2 DEF WaitIsDrains, WaitFields
    <3>4. v.live \in BOOLEAN /\ ~v.live
      BY <3>2, <3>3 DEF WaitIsDrains
    <3>5. v.seq \in Nat \ {0} /\ v.seq <= seq' /\ v.index \in Nat
      BY <1>1, <3>2, <3>3 DEF WaitIsDrains
    <3>6. QED
      BY <2>3, <3>3, <3>4, <3>5 DEF WaitIsDrains
  <2>6. OneLive'
    BY <2>5 DEF OneLive
  <2>7. \A n \in msgs' : StepIsOver(n)'
    BY <1>1, <2>1, <2>2, <2>3 DEF Screen, StepIsOver
  <2>8. QED
    BY <2>3, <2>4, <2>5, <2>6, <2>7 DEF Screen
<1>4. QED
  BY <1>2, <1>3

LEMMA ArrivalsScreen ==
  ASSUME Screen, Arrivals
  PROVE  Screen'
<1>1. PICK m \in msgs :
        OnChosen(m) \/ OnDecided(m) \/ OnCancel(m) \/ OnStep(m) \/ OnDone(m)
  BY DEF Arrivals
<1>2. ASSUME m.type \in {"chosen", "decided"}
      PROVE  drain.seq = 0 /\ \A n \in msgs \ {m} : n.type \notin Asks
  BY <1>2 DEF Screen, DrainOnTop, OneAnswer, Asks
<1>3. CASE OnChosen(m)
  <2>1. msgs' = msgs \ {m} /\ Start(m.op, <<m.target>>, m.key) /\ m.type = "chosen"
    BY <1>3 DEF OnChosen
  <2>2. QED
    BY <1>2, <2>1, StartScreen
<1>4. CASE OnDecided(m)
  <2>1. /\ m.type = "decided" /\ msgs' = msgs \ {m} /\ drain' = drain /\ waits' = waits
        /\ seq' = seq /\ stack' = Closed(stack)
    BY <1>4 DEF OnDecided
  <2>2. stack' \in Seq(Modal)
    BY <2>1, ClosedIsStack DEF Screen, DrainOnTop
  <2>3. QED
    BY <1>2, <2>1, <2>2, OtherwiseScreen
<1>5. CASE OnDone(m)
  <2>1. /\ msgs' = msgs \ {m} /\ drain' = drain /\ waits' = waits /\ seq' = seq
        /\ stack' = stack
    BY <1>5 DEF OnDone
  <2>2. QED
    BY <2>1, OtherwiseScreen
<1>6. QED
  BY <1>1, <1>3, <1>4, <1>5, StepScreen, CancelScreen

(* A wait that ends says so once; it is either the one the drain is at or  *)
(* a cancelled one, whose drain is over.                                   *)
LEMMA WaitsScreen ==
  ASSUME Screen, Waits
  PROVE  Screen'
<1>1. PICK w \in waits : DrainScan(w) \/ DrainInterval(w) \/ DrainStop(w) \/ DrainReturn(w)
  BY DEF Waits
<1>2. WaitIsDrains(w) /\ OneLive /\ OneAnswer /\ DrainOnTop /\ DrainCounts
  BY DEF Screen
<1>3. ASSUME NEW v, DOMAIN v = WaitFields, v.seq = w.seq, v.index = w.index, v.live = w.live,
             w.live, WaitGoesOn(w, v)
      PROVE  Screen'
  <2>1. /\ waits' = (waits \ {w}) \cup {v} /\ msgs' = msgs /\ drain' = drain /\ seq' = seq
        /\ stack' = stack
    BY <1>3 DEF WaitGoesOn, pageVars
  <2>2. \A u \in waits' : WaitIsDrains(u)'
    BY <1>2, <1>3, <2>1 DEF Screen, WaitIsDrains
  <2>3. OneLive'
    BY <1>2, <1>3, <2>1 DEF OneLive
  <2>4. \A n \in msgs' : StepIsOver(n)'
    BY <1>2, <1>3, <2>1 DEF Screen, StepIsOver, WaitIsDrains
  <2>5. QED
    BY <1>2, <2>1, <2>2, <2>3, <2>4 DEF Screen, OneAnswer, DrainOnTop, DrainCounts, Top
<1>4. ASSUME NEW ok, WaitEnds(w, ok) PROVE Screen'
  <2> DEFINE m == [type |-> "step", seq |-> w.seq, index |-> w.index, ok |-> ok]
  <2>1. /\ waits' = waits \ {w} /\ msgs' = msgs \cup {m} /\ drain' = drain /\ seq' = seq
        /\ stack' = stack
    BY <1>4 DEF WaitEnds, pageVars
  <2>2. m.type = "step" /\ m.seq = w.seq /\ m.index = w.index
    OBVIOUS
  <2> HIDE DEF m
  <2>3. OneAnswer' /\ DrainOnTop'
    BY <1>2, <2>1, <2>2 DEF OneAnswer, DrainOnTop, Asks, Top
  <2>4. (\A u \in waits' : WaitIsDrains(u)') /\ OneLive' /\ DrainCounts'
    BY <1>2, <2>1 DEF Screen, WaitIsDrains, OneLive, DrainCounts
  <2>5. w.seq = drain.seq => w.live /\ w.index = drain.index
    BY <1>2 DEF WaitIsDrains
  <2>6. w.seq = drain.seq => \A u \in waits' : ~u.live
    BY <1>2, <2>1, <2>5 DEF OneLive
  <2>7. ASSUME NEW n \in msgs' PROVE StepIsOver(n)'
    <3>1. CASE n \in msgs
      BY <2>1, <3>1 DEF Screen, StepIsOver
    <3>2. CASE n = m
      BY <1>2, <2>1, <2>2, <2>5, <2>6, <3>2 DEF StepIsOver, WaitIsDrains, DrainCounts
    <3>3. QED
      BY <2>1, <3>1, <3>2
  <2>8. QED
    BY <2>3, <2>4, <2>7 DEF Screen
<1>5. CASE DrainScan(w)
  <2> DEFINE v == [w EXCEPT !.stage = IF NoWorker(w) THEN "stop" ELSE "wait", !.after = jobs]
  <2>1. DOMAIN v = WaitFields /\ v.seq = w.seq /\ v.index = w.index /\ v.live = w.live
    BY <1>2 DEF WaitIsDrains, WaitFields
  <2>2. WaitEnds(w, FALSE) \/ (w.live /\ WaitGoesOn(w, v))
    BY <1>5 DEF DrainScan
  <2> HIDE DEF v
  <2>3. QED
    BY <1>3, <1>4, <2>1, <2>2
<1>6. CASE DrainInterval(w)
  <2> DEFINE v == [w EXCEPT !.stage = "scan"]
  <2>1. DOMAIN v = WaitFields /\ v.seq = w.seq /\ v.index = w.index /\ v.live = w.live
    BY <1>2 DEF WaitIsDrains, WaitFields
  <2>2. WaitEnds(w, FALSE) \/ (w.live /\ WaitGoesOn(w, v))
    BY <1>6 DEF DrainInterval
  <2> HIDE DEF v
  <2>3. QED
    BY <1>3, <1>4, <2>1, <2>2
<1>7. CASE DrainStop(w)
  <2> DEFINE v == [w EXCEPT !.stage = "stopping"]
  <2>1. DOMAIN v = WaitFields /\ v.seq = w.seq /\ v.index = w.index /\ v.live = w.live
    BY <1>2 DEF WaitIsDrains, WaitFields
  <2>2. WaitEnds(w, FALSE) \/ (w.live /\ WaitGoesOn(w, v))
    BY <1>7 DEF DrainStop
  <2> HIDE DEF v
  <2>3. QED
    BY <1>3, <1>4, <2>1, <2>2
<1>8. CASE DrainReturn(w)
  BY <1>4, <1>8 DEF DrainReturn
<1>9. QED
  BY <1>1, <1>5, <1>6, <1>7, <1>8

LEMMA RunsScreen ==
  ASSUME Screen, Runs
  PROVE  Screen'
<1>1. PICK r \in runs : Issue(r) \/ KillStop(r) \/ Return(r)
  BY DEF Runs
<1>2. drain' = drain /\ waits' = waits /\ seq' = seq /\ stack' = stack
  BY <1>1 DEF Issue, Toggle, Kill, KillStop, Return, NextTarget, RunGoesOn, pageVars
<1>3. ASSUME NEW q \in runs, NEW ok, NextTarget(q, ok)
      PROVE  \A m \in msgs' : m \in msgs \/ m.type \notin Asks \cup {"step"}
  BY <1>3 DEF NextTarget, RunGoesOn, Done, Asks
<1>4. ASSUME NEW s, RunGoesOn(r, s) PROVE msgs' = msgs
  BY <1>4 DEF RunGoesOn
<1>5. \A m \in msgs' : m \in msgs \/ m.type \notin Asks \cup {"step"}
  BY <1>1, <1>3, <1>4 DEF Issue, Toggle, Kill, KillStop, Return
<1>6. QED
  BY <1>2, <1>5, OtherwiseScreen

LEMMA InitScreen ==
  ASSUME Init
  PROVE  Screen
BY DEF Init, Screen, OneAnswer, DrainOnTop, DrainCounts, OneLive, NoDrain, DrainFields, Top,
       TopOf

LEMMA NextScreen ==
  ASSUME Screen, FastTyping = FALSE, [Next]_vars
  PROVE  Screen'
<1>1. CASE Detect \/ HostStep \/ UNCHANGED vars
  <2>1. drain' = drain /\ waits' = waits /\ seq' = seq /\ stack' = stack /\ msgs' = msgs
    BY <1>1 DEF Detect, HostStep, vars, pageVars
  <2>2. QED
    BY <2>1, OtherwiseScreen
<1>2. QED
  BY <1>1, KeysScreen, ArrivalsScreen, WaitsScreen, RunsScreen DEF Next

(* Every wait that is not cancelled is the one the waiting screen stands   *)
(* for: none is left behind that would stop a runner after the screen has  *)
(* gone, or side by side with the next drain.                              *)
THEOREM NoWaitIsOrphaned ==
  ASSUME FastTyping = FALSE
  PROVE  Spec => []NoOrphanWait
<1>1. Init => Screen
  BY InitScreen
<1>2. Screen /\ [Next]_vars => Screen'
  BY NextScreen
<1>3. Screen => NoOrphanWait
  BY DEF Screen, WaitIsDrains, NoOrphanWait
<1>4. QED
  BY <1>1, <1>2, <1>3, PTL DEF Spec

-----------------------------------------------------------------------------
(* Dialogs and answers.  No answer is newer or older than its dialog.      *)
LEMMA OtherwiseApproved ==
  ASSUME Approved, keys' \in Nat, keys' >= keys, pending' = pending,
         \A m \in msgs' : m \in msgs \/ m.type # "decided",
         \A r \in runs' : \/ r \in runs
                          \/ /\ DOMAIN r = RunFields
                             /\ r.op \in {"stop", "kill", "restart"} => r.approved > r.since
  PROVE  Approved'
<1>1. \A m \in msgs' : AnsweredAfter(m)'
  BY DEF Approved, AnsweredAfter
<1>2. ApprovedOnly' /\ \A r \in runs' : DOMAIN r = RunFields
  BY DEF Approved, ApprovedOnly
<1>3. QED
  BY <1>1, <1>2 DEF Approved

(* An operation that has to be approved only opens its dialog.             *)
LEMMA StartApproved ==
  ASSUME Approved, keys' \in Nat, keys' >= keys, msgs' \subseteq msgs,
         \A m \in msgs' : m.type \notin Asks,
         NEW op, NEW targets, NEW key, Start(op, targets, key)
  PROVE  Approved'
<1> DEFINE allowed == SelectSeq(targets, LAMBDA t : Allowed(op, t))
           r == Run(key, op, allowed, 0, 0)
<1> HIDE DEF allowed
<1>1. \A m \in msgs' : m \in msgs \/ m.type # "decided"
  OBVIOUS
<1>2. CASE UNCHANGED <<pending, runs>>
  BY <1>1, <1>2, OtherwiseApproved
<1>3. CASE ~NeedsConfirm(op) /\ runs' = runs \cup {r} /\ UNCHANGED pending
  <2>1. DOMAIN r = RunFields /\ r.op \notin {"stop", "kill", "restart"}
    BY <1>3 DEF Run, RunFields, NeedsConfirm
  <2> HIDE DEF r
  <2>2. QED
    BY <1>1, <1>3, <2>1, OtherwiseApproved
<1>4. CASE /\ pending' = [op |-> op, targets |-> allowed, since |-> keys']
           /\ UNCHANGED runs
  <2>1. pending'.since = keys'
    BY <1>4
  <2>2. \A m \in msgs' : AnsweredAfter(m)'
    BY DEF AnsweredAfter, Asks
  <2>3. QED
    BY <1>4, <2>1, <2>2 DEF Approved, ApprovedOnly
<1>5. QED
  BY <1>2, <1>3, <1>4 DEF Start, StartDrain, OpenDrain, allowed

LEMMA KeysApproved ==
  ASSUME Approved, FastTyping = FALSE, Keys
  PROVE  Approved'
<1>1. /\ \A m \in msgs : m.type \notin Asks
      /\ keys' = keys + 1
  BY DEF Keys, ListKey, OpenDetail, ChooseKey, DecideKey, CancelKey, Answer, BackKey, Press,
         Asks
<1>2. keys' \in Nat /\ keys' >= keys /\ keys \in Nat
  BY <1>1 DEF Approved
<1>3. ASSUME NEW op \in Ops, NEW sel \in Selections, ListKey(op, sel) PROVE Approved'
  <2>1. msgs' = msgs
    BY <1>3 DEF ListKey
  <2>2. QED
    BY <1>1, <1>2, <1>3, <2>1, StartApproved DEF ListKey
<1>4. ASSUME \A n \in msgs' : n \in msgs \/ n.type # "decided",
             UNCHANGED <<pending, runs>>
      PROVE  Approved'
  BY <1>2, <1>4, OtherwiseApproved
<1>5. ASSUME NEW yes \in BOOLEAN, DecideKey(yes) PROVE Approved'
  <2> DEFINE m == [type |-> "decided", key |-> keys + 1, yes |-> yes]
  <2>1. msgs' = msgs \cup {m} /\ UNCHANGED <<pending, runs>>
    BY <1>5 DEF DecideKey, Answer, pageVars
  <2>2. m.type = "decided" /\ m.key = keys + 1
    OBVIOUS
  <2> HIDE DEF m
  <2>3. \A n \in msgs' : AnsweredAfter(n)'
    BY <1>1, <1>2, <2>1, <2>2 DEF Approved, AnsweredAfter, Asks
  <2>4. QED
    BY <1>1, <1>2, <2>1, <2>3 DEF Approved, ApprovedOnly
<1>6. ASSUME NEW op \in Ops, ChooseKey(op) PROVE Approved'
  BY <1>4, <1>6 DEF ChooseKey, Answer, pageVars
<1>7. CASE CancelKey
  BY <1>4, <1>7 DEF CancelKey, Answer, pageVars
<1>8. ASSUME NEW r \in Runners, OpenDetail(r) PROVE Approved'
  BY <1>4, <1>8 DEF OpenDetail
<1>9. CASE BackKey
  BY <1>4, <1>9 DEF BackKey
<1>10. QED
  BY <1>3, <1>5, <1>6, <1>7, <1>8, <1>9 DEF Keys

LEMMA ArrivalsApproved ==
  ASSUME Approved, Screen, Arrivals
  PROVE  Approved'
<1>1. PICK m \in msgs :
        OnChosen(m) \/ OnDecided(m) \/ OnCancel(m) \/ OnStep(m) \/ OnDone(m)
  BY DEF Arrivals
<1>2. keys' = keys /\ keys' \in Nat /\ keys' >= keys
  BY <1>1 DEF Approved, OnChosen, OnDecided, OnCancel, OnStep, OnDone
<1>3. CASE OnChosen(m)
  <2>1. msgs' = msgs \ {m} /\ Start(m.op, <<m.target>>, m.key) /\ m.type = "chosen"
    BY <1>3 DEF OnChosen
  <2>2. \A n \in msgs' : n.type \notin Asks
    BY <2>1 DEF Screen, OneAnswer, Asks
  <2>3. QED
    BY <1>2, <2>1, <2>2, StartApproved
<1>4. CASE OnDecided(m)
  <2> DEFINE r == Run(m.key, pending.op, pending.targets, pending.since, m.key)
  <2>1. /\ m.type = "decided" /\ msgs' = msgs \ {m} /\ pending' = NoPending
        /\ runs' \subseteq runs \cup {r}
    BY <1>4 DEF OnDecided
  <2>2. DOMAIN r = RunFields /\ r.approved > r.since
    BY <2>1 DEF Approved, AnsweredAfter, Run, RunFields
  <2> HIDE DEF r
  <2>3. \A n \in msgs' : n.type # "decided"
    BY <2>1 DEF Screen, OneAnswer, Asks
  <2>4. pending'.since = 0
    BY <2>1 DEF NoPending
  <2>5. \A n \in msgs' : AnsweredAfter(n)'
    BY <2>3 DEF AnsweredAfter
  <2>6. QED
    BY <1>2, <2>1, <2>2, <2>4, <2>5 DEF Approved, ApprovedOnly
<1>5. CASE OnCancel(m) \/ OnStep(m) \/ OnDone(m)
  <2>1. pending' = pending /\ runs' = runs
    BY <1>5 DEF OnCancel, OnStep, OnDone
  <2>2. \A n \in msgs' : n \in msgs \/ n.type # "decided"
    BY <1>5 DEF OnCancel, OnStep, OnDone, DrainDone, Done
  <2>3. QED
    BY <1>2, <2>1, <2>2, OtherwiseApproved
<1>6. QED
  BY <1>1, <1>3, <1>4, <1>5

(* The goroutine of an operation keeps what it was started with.           *)
LEMMA RunsApproved ==
  ASSUME Approved, Runs
  PROVE  Approved'
<1>1. PICK r \in runs : Issue(r) \/ KillStop(r) \/ Return(r)
  BY DEF Runs
<1>2. keys' = keys /\ pending' = pending /\ keys \in Nat
  BY <1>1 DEF Issue, Toggle, Kill, KillStop, Return, NextTarget, RunGoesOn, pageVars, Approved
<1>3. DOMAIN r = RunFields
  BY DEF Approved
<1>4. ASSUME NEW s, RunGoesOn(r, s), DOMAIN s = RunFields, s.op = r.op,
             s.approved = r.approved, s.since = r.since
      PROVE  Approved'
  <2>1. runs' = (runs \ {r}) \cup {s} /\ msgs' = msgs
    BY <1>4 DEF RunGoesOn
  <2>2. s.op \in {"stop", "kill", "restart"} => s.approved > s.since
    BY <1>4 DEF Approved, ApprovedOnly
  <2>3. QED
    BY <1>2, <1>4, <2>1, <2>2, OtherwiseApproved
<1>5. ASSUME NEW ok, NextTarget(r, ok) PROVE Approved'
  <2> DEFINE s == [r EXCEPT !.at = @ + 1, !.phase = "issue",
                            !.ok = @ + (IF ok THEN 1 ELSE 0),
                            !.failed = @ + (IF ok THEN 0 ELSE 1)]
  <2>1. /\ DOMAIN s = RunFields /\ s.op = r.op /\ s.approved = r.approved
        /\ s.since = r.since
    BY <1>3 DEF RunFields
  <2>2. \/ RunGoesOn(r, s)
        \/ /\ runs' = runs \ {r}
           /\ msgs' = msgs \cup {Done(r.op, r.id, s.ok, s.failed)}
    BY <1>5 DEF NextTarget
  <2> HIDE DEF s
  <2>3. CASE RunGoesOn(r, s)
    BY <1>4, <2>1, <2>3
  <2>4. CASE /\ runs' = runs \ {r}
             /\ msgs' = msgs \cup {Done(r.op, r.id, s.ok, s.failed)}
    BY <1>2, <2>4, OtherwiseApproved DEF Done
  <2>5. QED
    BY <2>2, <2>3, <2>4
<1>6. ASSUME NEW p, RunGoesOn(r, [r EXCEPT !.phase = p]) PROVE Approved'
  <2> DEFINE s == [r EXCEPT !.phase = p]
  <2>1. /\ DOMAIN s = RunFields /\ s.op = r.op /\ s.approved = r.approved
        /\ s.since = r.since
    BY <1>3 DEF RunFields
  <2> HIDE DEF s
  <2>2. QED
    BY <1>4, <1>6, <2>1 DEF s
<1>7. QED
  BY <1>1, <1>5, <1>6 DEF Issue, Toggle, Kill, KillStop, Return

LEMMA NextApproved ==
  ASSUME Approved, Screen, FastTyping = FALSE, [Next]_vars
  PROVE  Approved'
<1>1. CASE Detect \/ HostStep \/ UNCHANGED vars
  <2>1. keys' = keys /\ pending' = pending /\ runs' = runs /\ msgs' = msgs
    BY <1>1 DEF Detect, HostStep, vars, pageVars
  <2>2. QED
    BY <2>1, OtherwiseApproved DEF Approved
<1>2. CASE Waits
  <2>1. keys' = keys /\ pending' = pending /\ runs' = runs
    BY <1>2 DEF Waits, DrainScan, DrainInterval, DrainStop, DrainReturn, WaitEnds, WaitGoesOn,
                pageVars
  <2>2. \A m \in msgs' : m \in msgs \/ m.type # "decided"
    BY <1>2 DEF Waits, DrainScan, DrainInterval, DrainStop, DrainReturn, WaitEnds, WaitGoesOn
  <2>3. QED
    BY <2>1, <2>2, OtherwiseApproved DEF Approved
<1>3. QED
  BY <1>1, <1>2, KeysApproved, ArrivalsApproved, RunsApproved DEF Next

(* No job is lost that the user did not risk: a drain interrupts none it   *)
(* could see, and another operation runs only after a yes that was given   *)
(* on the dialog opened for it, after it had opened.                       *)
THEOREM JobsAreLostByConsent ==
  ASSUME FastTyping = FALSE
  PROVE  Spec => []JobsLostOnlyByConsent
<1>1. Init => Spared /\ Screen /\ Approved
  <2>1. Init => Approved
    BY DEF Init, Approved, ApprovedOnly, NoPending
  <2>2. QED
    BY <2>1, InitSpares, InitScreen
<1>2. Spared /\ Screen /\ Approved /\ [Next]_vars => (Spared /\ Screen /\ Approved)'
  BY StepSpares, NextScreen, NextApproved
<1>3. Spared /\ Approved => JobsLostOnlyByConsent
  BY DEF Spared, Approved, JobsLostOnlyByConsent
<1>4. QED
  BY <1>1, <1>2, <1>3, PTL DEF Spec

-----------------------------------------------------------------------------
(* A set of numbers that is not empty has a least one: the intervals up to *)
(* its members are ordered as they are.                                    *)
LEMMA LeastNumber ==
  ASSUME NEW S, S \subseteq Nat, S # {}
  PROVE  \E x \in S : \A y \in S : x <= y
<1>1. PICK m \in S : TRUE
  OBVIOUS
<1> DEFINE I == 1 .. m
           L == {s \in S : s <= m}
           T == {1 .. x : x \in L}
           R == StrictSubsetOrdering(I)
<1>2. IsWellFoundedOn(R, SUBSET I)
  <2>1. IsFiniteSet(I)
    BY FS_Interval
  <2>2. FiniteSubsetsOf(I) = SUBSET I
    BY <2>1, FS_FiniteSubsetsOfFinite
  <2> QED  BY <2>2, FS_StrictSubsetOrderingWellFounded
<1>3. T \subseteq SUBSET I /\ T # {}
  BY <1>1
<1>4. \A A, B \in SUBSET I : A \subseteq B /\ A # B => <<A, B>> \in R
  BY DEF StrictSubsetOrdering
<1> HIDE DEF R, T
<1>5. PICK A \in T : \A B \in T : ~ (<<B, A>> \in R)
  BY <1>2, <1>3, WFMin
<1>6. PICK x \in L : A = 1 .. x
  BY <1>5 DEF T
<1>7. ASSUME NEW y \in S  PROVE  x <= y
  <2>1. SUFFICES ASSUME y < x  PROVE FALSE
    BY <1>6
  <2>2. y \in L /\ 1 .. y \in T
    BY <1>1, <1>6, <2>1 DEF T
  <2>3. 1 .. y \subseteq 1 .. x /\ 1 .. y # 1 .. x
    BY <1>6, <2>1
  <2> QED
    BY <1>3, <1>4, <1>5, <1>6, <2>2, <2>3
<1> QED
  BY <1>6, <1>7

LEMMA MinIsLeast ==
  ASSUME NEW S, S \subseteq Nat, S # {}
  PROVE  Min(S) \in S /\ \A y \in S : Min(S) <= y
<1>1. \E x \in S : \A y \in S : x <= y
  BY LeastNumber
<1> QED  BY <1>1 DEF Min

LEMMA FitIs ==
  ASSUME NEW n \in Nat, NEW c \in Nat
  PROVE  LET v == Min({n, Max({c, 1})})
         IN v \in 0 .. n /\ (c \in 1 .. n => v = c)
<1>1. PICK m \in Nat : m = IF c >= 1 THEN c ELSE 1
  OBVIOUS
<1>2. Max({c, 1}) = m
  BY <1>1 DEF Max
<1>3. Min({n, m}) \in {n, m} /\ \A y \in {n, m} : Min({n, m}) <= y
  BY MinIsLeast
<1> QED  BY <1>1, <1>2, <1>3

-----------------------------------------------------------------------------
(* The rows of a section that are in a set, one after the other.           *)
Selects(q, S, f, k) ==
  f[0] = <<>> /\ \A i \in 1 .. k : f[i] = IF q[i] \in S THEN Append(f[i - 1], q[i]) ELSE f[i - 1]

LEMMA SelectsExists ==
  ASSUME NEW q, NEW S, NEW l \in Nat
  PROVE  \E f : Selects(q, S, f, l)
<1> DEFINE D == {k \in Nat : ~ \E f : Selects(q, S, f, k)}
<1> SUFFICES ASSUME D # {} PROVE FALSE
  OBVIOUS
<1>1. PICK k \in D : \A j \in D : k <= j
  <2>1. D \subseteq Nat
    OBVIOUS
  <2> HIDE DEF D
  <2> QED  BY <2>1, LeastNumber
<1>2. k # 0
  <2> DEFINE g == [i \in {0} |-> <<>>]
  <2>1. Selects(q, S, g, 0)
    BY DEF Selects
  <2> QED  BY <2>1
<1>3. k - 1 \in Nat /\ k - 1 \notin D
  BY <1>1, <1>2
<1>4. PICK f : Selects(q, S, f, k - 1)
  BY <1>3
<1> DEFINE g == [i \in 0 .. k |->
                   IF i = k THEN IF q[k] \in S THEN Append(f[k - 1], q[k]) ELSE f[k - 1]
                   ELSE f[i]]
<1>5. Selects(q, S, g, k)
  <2>1. g[0] = <<>> /\ g[k - 1] = f[k - 1]
        /\ g[k] = IF q[k] \in S THEN Append(f[k - 1], q[k]) ELSE f[k - 1]
    BY <1>1, <1>2, <1>4 DEF Selects
  <2>2. ASSUME NEW i \in 1 .. k - 1
        PROVE  g[i] = IF q[i] \in S THEN Append(g[i - 1], q[i]) ELSE g[i - 1]
    <3>1. g[i] = f[i] /\ g[i - 1] = f[i - 1]
      BY <1>3
    <3> QED  BY <1>4, <3>1 DEF Selects
  <2> HIDE DEF g
  <2> QED  BY <1>1, <2>1, <2>2 DEF Selects
<1> QED  BY <1>1, <1>5

LEMMA AmongSelects ==
  ASSUME NEW q, Len(q) \in Nat, NEW S
  PROVE  \E f : Selects(q, S, f, Len(q)) /\ Among(q, S) = f[Len(q)]
<1>1. PICK f : Selects(q, S, f, Len(q))
  BY SelectsExists
<1> DEFINE Def(g) == [n \in 0 .. Len(q) |->
                        IF n = 0 THEN <<>>
                        ELSE IF q[n] \in S THEN Append(g[n - 1], q[n]) ELSE g[n - 1]]
           h == [n \in 0 .. Len(q) |-> f[n]]
           s == CHOOSE g : g = Def(g)
<1>2. h = Def(h)
  <2>1. ASSUME NEW n \in 0 .. Len(q), n # 0
        PROVE  h[n - 1] = f[n - 1]
               /\ f[n] = IF q[n] \in S THEN Append(f[n - 1], q[n]) ELSE f[n - 1]
    BY <1>1, <2>1 DEF Selects
  <2>2. f[0] = <<>>
    BY <1>1 DEF Selects
  <2>3. \A n \in 0 .. Len(q) : h[n] = Def(h)[n]
    BY <2>1, <2>2
  <2> QED  BY <2>3
<1>3. Among(q, S) = s[Len(q)]
  BY DEF Among
<1> HIDE DEF h
<1>4. s = Def(s)
  <2> HIDE DEF Def
  <2> QED  BY <1>2
<1> HIDE DEF s
<1>5. \A n \in 0 .. Len(q) : s[n] = Def(s)[n]
  BY <1>4
<1>6. Selects(q, S, s, Len(q))
  BY <1>5 DEF Selects
<1> QED  BY <1>3, <1>6

LEMMA AmongIs ==
  ASSUME NEW T, NEW q \in Seq(T), NEW S
  PROVE  Among(q, S) \in Seq(T) /\ Range(Among(q, S)) = Range(q) \cap S
<1>1. Len(q) \in Nat /\ DOMAIN q = 1 .. Len(q) /\ \A i \in 1 .. Len(q) : q[i] \in T
  OBVIOUS
<1>2. PICK f : Selects(q, S, f, Len(q)) /\ Among(q, S) = f[Len(q)]
  BY <1>1, AmongSelects
<1> DEFINE Upto(k) == {q[i] : i \in 1 .. k} \cap S
           D == {k \in 0 .. Len(q) : ~ (f[k] \in Seq(T) /\ Range(f[k]) = Upto(k))}
<1>3. D = {}
  <2> SUFFICES ASSUME D # {} PROVE FALSE
    OBVIOUS
  <2>1. PICK k \in D : \A j \in D : k <= j
    <3>1. D \subseteq Nat
      BY <1>1
    <3> HIDE DEF D
    <3> QED  BY <3>1, LeastNumber
  <2>2. k # 0
    <3>1. f[0] = <<>>
      BY <1>2 DEF Selects
    <3>2. PICK e : e = <<>>
      OBVIOUS
    <3>3. e \in Seq(T) /\ Range(e) = {}
      BY <3>2 DEF Range
    <3>4. Upto(0) = {}
      OBVIOUS
    <3>5. 0 \notin D
      <4> HIDE DEF Upto
      <4> QED  BY <3>1, <3>2, <3>3, <3>4
    <3> QED  BY <2>1, <3>5
  <2>3. k \in 1 .. Len(q) /\ k - 1 \in 0 .. Len(q) /\ k - 1 \notin D
    <3>1. k \in 0 .. Len(q)
      BY <2>1
    <3>2. ~(k <= k - 1)
      BY <1>1, <3>1
    <3> HIDE DEF D
    <3> QED  BY <1>1, <2>1, <2>2, <3>1, <3>2
  <2>4. PICK s : s = f[k - 1]
    OBVIOUS
  <2>5. s \in Seq(T) /\ Range(s) = Upto(k - 1)
    BY <2>3, <2>4
  <2>6. f[k] = IF q[k] \in S THEN Append(s, q[k]) ELSE s
    BY <1>2, <2>3, <2>4 DEF Selects
  <2>7. Upto(k) = IF q[k] \in S THEN Upto(k - 1) \cup {q[k]} ELSE Upto(k - 1)
    <3>1. 1 .. k = (1 .. k - 1) \cup {k}
      BY <1>1, <2>3
    <3> QED  BY <3>1
  <2>8. Append(s, q[k]) \in Seq(T) /\ Range(Append(s, q[k])) = Range(s) \cup {q[k]}
    <3>1. PICK a : a = Append(s, q[k])
      OBVIOUS
    <3>2. /\ a \in Seq(T) /\ Len(a) = Len(s) + 1 /\ a[Len(s) + 1] = q[k]
          /\ \A i \in 1 .. Len(s) : a[i] = s[i]
      BY <1>1, <2>3, <2>5, <3>1, AppendProperties
    <3>3. DOMAIN s = 1 .. Len(s) /\ Len(s) \in Nat /\ DOMAIN a = 1 .. Len(s) + 1
      BY <2>5, <3>2, LenProperties
    <3>4. DOMAIN a = DOMAIN s \cup {Len(s) + 1}
      BY <3>3
    <3> QED  BY <3>1, <3>2, <3>3, <3>4 DEF Range
  <2> HIDE DEF Upto
  <2> QED  BY <2>1, <2>5, <2>6, <2>7, <2>8
<1>4. Range(q) = {q[i] : i \in 1 .. Len(q)}
  BY <1>1 DEF Range
<1> QED  BY <1>1, <1>2, <1>3, <1>4

-----------------------------------------------------------------------------
(* A table, and one whose cursors are on a row where there is one.         *)
Loose(t) ==
  /\ t \in [items : [Sections -> Seq(Rows \cup STRING)], focus : Sections,
            cur : [Sections -> Nat], checked : SUBSET Rows, query : SUBSET Rows,
            filtering : BOOLEAN]
  /\ t.items[1] \in Seq(Rows)
  /\ t.checked \subseteq Range(t.items[1])

TableOK(t) == Loose(t) /\ \A s \in Sections : t.cur[s] \in 0 .. Len(Shown(t, s))

(* The rows and what is marked and filtered.                               *)
SameRows(t, v) == v.items = t.items /\ v.checked = t.checked /\ v.query = t.query
                  /\ v.filtering = t.filtering

LEMMA ShownIs ==
  ASSUME NEW t, Loose(t)
  PROVE  /\ \A s \in Sections : Len(Shown(t, s)) \in Nat
         /\ Shown(t, 1) \in Seq(Rows) /\ Range(Shown(t, 1)) = Range(t.items[1]) \cap t.query
         /\ Checked(t) \in Seq(Rows) /\ Range(Checked(t)) = t.checked
         /\ Range(t.items[1]) \subseteq Rows
<1>1. t.items[1] \in Seq(Rows) /\ t.items[2] \in Seq(Rows \cup STRING) /\ t.checked \subseteq Range(t.items[1])
  BY DEF Loose, Sections
<1>2. /\ Among(t.items[1], t.query) \in Seq(Rows)
      /\ Range(Among(t.items[1], t.query)) = Range(t.items[1]) \cap t.query
      /\ Among(t.items[1], t.checked) \in Seq(Rows)
      /\ Range(Among(t.items[1], t.checked)) = Range(t.items[1]) \cap t.checked
  BY <1>1, AmongIs
<1>3. Shown(t, 1) = Among(t.items[1], t.query) /\ Shown(t, 2) = t.items[2]
      /\ Checked(t) = Among(t.items[1], t.checked)
  BY DEF Shown, Checked
<1>4. \A s \in Sections : s = 1 \/ s = 2
  BY DEF Sections
<1>5. Len(Shown(t, 1)) \in Nat /\ Len(Shown(t, 2)) \in Nat
  BY <1>1, <1>2, <1>3, LenProperties
<1>6. Range(t.items[1]) \subseteq Rows
  <2>1. PICK q \in Seq(Rows) : q = t.items[1]
    BY <1>1
  <2>2. DOMAIN q = 1 .. Len(q) /\ \A i \in 1 .. Len(q) : q[i] \in Rows
    BY <2>1, LenProperties, ElementOfSeq
  <2> QED  BY <2>1, <2>2 DEF Range
<1> QED  BY <1>1, <1>2, <1>3, <1>4, <1>5, <1>6

LEMMA SameShown ==
  ASSUME NEW t, NEW v, SameRows(t, v)
  PROVE  \A s : Shown(v, s) = Shown(t, s)
BY DEF SameRows, Shown

LEMMA FitBounds ==
  ASSUME NEW t, Loose(t), NEW s \in Sections, NEW c \in Nat
  PROVE  Fit(t, s, c) \in 0 .. Len(Shown(t, s)) /\ (c \in 1 .. Len(Shown(t, s)) => Fit(t, s, c) = c)
<1>1. Len(Shown(t, s)) \in Nat
  BY ShownIs
<1> QED  BY <1>1, FitIs DEF Fit

LEMMA RefreshIs ==
  ASSUME NEW t, Loose(t)
  PROVE  /\ TableOK(Refresh(t)) /\ SameRows(t, Refresh(t)) /\ Refresh(t).focus = t.focus
         /\ \A s \in Sections : t.cur[s] \in 1 .. Len(Shown(t, s)) => Refresh(t).cur[s] = t.cur[s]
<1>1. PICK c : c = [s \in Sections |-> Fit(t, s, t.cur[s])]
  OBVIOUS
<1>2. PICK v : v = [t EXCEPT !.cur = c]
  OBVIOUS
<1>3. Refresh(t) = v
  BY <1>1, <1>2 DEF Refresh
<1>4. \A s \in Sections : /\ c[s] \in 0 .. Len(Shown(t, s))
                          /\ t.cur[s] \in 1 .. Len(Shown(t, s)) => c[s] = t.cur[s]
  BY <1>1, FitBounds DEF Loose
<1>5. c \in [Sections -> Nat]
  BY <1>1, <1>4, ShownIs
<1>6. Loose(v) /\ SameRows(t, v) /\ v.focus = t.focus /\ v.cur = c
  BY <1>2, <1>5 DEF Loose, SameRows
<1> QED  BY <1>3, <1>4, <1>6, SameShown DEF TableOK

LEMMA SetFocusIs ==
  ASSUME NEW t, TableOK(t), NEW s \in Sections, NEW c \in Nat
  PROVE  /\ TableOK(SetFocus(t, s, c)) /\ SameRows(t, SetFocus(t, s, c))
         /\ SetFocus(t, s, c).focus = s
         /\ c \in 1 .. Len(Shown(t, s)) => SetFocus(t, s, c).cur[s] = c
<1>1. PICK f : f = Fit(t, s, c)
  OBVIOUS
<1>2. f \in 0 .. Len(Shown(t, s)) /\ (c \in 1 .. Len(Shown(t, s)) => f = c) /\ Len(Shown(t, s)) \in Nat
  BY <1>1, FitBounds, ShownIs DEF TableOK
<1>3. PICK v : v = SetFocus(t, s, c)
  OBVIOUS
<1>4. v = [t EXCEPT !.focus = s, !.cur = [t.cur EXCEPT ![s] = f]]
  BY <1>1, <1>3 DEF SetFocus
<1>5. PICK d : d = [t.cur EXCEPT ![s] = f]
  OBVIOUS
<1>6. d \in [Sections -> Nat] /\ d[s] = f /\ \A r \in Sections : r # s => d[r] = t.cur[r]
  BY <1>2, <1>5 DEF TableOK, Loose
<1>7. Loose(v) /\ SameRows(t, v) /\ v.focus = s /\ v.cur = d
  BY <1>4, <1>5, <1>6 DEF TableOK, Loose, SameRows
<1> QED  BY <1>2, <1>3, <1>6, <1>7, SameShown DEF TableOK

(* The row of the cursor, as long as it is shown, keeps the cursor.        *)
OnRow(t, r) == t.focus = 1 /\ t.cur[1] # 0 /\ Shown(t, 1)[t.cur[1]] = r

LEMMA NormalizeIs ==
  ASSUME NEW t, TableOK(t), NEW row
  PROVE  LET v == NormalizeFocus(t, row)
         IN /\ TableOK(v) /\ SameRows(t, v)
            /\ t.focus = 1 /\ row # NoRow /\ row \in Range(Shown(t, 1)) => OnRow(v, row)
<1> DEFINE visible == {s \in Sections : Shown(t, s) # <<>>}
           at == {i \in DOMAIN Shown(t, t.focus) : Shown(t, t.focus)[i] = row}
           c == Restored(t, row)
<1>1. /\ t.focus \in Sections /\ t.cur[t.focus] \in Nat /\ Loose(t)
      /\ DOMAIN Shown(t, t.focus) \subseteq Nat
  <2>1. t.focus \in Sections /\ t.cur[t.focus] \in Nat /\ Loose(t) /\ t.items[2] \in Seq(Rows \cup STRING)
    BY DEF TableOK, Loose, Sections
  <2>2. Shown(t, 1) \in Seq(Rows)
    BY <2>1, ShownIs
  <2>3. \A T : \A q \in Seq(T) : DOMAIN q \subseteq Nat
    BY LenProperties
  <2>4. DOMAIN Shown(t, 1) \subseteq Nat
    BY <2>2, <2>3
  <2>5. DOMAIN Shown(t, 2) \subseteq Nat
    BY <2>1, <2>3 DEF Shown
  <2>6. t.focus = 1 \/ t.focus = 2
    BY <2>1 DEF Sections
  <2> QED  BY <2>1, <2>4, <2>5, <2>6
<1>2. at \subseteq Nat
  BY <1>1
<1>3. c = IF row = NoRow THEN t.cur[t.focus] ELSE IF at = {} THEN 1 ELSE Min(at)
  BY DEF Restored
<1>4. at # {} => Min(at) \in at
  <2> HIDE DEF at
  <2> QED  BY <1>2, MinIsLeast
<1>5. c \in Nat
  <2> HIDE DEF at, c
  <2> QED  BY <1>1, <1>2, <1>3, <1>4
<1>6. NormalizeFocus(t, row) =
        IF t.focus \in visible THEN SetFocus(t, t.focus, c)
        ELSE SetFocus(t, Min(visible \cup {IF visible = {} THEN 1 ELSE 2}), 1)
  BY DEF NormalizeFocus
<1>7. PICK b : b = Min(visible \cup {IF visible = {} THEN 1 ELSE 2})
  OBVIOUS
<1>8. b \in Sections
  <2> DEFINE B == visible \cup {IF visible = {} THEN 1 ELSE 2}
  <2>1. B \subseteq Sections /\ B # {}
    BY DEF Sections
  <2>2. B \subseteq Nat
    BY <2>1 DEF Sections
  <2> HIDE DEF B
  <2>3. Min(B) \in B
    BY <2>1, <2>2, MinIsLeast
  <2> QED  BY <1>7, <2>1, <2>3 DEF B
<1>9. CASE t.focus \in visible
  <2>1. PICK v : v = SetFocus(t, t.focus, c)
    OBVIOUS
  <2>2. NormalizeFocus(t, row) = v
    BY <1>6, <1>9, <2>1
  <2>3. /\ TableOK(v) /\ SameRows(t, v) /\ v.focus = t.focus
        /\ c \in 1 .. Len(Shown(t, t.focus)) => v.cur[t.focus] = c
    <3> HIDE DEF c
    <3> QED  BY <1>1, <1>5, <2>1, SetFocusIs
  <2>4. ASSUME t.focus = 1, row # NoRow, row \in Range(Shown(t, 1))
        PROVE  OnRow(v, row)
    <3>1. at # {}
      BY <2>4 DEF Range
    <3>2. c \in at
      <4> HIDE DEF at, c
      <4> QED  BY <1>3, <1>4, <2>4, <3>1
    <3>3. c \in DOMAIN Shown(t, 1) /\ Shown(t, 1)[c] = row
      <4> HIDE DEF c
      <4> QED  BY <2>4, <3>2
    <3>4. DOMAIN Shown(t, 1) = 1 .. Len(Shown(t, 1))
      BY <1>1, ShownIs, LenProperties
    <3>5. v.cur[1] = c /\ c # 0
      <4> HIDE DEF c
      <4>1. c \in 1 .. Len(Shown(t, 1)) /\ Len(Shown(t, 1)) \in Nat
        BY <1>1, <3>3, <3>4, ShownIs DEF Sections
      <4> QED  BY <2>3, <2>4, <4>1
    <3>6. Shown(v, 1) = Shown(t, 1)
      BY <2>3, SameShown
    <3> HIDE DEF c
    <3> QED  BY <2>3, <2>4, <3>3, <3>5, <3>6 DEF OnRow
  <2> QED  BY <2>2, <2>3, <2>4
<1>10. CASE t.focus \notin visible
  <2>1. NormalizeFocus(t, row) = SetFocus(t, b, 1)
    BY <1>6, <1>7, <1>10
  <2>2. TableOK(SetFocus(t, b, 1)) /\ SameRows(t, SetFocus(t, b, 1))
    BY <1>8, SetFocusIs
  <2>3. t.focus = 1 => row \notin Range(Shown(t, 1))
    <3>1. t.focus = 1 => Shown(t, 1) = <<>>
      BY <1>1, <1>10
    <3>2. \A q : q = <<>> => Range(q) = {}
      BY DEF Range
    <3> QED  BY <3>1, <3>2
  <2> QED  BY <2>1, <2>2, <2>3
<1> QED  BY <1>9, <1>10

LEMMA SelectedIs ==
  ASSUME NEW t, TableOK(t), t.focus = 1
  PROVE  /\ Selected(t) # NoRow => OnRow(t, Selected(t)) /\ Selected(t) \in Range(Shown(t, 1))
         /\ \A r \in Rows : OnRow(t, r) => Selected(t) = r
<1>1. Loose(t) /\ t.cur[1] \in 0 .. Len(Shown(t, 1))
  BY DEF TableOK, Sections
<1>2. DOMAIN Shown(t, 1) = 1 .. Len(Shown(t, 1)) /\ Len(Shown(t, 1)) \in Nat
  BY <1>1, ShownIs, LenProperties
<1>3. Selected(t) = IF t.cur[1] = 0 THEN NoRow ELSE Shown(t, 1)[t.cur[1]]
  BY DEF Selected
<1>4. t.cur[1] # 0 => t.cur[1] \in DOMAIN Shown(t, 1)
  BY <1>1, <1>2
<1> QED  BY <1>3, <1>4 DEF OnRow, Range

(* A new list leaves the cursor on its row, if that is shown, and the      *)
(* marks of rows that are in it.                                           *)
(* v is t with other rows in a section, the cursor's row kept.             *)
Relists(t, v, s, q) ==
  /\ TableOK(v) /\ v.items = [t.items EXCEPT ![s] = q] /\ v.query = t.query
  /\ v.checked = t.checked \cap Range(v.items[1])
  /\ \A r \in Rows : OnRow(t, r) /\ r \in Range(v.items[1]) \cap t.query => OnRow(v, r)

LEMMA SetItemsIs ==
  ASSUME NEW t, TableOK(t), NEW s \in Sections, NEW q \in Seq(Rows \cup STRING), s = 1 => q \in Seq(Rows)
  PROVE  Relists(t, SetItems(t, s, q), s, q)
<1>1. Loose(t)
  BY DEF TableOK
<1>2. PICK i : i = [t.items EXCEPT ![s] = q]
  OBVIOUS
<1>3. i \in [Sections -> Seq(Rows \cup STRING)] /\ i[1] \in Seq(Rows)
  BY <1>1, <1>2 DEF Loose, Sections
<1>4. PICK p : p = Pruned([t EXCEPT !.items[s] = q])
  OBVIOUS
<1>5. p = [t EXCEPT !.items = i, !.checked = t.checked \cap Range(i[1])]
  BY <1>1, <1>2, <1>4 DEF Pruned, Loose
<1>6. Loose(p) /\ p.items = i /\ p.query = t.query /\ p.checked = t.checked \cap Range(i[1])
      /\ p.focus = t.focus
  BY <1>1, <1>3, <1>5 DEF Loose
<1>7. PICK f : f = Refresh(p)
  OBVIOUS
<1>8. TableOK(f) /\ SameRows(p, f) /\ f.focus = t.focus
  BY <1>6, <1>7, RefreshIs
<1>9. PICK v : v = NormalizeFocus(f, Selected(t))
  OBVIOUS
<1>10. /\ TableOK(v) /\ SameRows(f, v)
       /\ f.focus = 1 /\ Selected(t) # NoRow /\ Selected(t) \in Range(Shown(f, 1)) => OnRow(v, Selected(t))
  BY <1>8, <1>9, NormalizeIs
<1>11. SetItems(t, s, q) = v
  BY <1>4, <1>7, <1>9 DEF SetItems
<1>12. v.items = i /\ v.query = t.query /\ v.checked = t.checked \cap Range(i[1])
  BY <1>6, <1>8, <1>10 DEF SameRows
<1>13. ASSUME NEW r \in Rows, OnRow(t, r), r \in Range(i[1]) \cap t.query
       PROVE  OnRow(v, r)
  <2>1. t.focus = 1 /\ Selected(t) = r
    BY <1>13, SelectedIs DEF OnRow
  <2>2. r # NoRow
    BY RunnerTableAssumption
  <2>3. Range(Shown(f, 1)) = Range(i[1]) \cap t.query
    BY <1>6, <1>8, ShownIs DEF TableOK, SameRows
  <2> QED  BY <1>8, <1>10, <1>13, <2>1, <2>2, <2>3
<1> QED  BY <1>2, <1>10, <1>11, <1>12, <1>13 DEF Relists

(* What the keys do leaves the rows.                                       *)
LEMMA SetFilterIs ==
  ASSUME NEW t, TableOK(t), NEW q \in SUBSET Rows
  PROVE  TableOK(SetFilter(t, q)) /\ SetFilter(t, q).items = t.items
<1>1. PICK p : p = [t EXCEPT !.query = q]
  OBVIOUS
<1>2. Loose(p) /\ p.items = t.items
  BY <1>1 DEF TableOK, Loose
<1>3. TableOK(Refresh(p)) /\ Refresh(p).items = t.items
  BY <1>2, RefreshIs DEF SameRows
<1>4. SetFilter(t, q) = NormalizeFocus(Refresh(p), Selected(t))
  BY <1>1 DEF SetFilter
<1> QED  BY <1>3, <1>4, NormalizeIs DEF SameRows

LEMMA FilteringIs ==
  ASSUME NEW t, TableOK(t), NEW b \in BOOLEAN
  PROVE  TableOK([t EXCEPT !.filtering = b]) /\ [t EXCEPT !.filtering = b].items = t.items
<1>1. PICK v : v = [t EXCEPT !.filtering = b]
  OBVIOUS
<1>2. Loose(v) /\ v.items = t.items /\ v.query = t.query /\ v.cur = t.cur
  BY <1>1 DEF TableOK, Loose
<1>3. \A s : Shown(v, s) = Shown(t, s)
  BY <1>2 DEF Shown
<1> QED  BY <1>1, <1>2, <1>3 DEF TableOK

LEMMA MarkingIs ==
  ASSUME NEW t, TableOK(t), NEW C, C \subseteq Range(t.items[1])
  PROVE  TableOK([t EXCEPT !.checked = C]) /\ [t EXCEPT !.checked = C].items = t.items
<1>1. PICK v : v = [t EXCEPT !.checked = C]
  OBVIOUS
<1>2. C \subseteq Rows
  BY ShownIs DEF TableOK
<1>3. Loose(v) /\ v.items = t.items /\ v.query = t.query /\ v.cur = t.cur
  BY <1>1, <1>2 DEF TableOK, Loose
<1>4. \A s : Shown(v, s) = Shown(t, s)
  BY <1>3 DEF Shown
<1> QED  BY <1>1, <1>3, <1>4 DEF TableOK

LEMMA ToggleIs ==
  ASSUME NEW t, TableOK(t)
  PROVE  TableOK(ToggleChecked(t)) /\ ToggleChecked(t).items = t.items
<1>1. CASE t.focus = 2 \/ Selected(t) = NoRow
  BY <1>1 DEF ToggleChecked
<1>2. CASE ~(t.focus = 2 \/ Selected(t) = NoRow)
  <2>1. PICK r : r = Selected(t)
    OBVIOUS
  <2>2. t.focus = 1 /\ Loose(t) /\ t.checked \subseteq Range(t.items[1])
    BY <1>2 DEF TableOK, Loose, Sections
  <2>3. r \in Range(t.items[1])
    BY <1>2, <2>1, <2>2, SelectedIs, ShownIs
  <2>4. PICK C : C = (t.checked \ {r}) \cup ({r} \ t.checked)
    OBVIOUS
  <2>5. ToggleChecked(t) = [t EXCEPT !.checked = C]
    BY <1>2, <2>1, <2>4 DEF ToggleChecked
  <2>6. C \subseteq Range(t.items[1])
    BY <2>2, <2>3, <2>4
  <2> QED  BY <2>5, <2>6, MarkingIs
<1> QED  BY <1>1, <1>2

LEMMA CheckAllIs ==
  ASSUME NEW t, TableOK(t)
  PROVE  TableOK(CheckAll(t)) /\ CheckAll(t).items = t.items
<1>1. PICK C : C = t.checked \cup Range(Shown(t, 1))
  OBVIOUS
<1>2. C \subseteq Range(t.items[1])
  BY <1>1, ShownIs DEF TableOK, Loose
<1>3. CheckAll(t) = [t EXCEPT !.checked = C]
  BY <1>1 DEF CheckAll
<1> QED  BY <1>2, <1>3, MarkingIs

LEMMA MovesAre ==
  ASSUME NEW t, TableOK(t), NEW top \in BOOLEAN
  PROVE  /\ TableOK(Down(t)) /\ Down(t).items = t.items
         /\ TableOK(Up(t)) /\ Up(t).items = t.items
         /\ TableOK(GotoEdge(t, top)) /\ GotoEdge(t, top).items = t.items
<1>1. /\ t.focus \in Sections /\ 1 \in Sections /\ 2 \in Sections /\ t.cur[t.focus] \in Nat
      /\ \A s \in Sections : Len(Shown(t, s)) \in Nat
  BY ShownIs DEF TableOK, Loose, Sections
<1>2. \A s \in Sections, c \in Nat : TableOK(SetFocus(t, s, c)) /\ SetFocus(t, s, c).items = t.items
  BY SetFocusIs DEF SameRows
<1>3. TableOK(Down(t)) /\ Down(t).items = t.items
  <2>1. Down(t) = SetFocus(t, 2, 1) \/ Down(t) = SetFocus(t, t.focus, t.cur[t.focus] + 1)
    BY DEF Down, CrossDown
  <2>2. t.cur[t.focus] + 1 \in Nat /\ 1 \in Nat
    BY <1>1
  <2> QED  BY <1>1, <1>2, <2>1, <2>2
<1>4. TableOK(Up(t)) /\ Up(t).items = t.items
  <2>1. PICK c : c = t.cur[t.focus]
    OBVIOUS
  <2>2. Max({c, 1}) - 1 \in Nat
    <3>1. PICK m \in Nat \ {0} : m = IF c >= 1 THEN c ELSE 1
      BY <1>1, <2>1
    <3>2. Max({c, 1}) = m
      BY <1>1, <2>1, <3>1 DEF Max
    <3> QED  BY <3>1, <3>2
  <2>3. Up(t) = SetFocus(t, 1, Len(Shown(t, 1))) \/ Up(t) = SetFocus(t, t.focus, Max({c, 1}) - 1)
    BY <2>1 DEF Up, CrossUp
  <2> QED  BY <1>1, <1>2, <2>2, <2>3
<1>5. TableOK(GotoEdge(t, top)) /\ GotoEdge(t, top).items = t.items
  <2> DEFINE visible == {s \in Sections : Shown(t, s) # <<>>}
             s == IF top THEN Min(visible) ELSE Max(visible)
  <2>1. GotoEdge(t, top) = IF visible = {} THEN t ELSE SetFocus(t, s, IF top THEN 1 ELSE Len(Shown(t, s)))
    BY DEF GotoEdge
  <2>2. visible # {} => s \in Sections
    <3>1. visible \subseteq Sections
      OBVIOUS
    <3> HIDE DEF visible
    <3>2. \A x \in visible : x = 1 \/ x = 2
      BY <3>1 DEF Sections
    <3>3. visible \subseteq Nat
      BY <3>2
    <3>4. ASSUME visible # {} PROVE Min(visible) \in visible
      BY <3>3, <3>4, MinIsLeast
    <3>5. ASSUME visible # {} PROVE Max(visible) \in visible
      <4>1. \E x \in visible : \A y \in visible : x >= y
        <5>1. CASE 2 \in visible
          <6>1. \A y \in visible : 2 >= y
            BY <3>2
          <6> QED  BY <5>1, <6>1
        <5>2. CASE 2 \notin visible
          <6>1. PICK x \in visible : TRUE
            BY <3>5
          <6>2. \A y \in visible : x >= y
            BY <3>2, <5>2
          <6> QED  BY <6>2
        <5> QED  BY <5>1, <5>2
      <4> QED  BY <4>1 DEF Max
    <3> QED  BY <3>1, <3>4, <3>5
  <2> HIDE DEF visible, s
  <2> QED  BY <1>1, <1>2, <2>1, <2>2
<1> QED  BY <1>3, <1>4, <1>5

-----------------------------------------------------------------------------
(* A step of the list: a detection replaces the rows, nothing else does.   *)
ListInv == TableOK(tbl)

LEMMA OthersLeaveRows ==
  ASSUME ListInv, OnListDone \/ FilterKey \/ TableKey \/ Back \/ Operate
                  \/ (\E kind \in {"detail", "logs"} : OpenOne(kind))
                  \/ (\E adds \in BOOLEAN : OpenSetup(adds))
  PROVE  ListInv' /\ tbl'.items = tbl.items
<1> SUFFICES ASSUME NEW t, t = tbl, TableOK(t), NEW v, v = tbl'
             PROVE  TableOK(v) /\ v.items = t.items
  BY DEF ListInv
<1>1. /\ \A q \in SUBSET Rows : TableOK(SetFilter(t, q)) /\ SetFilter(t, q).items = t.items
      /\ t.query \in SUBSET Rows /\ Rows \in SUBSET Rows
  BY SetFilterIs DEF TableOK, Loose
<1>2. TableOK(ClearSelection(t)) /\ ClearSelection(t).items = t.items
  BY MarkingIs DEF ClearSelection
<1>3. CASE OnListDone
  BY <1>2, <1>3 DEF OnListDone
<1>4. CASE FilterKey
  <2>1. CASE \E q \in SUBSET Rows : v = SetFilter(t, q)
    BY <1>1, <2>1
  <2>2. CASE \E cancel \in BOOLEAN : v = StopFiltering(t, cancel)
    <3>1. PICK q \in SUBSET Rows : v = [SetFilter(t, q) EXCEPT !.filtering = FALSE]
      BY <1>1, <2>2 DEF StopFiltering
    <3>2. PICK u : u = SetFilter(t, q)
      OBVIOUS
    <3>3. TableOK(u) /\ u.items = t.items /\ v = [u EXCEPT !.filtering = FALSE]
      BY <1>1, <3>1, <3>2
    <3> QED  BY <3>3, FilteringIs
  <2> QED  BY <1>4, <2>1, <2>2 DEF FilterKey
<1>5. CASE TableKey
  <2>1. CASE v = [t EXCEPT !.filtering = TRUE]
    BY <2>1, FilteringIs
  <2>2. CASE v = ToggleChecked(t) \/ v = CheckAll(t)
    BY <2>2, ToggleIs, CheckAllIs
  <2>3. CASE v = Down(t) \/ v = Up(t) \/ \E top \in BOOLEAN : v = GotoEdge(t, top)
    BY <2>3, MovesAre
  <2> QED  BY <1>5, <2>1, <2>2, <2>3 DEF TableKey
<1>6. CASE Back
  BY <1>1, <1>2, <1>6 DEF Back, ClearFilter
<1>7. CASE Operate \/ (\E kind \in {"detail", "logs"} : OpenOne(kind))
           \/ (\E adds \in BOOLEAN : OpenSetup(adds))
  <2>1. v = t
    BY <1>7 DEF Operate, OpenOne, OpenSetup
  <2> QED  BY <2>1
<1> QED  BY <1>3, <1>4, <1>5, <1>6, <1>7

LEMMA RefreshesKeepTargets ==
  ASSUME ListInv, Refreshes
  PROVE  ListInv' /\ (Kept = {} \/ Range(Targets(tbl')) = Kept)
<1>1. PICK t : t = tbl
  OBVIOUS
<1>2. TableOK(t) /\ Loose(t)
  BY <1>1 DEF ListInv, TableOK
<1>3. PICK l \in Lists, u \in Units : tbl' = SetItems(SetItems(tbl, 1, l), 2, u)
  BY DEF Refreshes
<1>4. l \in Seq(Rows) /\ u \in Seq(STRING)
  BY RunnerTableAssumption
<1>5. l \in Seq(Rows \cup STRING) /\ u \in Seq(Rows \cup STRING)
  <2>1. Rows \subseteq Rows \cup STRING /\ STRING \subseteq Rows \cup STRING
    OBVIOUS
  <2> QED  BY <1>4, <2>1, Zenon, SeqMonotonic
<1>6. 1 \in Sections /\ 2 \in Sections
  BY DEF Sections
<1>7. PICK v : v = SetItems(t, 1, l)
  OBVIOUS
<1>s. (1 = 1 => l \in Seq(Rows)) /\ (2 = 1 => u \in Seq(Rows))
  BY <1>4
<1>8. Relists(t, v, 1, l)
  BY <1>2, <1>s, <1>5, <1>6, <1>7, SetItemsIs
<1>9. PICK w : w = SetItems(v, 2, u)
  OBVIOUS
<1>10. Relists(v, w, 2, u)
  <2>1. TableOK(v)
    BY <1>8 DEF Relists
  <2> QED  BY <2>1, <1>s, <1>5, <1>6, <1>9, SetItemsIs
<1>11. tbl' = w
  BY <1>1, <1>3, <1>7, <1>9
<1>12. v.items[1] = l /\ w.items[1] = l
  BY <1>2, <1>6, <1>8, <1>10 DEF Loose, Relists
<1>13. /\ w.checked = t.checked \cap Range(l) /\ Loose(w)
       /\ \A r \in Rows : OnRow(t, r) /\ r \in Range(l) \cap t.query => OnRow(w, r)
  BY <1>8, <1>10, <1>12 DEF TableOK, Relists
<1>14. /\ Range(Checked(t)) = t.checked /\ Range(Checked(w)) = w.checked
       /\ Checked(t) \in Seq(Rows) /\ Checked(w) \in Seq(Rows) /\ Range(l) \subseteq Rows
       /\ Range(Shown(t, 1)) \subseteq Rows
  BY <1>2, <1>12, <1>13, ShownIs
<1>15. \A q \in Seq(Rows) : Range(q) = {} <=> q = <<>>
  <2> SUFFICES ASSUME NEW q \in Seq(Rows) PROVE Range(q) = {} <=> q = <<>>
    OBVIOUS
  <2>1. DOMAIN q = 1 .. Len(q) /\ Len(q) \in Nat /\ (q = <<>> <=> Len(q) = 0)
    BY LenProperties, EmptySeq
  <2>2. PICK n \in Nat : n = Len(q) /\ DOMAIN q = 1 .. n
    BY <2>1
  <2>3. 1 .. n = {} <=> n = 0
    OBVIOUS
  <2>4. Range(q) = {} <=> DOMAIN q = {}
    BY DEF Range
  <2> QED  BY <2>1, <2>2, <2>3, <2>4
<1>16. Kept = Range(Targets(t)) \cap Range(l) \cap (IF Checked(t) # <<>> THEN Rows ELSE t.query)
  BY <1>1, <1>11, <1>12 DEF Kept
<1>17. CASE Checked(t) # <<>>
  <2>1. Kept = w.checked
    BY <1>13, <1>14, <1>16, <1>17 DEF Targets
  <2>2. Kept # {} => Checked(w) # <<>>
    BY <1>14, <1>15, <2>1
  <2> QED  BY <1>10, <1>11, <1>14, <2>1, <2>2 DEF Targets, ListInv, Relists
<1>18. CASE Checked(t) = <<>>
  <2>1. t.checked = {} /\ w.checked = {}
    BY <1>13, <1>14, <1>15, <1>18
  <2>2. Checked(w) = <<>>
    BY <1>14, <1>15, <2>1
  <2>3. Targets(t) = Cursor(t) /\ Targets(w) = Cursor(w)
    BY <1>18, <2>2 DEF Targets
  <2>4. CASE t.focus = 2 \/ Selected(t) = NoRow
    <3>1. Range(<<>>) = {}
      BY DEF Range
    <3> QED  BY <1>10, <1>11, <1>16, <2>3, <2>4, <3>1 DEF Cursor, ListInv, Relists
  <2>5. CASE ~(t.focus = 2 \/ Selected(t) = NoRow)
    <3>1. PICK r : r = Selected(t)
      OBVIOUS
    <3>2. t.focus = 1
      BY <1>2, <2>5 DEF Loose, Sections
    <3>3. r \in Rows /\ OnRow(t, r)
      BY <1>2, <1>14, <2>5, <3>1, <3>2, SelectedIs
    <3>4. \A x : Range(<<x>>) = {x}
      BY DEF Range
    <3>5. Kept = {r} \cap Range(l) \cap t.query
      BY <1>16, <1>18, <2>3, <2>5, <3>1, <3>4 DEF Cursor
    <3>6. ASSUME Kept # {} PROVE Range(Targets(w)) = Kept
      <4>1. r \in Range(l) \cap t.query /\ Kept = {r}
        BY <3>5, <3>6
      <4>2. OnRow(w, r)
        BY <1>13, <3>3, <4>1
      <4>3. w.focus = 1 /\ Selected(w) = r
        BY <1>10, <3>3, <4>2, SelectedIs DEF OnRow, Relists
      <4>4. r # NoRow
        BY <3>3, RunnerTableAssumption
      <4>5. Cursor(w) = <<r>>
        BY <4>3, <4>4 DEF Cursor
      <4> QED  BY <2>3, <3>4, <4>1, <4>5
    <3> QED  BY <1>10, <1>11, <3>6 DEF ListInv, Relists
  <2> QED  BY <2>4, <2>5
<1> QED  BY <1>17, <1>18

LEMMA ListInvInductive == ListSpec => []ListInv
<1>1. ListInit => ListInv
  <2> SUFFICES ASSUME NEW t, t = tbl, ListInit PROVE TableOK(t)
    BY DEF ListInv
  <2>1. t = [items |-> <<<<>>, <<>>>>, focus |-> 1, cur |-> <<0, 0>>, checked |-> {},
             query |-> Rows, filtering |-> FALSE]
    BY DEF ListInit
  <2>2. <<>> \in Seq(Rows) /\ <<>> \in Seq(Rows \cup STRING)
    OBVIOUS
  <2>e. PICK e : e = <<>>
    OBVIOUS
  <2>z. PICK z : z = 0
    OBVIOUS
  <2>t. \A T : \A x \in T : <<x, x>> \in [1 .. 2 -> T] /\ <<x, x>>[1] = x
    OBVIOUS
  <2>i. <<e, e>> \in [Sections -> Seq(Rows \cup STRING)] /\ <<e, e>>[1] = e
    <3>1. e \in Seq(Rows \cup STRING)
      BY <2>2, <2>e
    <3> QED  BY <2>t, <3>1 DEF Sections
  <2>j. <<z, z>> \in [Sections -> Nat] /\ \A s \in Sections : <<z, z>>[s] = z
    BY <2>z DEF Sections
  <2>3. /\ <<<<>>, <<>>>> \in [Sections -> Seq(Rows \cup STRING)] /\ <<<<>>, <<>>>>[1] = <<>>
        /\ <<0, 0>> \in [Sections -> Nat] /\ \A s \in Sections : <<0, 0>>[s] = 0
    BY <2>e, <2>z, <2>i, <2>j
  <2>4. Loose(t)
    <3>1. t.items[1] \in Seq(Rows) /\ t.checked \subseteq Range(t.items[1])
      BY <2>1, <2>2, <2>3
    <3>2. 1 \in Sections
      BY DEF Sections
    <3> QED  BY <2>1, <2>3, <3>1, <3>2 DEF Loose
  <2>5. \A s \in Sections : t.cur[s] = 0 /\ Len(Shown(t, s)) \in Nat
    BY <2>1, <2>3, <2>4, ShownIs
  <2> QED  BY <2>4, <2>5 DEF TableOK
<1>2. ListInv /\ [ListNext]_listVars => ListInv'
  <2> SUFFICES ASSUME ListInv, [ListNext]_listVars PROVE ListInv'
    OBVIOUS
  <2>1. CASE Refreshes
    BY <2>1, RefreshesKeepTargets
  <2>2. CASE ListNext /\ ~Refreshes
    BY <2>2, OthersLeaveRows DEF ListNext
  <2>3. CASE UNCHANGED listVars
    BY <2>3 DEF ListInv, listVars
  <2> QED  BY <2>1, <2>2, <2>3
<1> QED  BY <1>1, <1>2, PTL DEF ListSpec

(* The list of the Runners tab, for any lists a detection may give: while  *)
(* one of the runners an operation would have met is still listed, a new   *)
(* list does not turn the operation to others.                             *)
THEOREM OperationsKeepTheirTargets == ListSpec => SameTargets
<1>1. ListInv /\ [ListNext]_listVars
        => [tbl'.items # tbl.items => Kept = {} \/ Range(Targets(tbl')) = Kept]_listVars
  <2> SUFFICES ASSUME ListInv, ListNext, tbl'.items # tbl.items
               PROVE  Kept = {} \/ Range(Targets(tbl')) = Kept
    OBVIOUS
  <2> QED  BY OthersLeaveRows, RefreshesKeepTargets DEF ListNext
<1> QED  BY <1>1, ListInvInductive, PTL DEF ListSpec, SameTargets
=============================================================================
