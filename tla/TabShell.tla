------------------------------ MODULE TabShell ------------------------------
(***************************************************************************)
(* The parent model of the screen (ui/app.go, ui/keys.go, ui/tabset) and   *)
(* what every page does at its border (ui/page, handleKey and Update of    *)
(* the tabs): keys go to the tab in front, which gives back those it has   *)
(* no use for; what a page starts or asks for comes back to it wherever    *)
(* the user has gone; tabs are told when they come to the front and leave  *)
(* it.  What a page does with an answer is left to the page's module.      *)
(*                                                                         *)
(* All that is on its way arrives in any order, for each tea.Cmd runs in a *)
(* goroutine of its own.                                                   *)
(***************************************************************************)
EXTENDS Naturals, Sequences, FiniteSets, Overlay

CONSTANTS
  Titles,      (* the tabs as tabset.specs lists them.                     *)
  Early,       (* keys may come before the first size of the terminal.     *)
  MaxTyped     (* bound on the keys pressed.                               *)

TabShellAssumption ==
  /\ Titles \in Seq(STRING)
  /\ {"Runners", "Logs", "Config"} \subseteq {Titles[i] : i \in DOMAIN Titles}
  /\ Early \in BOOLEAN /\ MaxTyped \in Nat

Tab == 1 .. Len(Titles)

VARIABLES
  active,      (* App.active, App.activated.                               *)
  activated,
  phase,       (* "on", "ending" once quit has told the pages, "over".     *)
  page,        (* of each tab its modals, whether a filter is typed, the   *)
               (* question that is open, and how often the page was told   *)
               (* it is in front and not yet told it is not.               *)
  wizard,      (* there is no configuration file and the wizard is still   *)
               (* to be shown.                                             *)
  works,       (* goroutines of pages (page.Do).                           *)
  ways,        (* messages on their way.                                   *)
  sent,        (* answers and errands so far: the tab each is for.         *)
  got,         (* those a page has, and which one.                         *)
  typed

shellVars == <<active, activated, phase, page, wizard>>
allVars == <<shellVars, works, ways, sent, got, typed>>

ShellInit ==
  /\ active = 1 /\ activated = FALSE /\ phase = "on"
  /\ page = [t \in Tab |-> [stack |-> <<>>, typing |-> FALSE, asking |-> FALSE, told |-> 0]]
  /\ wizard \in BOOLEAN
  /\ works = {} /\ ways = {} /\ sent = <<>> /\ got = {} /\ typed = 0

-----------------------------------------------------------------------------
(* Pages. *)

(* A mistake: whatever is open gets everything.                            *)
HandlesWhenOpen(p, what) == p.stack # <<>>

(* Overlay.Handles: what is meant for the page itself never goes to the    *)
(* modal on top.                                                           *)
Handles(p, what) ==
  p.stack # <<>> /\ what \notin {"result", "activate", "deactivate", "shutdown"}

(* Update has a case of its own for them.                                  *)
OwnCases == {"result", "done", "errand"}

Receives(p, what) == what \in OwnCases \/ ~Handles(p, what)

(* Activated, deactivated, shut down; a modal knows nothing of it.         *)
Told(p, what) ==
  IF ~Receives(p, what) THEN p
  ELSE [p EXCEPT !.told = IF what = "activate" THEN @ + 1 ELSE IF @ = 0 THEN 0 ELSE @ - 1]

(* The shared state (setState).  The first one opens the wizard of the     *)
(* Config tab and asks the parent to bring it to the front.                *)
IsWizard(t) == wizard /\ Titles[t] = "Config"
Stated(p, t) == IF IsWizard(t) THEN [p EXCEPT !.stack = Pushed(@, "form"), !.asking = TRUE] ELSE p
ToFront(T) ==
  IF \E t \in T : IsWizard(t) THEN {[what |-> "open", title |-> "Config", id |-> 0]} ELSE {}

Request(what, t, yes) == [what |-> what, tab |-> t, id |-> Len(sent) + 1, yes |-> yes]

-----------------------------------------------------------------------------
(* The parent. *)

(* tabset.Next; no tab is disabled in this version.                        *)
NextTab(i, step) == ((i - 1 + step) % Len(Titles)) + 1

IndexOfTitle(title) == CHOOSE t \in Tab : Titles[t] = title

(* activate: the tab that is left is told, then the one that comes, which  *)
(* is given the shared state.                                              *)
Activate(i, left) ==
  IF i = active
  THEN ways' = left /\ UNCHANGED <<active, page, wizard>>
  ELSE /\ active' = i
       /\ page' = [page EXCEPT ![active] = Told(@, "deactivate"),
                               ![i] = Stated(Told(@, "activate"), i)]
       /\ wizard' = (wizard /\ ~IsWizard(i))
       /\ ways' = left \cup ToFront({i})

(* tabset.ActivateOnce                                                     *)
ActivateOnce(t) == t = active /\ ~activated

Distribute ==
  /\ phase # "over"
  /\ page' = [t \in Tab |->
                Stated(IF ActivateOnce(t) THEN Told(page[t], "activate") ELSE page[t], t)]
  /\ activated' = TRUE /\ wizard' = FALSE
  /\ ways' = ways \cup ToFront(Tab)
  /\ UNCHANGED <<active, phase, works, sent, got, typed>>

(* quit: every page is told, and what that takes is done before the end.   *)
Quit(left) ==
  /\ page' = [t \in Tab |-> Told(page[t], "shutdown")]
  /\ phase' = "ending"
  /\ ways' = left
  /\ UNCHANGED <<active, activated, wizard, works, sent, got>>

Ends == phase = "ending" /\ phase' = "over"
        /\ UNCHANGED <<active, activated, page, wizard, works, ways, sent, got, typed>>

(* A key that a page gave back (handleGlobalKey).                          *)
GlobalKey(m) ==
  /\ m.what = "key"
  /\ UNCHANGED typed
  /\ \/ m.key = "quit" /\ Quit(ways \ {m})
     \/ /\ \/ m.key = "next" /\ Activate(NextTab(active, 1), ways \ {m})
           \/ m.key = "first" /\ Activate(1, ways \ {m})
        /\ UNCHANGED <<activated, phase, works, sent, got>>

(* openTab: the errand is delivered although the tab is there already.     *)
OpenTab(m) ==
  LET t == IndexOfTitle(m.title)
  IN /\ m.what = "open"
     /\ Activate(t, ways \ {m})
     /\ got' = IF m.id = 0 \/ ~Receives(page[t], "errand") THEN got
               ELSE got \cup {[id |-> m.id, tab |-> t]}
     /\ UNCHANGED <<activated, phase, works, sent, typed>>

-----------------------------------------------------------------------------
(* What comes back to a page. *)

(* A mistake: to the tab that happens to be in front.                      *)
AddresseeInFront(m) == active

(* App.Update, page.TabMsg                                                 *)
Addressee(m) == m.tab

(* The page hears an answer while its question is open, and starts the     *)
(* work; what it has no case for goes to the modal on top and is dropped.  *)
Answered(t, m) ==
  /\ page' = [page EXCEPT ![t].asking = FALSE, ![t].stack = Closed(@)]
  /\ IF m.yes THEN /\ works' = works \cup {Request("done", t, TRUE)} /\ sent' = Append(sent, t)
              ELSE UNCHANGED <<works, sent>>

Deliver(m) ==
  LET t == Addressee(m)
  IN /\ m.what \in {"result", "done"}
     /\ ways' = ways \ {m}
     /\ got' = IF Receives(page[t], m.what) THEN got \cup {[id |-> m.id, tab |-> t]} ELSE got
     /\ IF m.what = "result" /\ Receives(page[t], m.what) /\ page[t].asking
        THEN Answered(t, m)
        ELSE UNCHANGED <<page, works, sent>>
     /\ UNCHANGED <<active, activated, phase, wizard, typed>>

WorkEnds(w) ==
  /\ works' = works \ {w} /\ ways' = ways \cup {w}
  /\ UNCHANGED <<shellVars, sent, got, typed>>

-----------------------------------------------------------------------------
(* A key (App.handleKey, then handleKey of the page in front).             *)

Bubbled(k) == [what |-> "key", key |-> k, n |-> typed + 1]

Errand(title) == [what |-> "open", title |-> title, id |-> Len(sent) + 1]

(* With a filter being typed or a modal open no key is given back.         *)
Confined(k) ==
  LET p == page[active]
  IN /\ p.typing \/ p.stack # <<>>
     /\ IF p.typing
        THEN /\ page' = [page EXCEPT ![active].typing = k \notin {"esc", "enter"}]
             /\ UNCHANGED <<ways, sent>>
        ELSE IF TopOf(p.stack) = "help"
        THEN /\ page' = IF k = "esc" THEN [page EXCEPT ![active].stack = Closed(@)] ELSE page
             /\ UNCHANGED <<ways, sent>>
        ELSE /\ k \in {"esc", "enter"}
             /\ ways' = ways \cup {Request("result", active, k = "enter")}
             /\ sent' = Append(sent, active)
             /\ UNCHANGED page

(* Its own keys: help, an operation that is asked about, the filter, an    *)
(* errand for another tab.                                                 *)
OwnKey(k) ==
  /\ ~page[active].typing /\ page[active].stack = <<>>
  /\ \/ /\ k \in {"help", "op", "filter"}
        /\ LET p == page[active]
           IN page' = [page EXCEPT ![active] =
                [p EXCEPT !.typing = (k = "filter"),
                          !.asking = @ \/ k = "op",
                          !.stack = IF k = "filter" THEN @
                                    ELSE Pushed(@, IF k = "op" THEN "ask" ELSE k)]]
        /\ UNCHANGED <<ways, sent>>
     \/ /\ k = "logs" /\ Titles[active] = "Runners"
        /\ ways' = ways \cup {Errand("Logs")}
        /\ sent' = Append(sent, IndexOfTitle("Logs"))
        /\ UNCHANGED page
     \/ /\ k = "esc" /\ Titles[active] = "Config"
        /\ ways' = ways \cup {[what |-> "open", title |-> "Runners", id |-> 0]}
        /\ UNCHANGED <<page, sent>>

GivenBack(k) ==
  /\ ~page[active].typing /\ page[active].stack = <<>> /\ k \in {"quit", "next", "first"}
  /\ ways' = ways \cup {Bubbled(k)}
  /\ UNCHANGED <<page, sent>>

Key == {"help", "op", "filter", "logs", "esc", "enter", "quit", "next", "first"}

KeyPressed(k) ==
  /\ phase # "over" /\ typed < MaxTyped /\ (activated \/ Early)
  /\ typed' = typed + 1
  /\ Confined(k) \/ OwnKey(k) \/ GivenBack(k)
  /\ UNCHANGED <<active, activated, phase, wizard, works, got>>

Interrupt ==
  /\ phase # "over" /\ typed < MaxTyped /\ typed' = typed + 1
  /\ Quit(ways)

ShellNext ==
  \/ Distribute \/ Interrupt \/ Ends
  \/ \E k \in Key : KeyPressed(k)
  \/ \E w \in works : WorkEnds(w)
  \/ phase # "over" /\ \E m \in ways : GlobalKey(m) \/ OpenTab(m) \/ Deliver(m)

ShellSpec == ShellInit /\ [][ShellNext]_allVars

-----------------------------------------------------------------------------
(* Until the program is told to end, the page in front has been told so    *)
(* once more than it was told the opposite, and no other page has: a page  *)
(* that subscribes when it is told and unsubscribes when it is told the    *)
(* opposite has one subscription in front and none behind, whatever modal  *)
(* was open and however quickly the tabs were changed (comment of          *)
(* ActivateMsg, page/lifecycle.go).                                        *)
ActivationsBalance ==
  phase = "on" =>
    /\ \A t \in Tab : page[t].told <= IF t = active THEN 1 ELSE 0
    /\ activated => page[active].told = 1

(* A decision, the end of a job and an errand each reach the page they are *)
(* for, though another tab may be in front and any modal open when they    *)
(* come (comments of TabMsg, ModalMsg, Overlay.Handles).                   *)
NothingLost ==
  \A i \in DOMAIN sent :
    \/ [id |-> i, tab |-> sent[i]] \in got
    \/ \E m \in ways \cup works : m.what \in {"result", "done", "open"} /\ m.id = i
=============================================================================
