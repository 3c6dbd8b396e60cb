---------------------------- MODULE RunnerTable ----------------------------
(***************************************************************************)
(* The list of the Runners tab (ui/page/runners) and the table it is made  *)
(* of (ui/organism/table): a section of runners, which can be marked and   *)
(* filtered, above one of orphan units, with one cursor over both.  Every  *)
(* detection replaces the rows.  The table is a value, as in the code: an  *)
(* operator takes one and returns the next.  A row is its identifier, and  *)
(* a text to filter by is the set of runners it matches.                   *)
(***************************************************************************)
EXTENDS Naturals, Sequences, SequencesExt, FiniteSetsExt

CONSTANTS
  Rows,      (* the runners there may be.                                  *)
  Lists,     (* the lists of runners a detection may give, in its order.   *)
  Units,     (* the lists of orphan units.                                 *)
  Blocked    (* runners the Setup tab cannot take now (action.Allow).      *)

NoRow == "no row"

ASSUME RunnerTableAssumption ==
  Lists \subseteq Seq(Rows) /\ Units \subseteq Seq(STRING) /\ NoRow \notin Rows

VARIABLES
  tbl,       (* Model.tbl.                                                 *)
  asked,     (* what the last key handed to an operation or a tab.         *)
  going,     (* operations that will report that they are done.            *)
  notice     (* Model.notice is not empty.                                 *)

listVars == <<tbl, asked, going, notice>>

Sections == 1 .. 2          (* SectionRunners, SectionOrphans. *)
Nothing == [kind |-> "none", to |-> <<>>]

-----------------------------------------------------------------------------
(* The table. *)

(* Those of the rows that are in S, in their order.                        *)
Among(rows, S) ==
  LET some[n \in 0 .. Len(rows)] ==
        IF n = 0 THEN <<>>
        ELSE IF rows[n] \in S THEN Append(some[n - 1], rows[n]) ELSE some[n - 1]
  IN some[Len(rows)]

Shown(t, s) == IF s = 2 THEN t.items[2] ELSE Among(t.items[1], t.query)
Selected(t) == IF t.cur[t.focus] = 0 THEN NoRow ELSE Shown(t, t.focus)[t.cur[t.focus]]
Checked(t)  == Among(t.items[1], t.checked)

(* A cursor is 0 without rows, and never past the last one.                *)
Fit(t, s, c) == LET n == Len(Shown(t, s)) IN Min({n, Max({c, 1})})
Refresh(t) == [t EXCEPT !.cur = [s \in Sections |-> Fit(t, s, @[s])]]
SetFocus(t, s, c) == [t EXCEPT !.focus = s, !.cur[s] = Fit(t, s, c)]

(* A mistake: the cursor keeps its place, not its row.                    *)
RestoredByPlace(t, row) == t.cur[t.focus]

(* Where the row is now that the cursor was on; the first one without it.  *)
Restored(t, row) ==
  LET at == {i \in DOMAIN Shown(t, t.focus) : Shown(t, t.focus)[i] = row}
  IN  IF row = NoRow THEN t.cur[t.focus] ELSE IF at = {} THEN 1 ELSE Min(at)

NormalizeFocus(t, row) ==
  LET visible == {s \in Sections : Shown(t, s) # <<>>}
  IN  IF t.focus \in visible THEN SetFocus(t, t.focus, Restored(t, row))
      ELSE SetFocus(t, Min(visible \cup {IF visible = {} THEN 1 ELSE 2}), 1)

(* A mistake: the marks of rows that are gone are kept.                   *)
NeverPruned(t) == t

Pruned(t) == [t EXCEPT !.checked = @ \cap Range(t.items[1])]

SetItems(t, s, rows) == NormalizeFocus(Refresh(Pruned([t EXCEPT !.items[s] = rows])), Selected(t))
SetFilter(t, q) == NormalizeFocus(Refresh([t EXCEPT !.query = q]), Selected(t))
ClearFilter(t) == SetFilter(t, Rows)
ClearSelection(t) == [t EXCEPT !.checked = {}]
StopFiltering(t, cancel) ==
  [SetFilter(t, IF cancel THEN Rows ELSE t.query) EXCEPT !.filtering = FALSE]

ToggleChecked(t) ==
  IF t.focus = 2 \/ Selected(t) = NoRow THEN t
  ELSE [t EXCEPT !.checked = (@ \ {Selected(t)}) \cup ({Selected(t)} \ @)]
CheckAll(t) == [t EXCEPT !.checked = @ \cup Range(Shown(t, 1))]

(* j and k: past the edge of a section to the next one that has rows.      *)
CrossDown(t) == SetFocus(t, 2, 1)
CrossUp(t)   == SetFocus(t, 1, Len(Shown(t, 1)))
Down(t) == IF t.focus = 1 /\ t.cur[1] >= Len(Shown(t, 1)) /\ Shown(t, 2) # <<>>
           THEN CrossDown(t) ELSE SetFocus(t, t.focus, t.cur[t.focus] + 1)
Up(t) == IF t.focus = 2 /\ t.cur[2] <= 1 /\ Shown(t, 1) # <<>>
         THEN CrossUp(t) ELSE SetFocus(t, t.focus, Max({t.cur[t.focus], 1}) - 1)
GotoEdge(t, top) ==
  LET visible == {s \in Sections : Shown(t, s) # <<>>}
      s == IF top THEN Min(visible) ELSE Max(visible)
  IN  IF visible = {} THEN t ELSE SetFocus(t, s, IF top THEN 1 ELSE Len(Shown(t, s)))

-----------------------------------------------------------------------------
(* The page. *)

ListInit ==
  /\ tbl = [items |-> <<<<>>, <<>>>>, focus |-> 1, cur |-> <<0, 0>>, checked |-> {},
            query |-> Rows, filtering |-> FALSE]
  /\ asked = Nothing /\ going = FALSE /\ notice = FALSE

(* setState *)
Refreshes ==
  /\ \E l \in Lists, u \in Units : tbl' = SetItems(SetItems(tbl, 1, l), 2, u)
  /\ asked' = Nothing /\ UNCHANGED <<going, notice>>

(* An operation on what is marked, or else on the row of the cursor.       *)
Cursor(t) == IF t.focus = 2 \/ Selected(t) = NoRow THEN <<>> ELSE <<Selected(t)>>
Targets(t) == IF Checked(t) # <<>> THEN Checked(t) ELSE Cursor(t)

(* handleOps: the operation is done.                                       *)
OnListDone ==
  /\ going
  /\ tbl' = ClearSelection(tbl) /\ going' = FALSE /\ asked' = Nothing
  /\ UNCHANGED notice

(* updateFiltering: every other key edits the text.                        *)
FilterKey ==
  /\ tbl.filtering
  /\ \/ \E q \in SUBSET Rows : tbl' = SetFilter(tbl, q)
     \/ \E cancel \in BOOLEAN : tbl' = StopFiltering(tbl, cancel)
  /\ notice' = FALSE /\ asked' = Nothing /\ UNCHANGED going

TableKey ==
  /\ ~tbl.filtering
  /\ \/ tbl' = [tbl EXCEPT !.filtering = TRUE]
     \/ tbl' = ToggleChecked(tbl)
     \/ tbl' = CheckAll(tbl)
     \/ tbl' = Down(tbl)
     \/ tbl' = Up(tbl)
     \/ \E top \in BOOLEAN : tbl' = GotoEdge(tbl, top)
  /\ notice' = FALSE /\ asked' = Nothing /\ UNCHANGED going

(* esc: first the marks, then the filter.                                  *)
Back ==
  /\ ~tbl.filtering
  /\ tbl' = IF Checked(tbl) # <<>> THEN ClearSelection(tbl) ELSE ClearFilter(tbl)
  /\ notice' = FALSE /\ asked' = Nothing /\ UNCHANGED going

(* openDetail, openLogs *)
OpenOne(kind) ==
  /\ ~tbl.filtering
  /\ asked' = IF Cursor(tbl) = <<>> THEN Nothing ELSE [kind |-> kind, to |-> Cursor(tbl)]
  /\ notice' = FALSE /\ UNCHANGED <<tbl, going>>

Operate ==
  /\ ~tbl.filtering
  /\ asked' = [kind |-> "operation", to |-> Targets(tbl)]
  /\ going' = (going \/ Targets(tbl) # <<>>)
  /\ notice' = FALSE /\ UNCHANGED tbl

(* openSetup: to add needs no target, to remove or update does.            *)
OpenSetup(adds) ==
  LET to == IF adds THEN <<>> ELSE Targets(tbl)
  IN  /\ ~tbl.filtering
      /\ IF (~adds /\ to = <<>>) \/ Range(to) \cap Blocked # {}
         THEN notice' = TRUE /\ asked' = Nothing
         ELSE notice' = FALSE /\ asked' = [kind |-> "setup", to |-> to]
      /\ UNCHANGED <<tbl, going>>

ListNext ==
  \/ Refreshes \/ OnListDone
  \/ FilterKey \/ TableKey \/ Back \/ Operate
  \/ \E kind \in {"detail", "logs"} : OpenOne(kind)
  \/ \E adds \in BOOLEAN : OpenSetup(adds)

ListSpec == ListInit /\ [][ListNext]_listVars

-----------------------------------------------------------------------------
(* A new list of runners does not turn an operation to other runners while *)
(* one of those it would have met is still in the list (and, if it is the  *)
(* one under the cursor, still passes the filter): rows that come or go    *)
(* above the cursor, and a runner that was missed for a while and is back, *)
(* change nothing (normalizeFocus, pruneChecked).                          *)
Kept == Range(Targets(tbl)) \cap Range(tbl'.items[1])
                            \cap (IF Checked(tbl) # <<>> THEN Rows ELSE tbl.query)
SameTargets == [][tbl'.items # tbl.items => Kept = {} \/ Range(Targets(tbl')) = Kept]_listVars
=============================================================================
