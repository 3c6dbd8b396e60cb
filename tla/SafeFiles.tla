----------------------------- MODULE SafeFiles -----------------------------
(***************************************************************************)
(* What saving promises for a set of files: a file changes only in one     *)
(* step, to a whole one of the same owner, after what it held was kept     *)
(* beside it; links and the like are not replaced; and after a loss of     *)
(* power everything is as it was at some earlier moment.                   *)
(***************************************************************************)
CONSTANTS
  File,
  Whole,          (* what a whole file can be: text and owner.             *)
  Foreign,        (* those of them written by others.                      *)
  Missing, Odd,   (* no file; something that is not a regular file.        *)
  Inherits(_, _)  (* whether a new file has the owner of what it replaces. *)

VARIABLES
  live,           (* what each file and its backup is.                     *)
  disk            (* the same, as a loss of power would leave it.          *)

Entry == Whole \cup {Missing, Odd}

Init == live \in [File -> [path : Entry, bak : Entry]] /\ disk = live

KeepCopy(f) ==
  /\ live[f].path \in Whole /\ live[f].bak # Odd
  /\ live' = [live EXCEPT ![f].bak = live[f].path]
  /\ UNCHANGED disk

Replace(f, w) ==
  /\ live[f].path # Odd /\ Inherits(w, live[f].path)
  /\ live[f].path # Missing => live[f].bak = live[f].path
  /\ live' = [live EXCEPT ![f].path = w]
  /\ UNCHANGED disk

(* Somebody else edits the file.                                           *)
Edit(f, w) ==
  /\ live[f].path \in Whole
  /\ live' = [live EXCEPT ![f].path = w]
  /\ UNCHANGED disk

Reaches == disk' = live /\ UNCHANGED live
Lose    == live' = disk /\ UNCHANGED disk

Next == \/ \E f \in File : \/ KeepCopy(f)
                           \/ \E w \in Whole : Replace(f, w)
                           \/ \E w \in Foreign : Edit(f, w)
        \/ Reaches \/ Lose

Spec == Init /\ [][Next]_<<live, disk>>
=============================================================================
