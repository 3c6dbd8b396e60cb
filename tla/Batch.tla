------------------------------- MODULE Batch -------------------------------
(***************************************************************************)
(* What a batch over several units promises (FR-15): the units are dealt   *)
(* with one after the other, what succeeded stays, the first failure stops *)
(* the batch, and the units behind it are left alone.  The runs of the     *)
(* Setup tab implement it.                                                 *)
(***************************************************************************)
EXTENDS Sequences

VARIABLES
  todo,            (* units not begun, or in work: the head.               *)
  done,            (* units dealt with, in order.                          *)
  bad,             (* units that failed, in order.                         *)
  phase            (* idle | running | over.                               *)

vars == <<todo, done, bad, phase>>

Init == todo = <<>> /\ done = <<>> /\ bad = <<>> /\ phase = "idle"

Begin ==
  /\ phase # "running"
  /\ phase' = "running"
  /\ todo' # <<>>
  /\ done' = <<>> /\ bad' = <<>>

Succeed ==
  /\ phase = "running" /\ todo # <<>>
  /\ done' = Append(done, Head(todo))
  /\ todo' = Tail(todo)
  /\ UNCHANGED <<bad, phase>>

Fail ==
  /\ phase = "running" /\ todo # <<>>
  /\ bad' = Append(bad, Head(todo))
  /\ todo' = Tail(todo)
  /\ phase' = "over"
  /\ UNCHANGED done

(* The batch is finished, or was given up between two units.               *)
Finish ==
  /\ phase = "running"
  /\ phase' = "over"
  /\ UNCHANGED <<todo, done, bad>>

Next == Begin \/ Succeed \/ Fail \/ Finish

Spec == Init /\ [][Next]_vars

=============================================================================
