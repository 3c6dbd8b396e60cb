------------------------------ MODULE Overlay ------------------------------
(***************************************************************************)
(* The stack of modals of a tab (ui/page/overlay.go): only the one on top  *)
(* gets keys, each kind is open at most once.                              *)
(***************************************************************************)
EXTENDS Naturals, Sequences

(* Overlay.top *)
TopOf(stack) == IF stack = <<>> THEN "none" ELSE stack[Len(stack)]

(* Overlay.Open, push: a kind already open is moved to the top; it is in   *)
(* one place, for nothing else puts a kind on the stack.                   *)
Pushed(stack, kind) ==
  LET at == {i \in DOMAIN stack : stack[i] = kind}
      i  == CHOOSE i \in at : TRUE
  IN IF at = {} THEN Append(stack, kind)
     ELSE Append(SubSeq(stack, 1, i - 1) \o SubSeq(stack, i + 1, Len(stack)), kind)

(* Overlay.Close: one modal, the one on top, whichever it is. *)
Closed(stack) ==
  IF stack = <<>> THEN stack ELSE SubSeq(stack, 1, Len(stack) - 1)

=============================================================================
