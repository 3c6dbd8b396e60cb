-------------------------------- MODULE Mask --------------------------------
(***************************************************************************)
(* What the audit log and the preview keep of an argument list (exec/mask).*)
(* An argument is a number of hyphens (some or none) and a sequence of     *)
(* words with ":" and "=" between them.                                    *)
(***************************************************************************)
EXTENDS Naturals, Sequences, SequencesExt

CONSTANTS
  Inputs,         (* lists of arguments.                                   *)
  Known           (* words that are secrets of the provider, 8 bytes or more. *)

VARIABLE args
maskVars == <<args>>

Stars == "***"
Seps == {":", "="}

ASSUME MaskAssumption ==
  /\ Inputs \subseteq Seq([dash : BOOLEAN, t : Seq(STRING)])
  /\ Known \subseteq STRING \ (Seps \cup {Stars})

MaskInit == args \in Inputs

(* isSecretKey: a whole name, or a part of one ("auth" stands for them).   *)
IsSecretKey(t) == t = <<"token">> \/ "auth" \in ToSet(t)
IsHeaderKey(t) == t = <<"h">>

(* optionName: hyphens and a name, nothing attached.                       *)
IsOption(a) == a.dash /\ a.t # <<>> /\ ToSet(a.t) \cap (Seps \cup {Stars}) = {}

(* The place of the first c, and what is before and after it.              *)
At(t, c) == SelectInSeq(t, LAMBDA x : x = c)
Before(t, c) == SubSeq(t, 1, At(t, c) - 1)
After(t, c) == SubSeq(t, At(t, c) + 1, Len(t))

(* maskHeader: "Name: value".                                              *)
MaskHeader(t) ==
  IF At(t, ":") # 0 /\ IsSecretKey(Before(t, ":"))
  THEN Before(t, ":") \o <<":", Stars>> ELSE t

(* maskInline: KEY=VALUE.                                                  *)
MaskInline(t) ==
  LET key == Before(t, "=") val == After(t, "=")
  IN IF IsHeaderKey(key) THEN key \o <<"=">> \o MaskHeader(val)
     ELSE IF IsSecretKey(key) THEN key \o <<"=", Stars>>
     ELSE t

(* maskElement: a ":" before the first "=" makes it a header if it can be. *)
MaskElement(t) ==
  IF At(t, "=") = 0 THEN MaskHeader(t)
  ELSE IF At(Before(t, "="), ":") # 0 /\ MaskHeader(t) # t THEN MaskHeader(t)
  ELSE MaskInline(t)

NextOf(raw, masked) == raw
(* What the second pass of byKey masks further.                            *)
Reread(raw, masked) == masked

(* byKey: each argument by itself, then the one after an option's name.    *)
ByKey(as) ==
  [i \in DOMAIN as |->
    LET one == [as[i] EXCEPT !.t = MaskElement(@)]
    IN IF i > 1 /\ IsOption(as[i - 1])
       THEN IF IsHeaderKey(as[i - 1].t)
            THEN [one EXCEPT !.t = MaskHeader(Reread(as[i].t, @))]
            ELSE IF IsSecretKey(as[i - 1].t) THEN [dash |-> FALSE, t |-> <<Stars>>]
            ELSE one
       ELSE one]

(* byValue *)
ByValue(as) ==
  [i \in DOMAIN as |->
    [as[i] EXCEPT !.t = [k \in DOMAIN @ |-> IF @[k] \in Known THEN Stars ELSE @[k]]]]

Args(as) == ByValue(ByKey(as))

(* The record is masked, and what was masked may be masked again.          *)
MaskNext == args' = Args(args)

MaskSpec == MaskInit /\ [][MaskNext]_maskVars

-----------------------------------------------------------------------------
(* What follows the name of a secret in the form of an option, a field or  *)
(* a header is hidden, and so is a secret the tool holds, wherever it is;  *)
(* masking what is masked changes nothing, and what has no secret in it    *)
(* stays readable (comments of Args, byKey and maskElement).               *)
Decides(t) == {At(t, "=")} \cup (IF At(t, "=") = 0 \/ At(t, ":") < At(t, "=")
                                 THEN {At(t, ":")} ELSE {})
Leaks(a) ==
  \E k \in Decides(a.t) \ {0} :
    IsSecretKey(SubSeq(a.t, 1, k - 1)) /\ SubSeq(a.t, k + 1, Len(a.t)) # <<Stars>>

Secretless(a) == ToSet(a.t) \cap (Known \cup {"token", "auth"}) = {}

MaskedForGood ==
  LET out == Args(args)
  IN /\ Args(out) = out
     /\ \A i \in DOMAIN out : ~Leaks(out[i])
     /\ \A i \in DOMAIN out : ToSet(out[i].t) \cap Known = {}
     /\ \A i \in DOMAIN args \ {1} :
          IsOption(args[i - 1]) /\ IsSecretKey(args[i - 1].t) => out[i].t = <<Stars>>
     /\ (\A i \in DOMAIN args : Secretless(args[i])) => out = args
=============================================================================
