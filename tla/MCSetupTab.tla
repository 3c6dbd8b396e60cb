----------------------------- MODULE MCSetupTab -----------------------------
(* Instances of SetupTab: two runners that exist and one that may be added, *)
(* registered somewhere else.                                              *)
EXTENDS SetupTab

MCSelections == {<<1, 2>>}
MCScopeOf(i) == IF i = 3 THEN "repo" ELSE "org"

=============================================================================
