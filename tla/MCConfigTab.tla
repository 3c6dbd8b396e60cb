---------------------------- MODULE MCConfigTab ----------------------------
(* Values for the constants of ConfigTab. *)
EXTENDS ConfigTab

CONSTANTS r1, r2

MCOneRunner == {r1}
MCRunners   == {r1, r2}

=============================================================================
