------------------------------ MODULE MCDiskTab ------------------------------
(* Two runners with a work directory, the logs of one, and docker.          *)
EXTENDS DiskTab

MCBaseOf(t) == IF t \in {"work1", "diag1"} THEN "r1" ELSE "r2"
MCKindOf(t) == IF t = "docker" THEN "docker" ELSE IF t = "diag1" THEN "diag" ELSE "work"
MCLabelOf(t) == t
=============================================================================
