---------------------------- MODULE MCDoctorTab ----------------------------
(* Values for the constants of DoctorTab: a check that gives a row for     *)
(* each runner and one that gives a row for each endpoint.                 *)
EXTENDS DoctorTab

Row(c, t, n) == [id |-> c, target |-> t, item |-> n]
MCRows == <<Row("net.reach", "", "github"), Row("net.reach", "", "api"),
            Row("job.sudo", "r1", ""), Row("job.sudo", "r2", "")>>
=============================================================================
