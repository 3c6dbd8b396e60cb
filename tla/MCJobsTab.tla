---------------------------- MODULE MCJobsTab ----------------------------
(* Values for the constants of JobsTab: a job that checks one repository   *)
(* out, one that checks out two, one that checks out none, one that dies.  *)
EXTENDS JobsTab

MCLogs == {<<"header", "message", "cwd", "mapping", "update", "cwd">>,
           <<"header", "message", "cwd", "multi", "mapping", "update">>,
           <<"header", "message", "cwd">>, <<"header">>}
=============================================================================
