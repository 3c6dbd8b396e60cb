(* A drain of two runners ends although new jobs may begin meanwhile, and  *)
(* whatever else the user starts; the Config tab does not stay busy though *)
(* the user leaves and comes back while a job is in flight.                *)
CONSTANTS
  r1 = r1
  r2 = r2
  Nobody = Nobody
  Runners <- MCRunners
  HasUnit <- MCRunners
  Unmanaged <- MCNone
  AtBoot <- MCRunners
  Selections <- MCBoth
  Ops = {"drain", "enable"}
  Root = TRUE
  Systemd = TRUE
  FastTyping = FALSE
  MaxJobs = 1
  MaxKeys = 2
SPECIFICATION FairSpec
PROPERTIES DrainEnds BusyEnds
CHECK_DEADLOCK FALSE
