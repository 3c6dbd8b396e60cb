(* The user leaves the runner he changes while the change is written.      *)
CONSTANTS
  r1 = r1
  r2 = r2
  Nobody = Nobody
  Runners <- MCRunners
  HasUnit <- MCRunners
  Kinds = {"env"}
  Repeated = {}
  Leaves = TRUE
  MaxChanges = 1
  MaxJobs = 0
SPECIFICATION Spec
INVARIANTS
  RestartsOnlyWritten
CHECK_DEADLOCK FALSE
