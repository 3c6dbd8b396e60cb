(* A drain whose stop is given up after 30 seconds. *)
CONSTANTS
  r1 = r1
  r2 = r2
  Nobody = Nobody
  Runners <- MCOneRunner
  HasUnit <- MCOneRunner
  Kinds = {"env"}
  Repeated = {}
  Leaves = FALSE
  MaxChanges = 1
  MaxJobs = 0
SPECIFICATION Spec
PROPERTIES
  StoppedOnlyToStart
