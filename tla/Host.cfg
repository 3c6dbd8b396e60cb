SPECIFICATION MCSpec
CONSTANTS
  Cmds = {c1, c2}
  MaxRotations = 2
  Inputs <- MCInputs
  Known = {"s"}
  Dirs = {1, 2}
  Units = {1, 2}
  DirStates <- MCDir
  UnitStates <- MCUnit
  ProcLists <- MCProcs
  Runners = {n1, u1}
  Numeric = {u1}
  MaxRepairs = 4
  Rows <- MCRows
  MaxChanges = 3
  MaxKeys = 4
INVARIANTS CutOffKillsAll EveryRunTold MaskedForGood AttachedRightly GreenIsOneUnit GreenJobsRun DetailIsCurrent
SYMMETRY MCSymmetry
CHECK_DEADLOCK FALSE
