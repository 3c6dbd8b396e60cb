SPECIFICATION Spec
CONSTANTS
  MaxShown = 2
  Buffer = 1
  Window = 2
  Retries = 1
  Calm = TRUE
  MaxLines = 3
  MaxJournal = 1
  MaxFiles = 2
  MaxGen = 2
INVARIANTS ShownInOrder FollowsToEnd StoppedEnds
CHECK_DEADLOCK FALSE
