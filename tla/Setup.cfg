SPECIFICATION FairSpec
CONSTANTS
  MaxId = 3
  Existing = {1, 2}
  WithUnit = {1, 2}
  Scopes = {"repo"}
  ScopeOf <- MCScopeOf
  Lifetime = 2
  MaxWork = 1
  Kinds = {"add", "remove", "update"}
  Selections <- MCSelections
  Hasty = FALSE
  MaxKeys = 4
  MaxSeq = 4
INVARIANTS ApprovedRunsAlone DownOnlyWhereItFailed TokenFits
PROPERTIES RunIsBatch RunEnds
CHECK_DEADLOCK FALSE
