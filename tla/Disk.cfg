SPECIFICATION FairSpec
CONSTANTS
  Runner = {"r1", "r2"}
  Target = {"work1", "docker"}
  BaseOf <- MCBaseOf
  KindOf <- MCKindOf
  LabelOf <- MCLabelOf
  Hasty = FALSE
  MaxWork = 1
  MaxGen = 2
  MaxCleans = 1
INVARIANTS ReportTrue
PROPERTIES SparesSeenJobs ScannersEnd
CHECK_DEADLOCK FALSE
