SPECIFICATION MCSpec
CONSTANTS
  r1 = r1
  r2 = r2
  Nobody = Nobody
  Runners <- MCRunners
  HasUnit <- MCRunners
  MaxJobs = 0
  Kinds = {"dropin", "copy", "labels"}
  Repeated = {"decided"}
  Leaves = FALSE
  MaxChanges = 2
  File = {env1, env2}
  Text = {t1, t2}
  Elsewhere = {x}
  Owner = {root600, root644, user600}
  Private = root600
  Fresh = root644
  Missing = missing
  Odd = odd
  Torn = torn
  Empty = empty
  MaxSaves = 2
  Names <- MCNames
  Archives <- MCArchives
  Lives <- MCLives
  Keep = {"_work"}
  MaxRuns = 2
INVARIANTS BusyIsOneJob RestartsOnlyWritten AppliedIsLoaded BackupKeepsPrevious LiveWhole UnpacksCleanly
PROPERTIES SavesSafely
CHECK_DEADLOCK FALSE
