(* A log that is read while it is being written.                          *)
CONSTANTS
  Logs <- MCLogs
  MaxWorkers = 2
  MaxAtOnce = 1
  MaxTries = 2
SPECIFICATION JobsSpec
INVARIANTS DirectoryIsTheJobs
CHECK_DEADLOCK FALSE
