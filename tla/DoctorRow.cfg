SPECIFICATION DoctorSpec
CONSTANTS
  Rows <- MCRows
  MaxChanges = 3
  MaxKeys = 4
INVARIANTS DetailKeepsRow
CHECK_DEADLOCK FALSE
