(* Two runners of systemd that may have a job, the list with both marked   *)
(* and the detail screen; keys wait for the answer to the last one.        *)
CONSTANTS
  r1 = r1
  r2 = r2
  Runners <- MCRunners
  HasUnit <- MCRunners
  Unmanaged <- MCNone
  AtBoot <- MCFirst
  Selections <- MCBoth
  Ops = {"drain", "stop", "kill"}
  Root = TRUE
  Systemd = TRUE
  FastTyping = FALSE
  MaxJobs = 1
  MaxKeys = 3
  Rows <- MCFound
  Lists <- MCLists
  Units <- MCUnits
  Blocked <- MCBlocked
  Titles <- MCTitles
  Early = FALSE
  MaxTyped = 5
  Logs <- MCLogs
  MaxWorkers = 2
  MaxAtOnce = 1
  MaxTries = 2
  OtherKeys = {"x"}
  Vals = {"", "u", "v"}
  FormKeys <- MCKeys
  MaxDiff = 4
  MaxLines = 3
  MaxEdits = 2
SPECIFICATION MCSpec
INVARIANTS ActivationsBalance NothingLost NoOrphanWait JobsLostOnlyByConsent RowShowsItsJob DiffShowsChange
PROPERTIES SameTargets EditsOnlyAsked
CHECK_DEADLOCK FALSE
