SPECIFICATION FairSpec
CONSTANTS
  runners = runners
  logs = logs
  dr = dr
  Tabs <- MCTabs
  DoctorTab = dr
  HasToken = TRUE
  Populated <- MCPopulated
  MaxGen = 2
  MaxScan = 3
  MaxWalk = 2
  MaxCheck = 2
  MaxCfg = 2
INVARIANTS NoOverlap BusyIsBacked SameStateEverywhere
PROPERTIES ListNeverOlder RefreshNeverStops
