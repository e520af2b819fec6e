SPECIFICATION FairSpec
CONSTANTS
  p1 = p1
  weth = weth
  Readers <- MCReaders
  Collaterals <- MCCollaterals
  MinCluster = 1
  Window = 1
  MinSeverity = "CRITICAL"
  MaxTime = 1
  MarketTiers = {"SAFE", "CRITICAL"}
  MaxBlock = 1
  MaxFaults = 2
INVARIANTS
  TypeOK
PROPERTIES
  NoAlertWithoutRecord
  KeepsPath
  PollingSurvives
  CriticalIsAnnounced
  StopCompletes
CHECK_DEADLOCK FALSE
