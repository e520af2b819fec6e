SPECIFICATION BookSpec
CONSTANTS
  PositionIds = {p1, p2, p3, p4}
  Symbols = {WETH, UNKNOWN}
  AtRiskHf = 115
  MinClusterSize = 2
  Readings <- MCReadings
SYMMETRY Symmetry
INVARIANTS
  WithinAlertPath
PROPERTIES
  WorseningBarelyCalms
