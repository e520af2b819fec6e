SPECIFICATION Spec
CONSTANTS
  p1 = p1
  p2 = p2
  weth = weth
  Positions <- MCPositions
  Collaterals <- MCCollaterals
  MinCluster = 2
  Window = 1
  MinSeverity = "HIGH"
  MaxSent = 2
  MaxTime = 2
SYMMETRY Symmetry
CONSTRAINT FewAlerts
INVARIANTS
  TypeOK
  CooldownRespected
  NoUnannouncedRisk
PROPERTIES
  ZoneNeverSilent
  KeepsPromise
