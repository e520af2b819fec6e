SPECIFICATION Spec
CONSTANTS
  Ids <- MCIds
  Pools = {"pool"}
  LegsOf <- MCLegsOf
  Underlying <- MCUnderlying
  Symbol <- MCSymbol
  MaxPositions = 0
  MaxOthers = 1
  CollCredits = {1, 2}
  DebtCredits = {1, 2}
CONSTRAINT OneVaries
INVARIANTS
  NeverMissed
  NoTwins
  HealthInBetween
  OneLabelPerPool
