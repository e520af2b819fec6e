SPECIFICATION Spec
CONSTANTS
  agent = agent
  other = other
  meth = meth
  usdc = usdc
  Agent = agent
  Callers <- MCCallers
  Hashes <- MCHashes
  OutcomeWindow = 2
  MaxBps = 1
  Bps = {1, 2}
  MaxClock = 4
  MaxPredictions = 3
SYMMETRY Symmetry
INVARIANTS
  IndexConsistent
  SettledInLaterBlock
PROPERTIES
  Tamperproof
  AccuracyFinal
CHECK_DEADLOCK FALSE
