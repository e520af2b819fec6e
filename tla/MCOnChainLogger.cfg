SPECIFICATION LiveSpec
CONSTANTS
  agent = agent
  other = other
  meth = meth
  usdc = usdc
  Agent = agent
  Callers <- MCCallers
  Hashes <- MCHashes
  OutcomeWindow = 1
  MaxBps = 1
  MaxClock = 1
  Severities = {3}
  Prices = {1, 2}
  MaxCycles = 2
  MaxFaults = 1
INVARIANTS
  NoNonceGap
  AtMostOnce
  ReportedIsSubmitted
PROPERTIES
  PoolDrains
CHECK_DEADLOCK FALSE
