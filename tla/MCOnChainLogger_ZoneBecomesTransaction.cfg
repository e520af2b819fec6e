SPECIFICATION Spec
CONSTANTS
  agent = agent
  other = other
  meth = meth
  usdc = usdc
  Agent = agent
  Callers <- MCCallers
  Hashes <- MCHashes
  OutcomeWindow = 1
  MaxBps = 1
  MaxClock = 0
  Severities = {3}
  Prices = {1, 2}
  MaxCycles = 2
  MaxFaults = 0
INVARIANT ZoneBecomesTransaction
CHECK_DEADLOCK FALSE
