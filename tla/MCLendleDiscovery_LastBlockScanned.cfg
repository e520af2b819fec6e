SPECIFICATION Spec
CONSTANTS
  poll = poll
  diag = diag
  u1 = u1
  u2 = u2
  u3 = u3
  Topics <- MCTopics
  Borrowers <- MCBorrowers
  Logs <- MCLogs
  Threads <- MCThreads
  Requests <- MCRequests
  Depth = 2
  Chunk = 2
  Capped = FALSE
  StartBlock = 1
  MaxBlock = 5
  MaxEvents = 2
INVARIANTS
  LastBlockScanned
