SPECIFICATION Spec
CONSTANTS
  SendGap = 2
  ClientTimeout = 1
  MaxRetryAfter = 1
  Slack = 1
  RetryAfters = {1, 2}
  MaxAlerts = 2
  MaxTime = 13
INVARIANTS
  NoDuplicateAlert
  AnswersDoNotBlock
  GapKept
  PostIsBounded
CHECK_DEADLOCK FALSE
