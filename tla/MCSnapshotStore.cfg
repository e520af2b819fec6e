SPECIFICATION Spec
CONSTANTS
  p1 = p1
  p2 = p2
  Positions <- MCPositions
  Readings <- MCReadings
  Blocks = {1, 2}
  Filters = {"any", "CRITICAL"}
  Floors = {"MEDIUM", "CRITICAL"}
  PageSize = 1
  Feeds <- MCFeeds
  SeriesLimit = 1
  MaxCycles = 2
INVARIANTS
  TypeOK
  AnswerIsOneCycle
  SavedIsHydrated
  PagesFollowHealth
  TotalsMatchSummary
  SeenStaysVisible
PROPERTIES
  LatestNeverGoesBack
CHECK_DEADLOCK FALSE
