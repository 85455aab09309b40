SPECIFICATION SealSpec
CONSTANTS
  Tokens = {t1}
  Lanes = {}
  Chunk = 2
  Lookback = 1
  DayBound = 0
  BlockBound = 2
  EventBound = 1
  SealCrashes = 0
  SendAttempts = 2
INVARIANTS EverySourceIsFound
CHECK_DEADLOCK FALSE
