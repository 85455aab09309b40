SPECIFICATION SealSpec
CONSTANTS
  Tokens = {}
  Lanes = {l1}
  Chunk = 2
  Lookback = 1
  DayBound = 1
  BlockBound = 1
  EventBound = 3
  SealCrashes = 1
  SendAttempts = 2
INVARIANTS CarryWatermarkIsFinal
CHECK_DEADLOCK FALSE
