SPECIFICATION FairRewards
CONSTANTS
  Tokens = {t1}
  Lanes = {l1}
  Chunk = 1
  Lookback = 1
  DayBound = 2
  BlockBound = 2
  EventBound = 2
  SealCrashes = 1
  EntryBudget <- OneQueue
  EntryGroup <- OneGroup
  RunLimit = 4
  RoundMinimum = 2
  MaxActiveRounds = 1
  PlanBound = 2
  RoundCrashes = 1
  PushAllocs = {a1}
  PushRevisions = 2
  Accounts = 2
  BatchSize = 1
  PushAttempts = 2
  PushDays = 1
  PushCrashes = 1
  Requesters = {r1, r2}
  Coalesce = 1
  Refresh = 1
  Ttl = 2
  Usable = 2
  MaxDelay = 1
  MishapBound = 1
  SendAttempts = 2
INVARIANTS RewardTypeOK NothingBehindCursor WatermarkIsFinal DispatchedOnce
PROPERTIES
  EveryEpochSealed RoundsEnd RevisionIsWalked EveryDemandServed
  CompletionCoversAll OnePushPerWave
CHECK_DEADLOCK FALSE
