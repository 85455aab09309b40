\* The guardian lowers the single-order limit below queued orders.
SPECIFICATION FairSched
CONSTANTS
  PublicBuys = {b1}
  RewardBuys = {w1}
  Sells = {}
  Keys <- MCKeys
  Assets = {nvda}
  BPS = 5
  RewardShareBps = 1
  LimitDelay = 0
  InitialLimits <- TightLimits
  MinOrderUsd = 1
  Usds = {}
  Raws = {}
  LimitChoices <- Lowered
  CapChoices = {}
  RawBound = 0
  Principal = 2
  BuyFee = 0
  Extra = 2
  RouteFees = {1}
  LzFee = 1
  SharesIn = 1
  FeeBps = 0
  Refusers = {}
  HubFloat = 0
  Subsidies = {}
  ExtraBound = 3
  AdminActs = {}
  InitialSupply = 0
  PublicPerReward = 3
  ScanBound = 2
  QueueBound = 3
PROPERTIES OversizedIsRefunded
\* Every order may end up launched or closed.
CHECK_DEADLOCK FALSE
