\* Liveness: scans of two entries, so that closed ones are passed by a scan, or block it.
SPECIFICATION FairSched
CONSTANTS
  PublicBuys = {b1, b2, b3}
  RewardBuys = {w1}
  Sells = {}
  Keys <- MCKeys
  Assets = {nvda}
  BPS = 5
  RewardShareBps = 1
  LimitDelay = 0
  InitialLimits <- WideLimits
  MinOrderUsd = 1
  Usds = {}
  Raws = {}
  LimitChoices <- NoLimitChoices
  CapChoices = {}
  RawBound = 0
  Principal = 2
  BuyFee = 0
  Extra = 2
  RouteFees = {1}
  LzFee = 1
  SharesIn = 1
  FeeBps = 0
  Refusers = {}
  HubFloat = 0
  Subsidies = {}
  ExtraBound = 3
  AdminActs = {}
  InitialSupply = 0
  PublicPerReward = 3
  ScanBound = 2
  QueueBound = 3
PROPERTIES EveryOrderLeaves
\* Every order may end up launched or closed.
CHECK_DEADLOCK FALSE
