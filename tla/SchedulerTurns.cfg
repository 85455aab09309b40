\* Three public and two reward buys with room for two and one: blocked heads, freed
\* by failed answers and by orders taken back.
SPECIFICATION SchedSpec
CONSTANTS
  PublicBuys = {b1, b2, b3}
  RewardBuys = {w1, w2}
  Sells = {}
  Keys <- MCKeys
  Assets = {nvda}
  BPS = 5
  RewardShareBps = 1
  LimitDelay = 0
  InitialLimits <- TightLimits
  MinOrderUsd = 1
  Usds = {}
  Raws = {}
  LimitChoices <- NoLimitChoices
  CapChoices = {}
  RawBound = 0
  Principal = 2
  BuyFee = 0
  Extra = 2
  RouteFees = {1, 3}
  LzFee = 1
  SharesIn = 1
  FeeBps = 0
  Refusers = {}
  HubFloat = 0
  Subsidies = {1}
  ExtraBound = 3
  AdminActs = {}
  InitialSupply = 0
  PublicPerReward = 2
  ScanBound = 2
  QueueBound = 3
INVARIANTS PendingIsQueuedOnce RewardTurnComes
PROPERTIES PublicOrderOfArrival
SYMMETRY LaneSymmetry
\* Every order may end up launched or closed.
CHECK_DEADLOCK FALSE
