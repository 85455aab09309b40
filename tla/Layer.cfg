\* A buy, a reward buy, a sell, and a buy and a sell sharing both floats.
SPECIFICATION MCLayerSpec
CONSTANTS
  PublicBuys = {b1, b2}
  RewardBuys = {w1}
  Sells = {s1, s2}
  PairBuy = b2
  PairSell = s2
  Migrations = {m1}
  Keys <- MCKeys
  Refs <- MCRefs
  Assets = {nvda}
  BPS = 4
  RewardShareBps = 1
  LimitDelay = 0
  InitialLimits <- WideLimits
  MinOrderUsd = 1
  Usds = {}
  Raws = {}
  LimitChoices <- NoLimitChoices
  CapChoices = {}
  RawBound = 0
  Principal = 6
  BuyFee = 1
  Extra = 2
  RouteFees = {1, 3}
  LzFee = 1
  SharesIn = 2
  FeeBps = 1
  Refusers = {s1}
  HubFloat = 6
  Subsidies = {1}
  AdminActs = {"fees", "withdraw", "hubFloat", "mints", "vaultFloat"}
  InitialSupply = 2
  BuyOuts = {2}
  SellOuts = {0, 6}
  MigrationIns = {1}
  InitialStock = 2
  InitialUsd = 6
  Rejecting = {b2}
  OrderMsgs = {}
  DeliverMsgs = {}
  FundAmounts = {1}
  PaidBound = 1
  UsdBound = 0
  StockBound = 0
  Costs = {0, 1}
  HubDust = {1}
  LossBound = 1
  TopUpBound = 2
INVARIANTS HubSolvent EveryShareBacked HubAgreesWithVault
  PaidOnce CancelledBuyIsWhole ReservedUntilAnswered RewardIsStockOrRefund
\* A closed order leaves nothing to do.
CHECK_DEADLOCK FALSE
