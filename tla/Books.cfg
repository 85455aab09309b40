\* Three tickets, or two assets under changing limits; two buys, or a sell, its
\* escalation, a buy, a migration batch and donations.
SPECIFICATION BookSpec
CONSTANTS
  Keys = {k1, k2, k3}
  Assets = {nvda, tsla}
  BPS = 5
  RewardShareBps = 1
  LimitDelay = 1
  InitialLimits <- MCLimits
  MinOrderUsd = 1
  Usds = {1, 2}
  Raws = {0, 1, 2}
  LimitChoices <- GovernanceChoices
  CapChoices = {2, 3}
  RawBound = 2
  Buys = {b1, b2}
  Sells = {s1}
  Refs <- MCRefs
  Migrations = {m1}
  BuyOuts = {1}
  SellOuts = {1, 2}
  MigrationIns = {1}
  InitialStock = 1
  InitialUsd = 1
  Rejecting = {b2, s1}
  OrderMsgs <- MCOrders
  DeliverMsgs <- MCDelivers
  FundAmounts = {1, 2}
  PaidBound = 3
  UsdBound = 3
  StockBound = 2
INVARIANTS CountersAreTickets NoStrandedBasis
  OneResultPerRef RefMoneyConserved FullyBacked LiabilitiesCovered
PROPERTIES ExposureGrowsWithinCaps LogAccountsForStock
SYMMETRY KeySymmetry
