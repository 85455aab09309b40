SPECIFICATION FairKeepers
CONSTANTS
  FailedBuys = {b1}
  UnpaidSells = {s1}
  RefundDue = 3
  RefundFloat = 3
  RefundPurse = 3
  RefundCap = 4
  MaxPerTick = 1
  RefundDays = 1
  RefundCrashes = 1
  LaunchIds = {1, 2}
  QuoteIds = {q1, q2}
  LaunchCrashes = 1
  Results = 2
  Foreign = {}
  ReconcileMax = 2
  LaneCrashes = 1
  WaitBuys = {v1}
  SoldSells = {v2}
  BuyCost = 2
  SaleMoney = 2
  MinReturn = 2
  FloatMoney = 0
  TopUps = 1
  WorkerCrashes = 1
  SendAttempts = 2
  Keys = {k1, k2}
  SignedOnce = k2
  MaxAttempts = 2
  Reopenable = {k1}
  MaxReopens = 1
  NonceBound = 3
  MaxAborts = 1
  Slow = TRUE
INVARIANTS
  KeeperTypeOK WithinWithdrawal LaunchRecordIsDeposit JournalsAreBehind SignaturesAreCounted
PROPERTIES
  WithdrawnCloses LaunchGoesOn EveryResultProven MoneyMovesOn KeepsPromise SentIsResolved
CHECK_DEADLOCK FALSE
