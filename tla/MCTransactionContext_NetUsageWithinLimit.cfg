CONSTANTS
  alice = alice
  bob = bob
  Accounts = {alice, bob}
  Width = 30
  Start = 300000000
  BlockNetLimit = 1048576
  BlockCpuLimit = 200000
  MaxTransactionNetUsage = 524288
  MaxTransactionCpuUsage = 150000
  NetUsageLeeway = 500
  MinTransactionCpuUsage = 100
  BasePerTransactionNetUsage = 12
  TransactionIdNetUsage = 32
  ContextFreeDiscountNetUsageNum = 20
  ContextFreeDiscountNetUsageDen = 100
  BillableSizeGto = 96
  AccountNetLimit <- StakedNet
  AccountCpuLimit <- StakedCpu
  RamLimit <- StakedRam
  Greylisted = {}
  IsProducingBlock = TRUE
  SkipTrxChecks = FALSE
  Transactions <- MixedTrx
  CallerDeadlines <- CallerDeadlineSet
  BilledCpuInputs = {1000}
  PackedSizes = {100}
  NetUsages = {1600}
  RamDeltas = {100}
  TickSizes = {5000}
  MaxTime <- TimeBound
  MaxHostCalls = 2
INIT Init
NEXT Next
CHECK_DEADLOCK FALSE
INVARIANT NetUsageWithinLimit
