CONSTANTS
  alice = alice
  bob = bob
  Accounts = {alice, bob}
  Width = 30
  Start = 1000000
  BlockNetLimit = 1048576
  BlockCpuLimit = 200000
  MaxTransactionNetUsage = 524288
  MaxTransactionCpuUsage = 150000
  NetUsageLeeway = 500
  MinTransactionCpuUsage = 100
  AccountNetLimit <- FiniteNet
  Greylisted = {}
  IsProducingBlock = TRUE
  SkipTrxChecks = FALSE
  AccountCpuLimit <- FiniteCpu
INIT Init
NEXT Next
INVARIANT CpuLimitNeverRelaxed
