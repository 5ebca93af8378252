CONSTANTS
  h1 = h1
  h2 = h2
  mon = mon
  Threads <- MCThreads
  Committers <- MCCommitters
  Reporters <- CpuReporters
  Amounts <- MCAmounts
  MaxAmount = 2
  Ceiling = 5
  MaxPolls = 1
  W = 16
  Serialised <- CpuSerialised
  NoHandle = NoHandle
SPECIFICATION Spec
INVARIANTS
  CommitmentsBounded
  TotalAccountsForAll
PROPERTY RefinesLedger
