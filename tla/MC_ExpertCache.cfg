CONSTANTS
  k1 = k1
  k2 = k2
  k3 = k3
  f1 = f1
  f2 = f2
  bg = bg
  Keys <- MCKeys
  Weigh <- MCWeigh
  Workers <- MCWorkers
  Loader = bg
  Ops <- MCOps
  Batches <- MCBatches
  Ranked <- MCRanked
  CountCap = 3
  PinBudget = 5
  Budgets <- MCBudgets
  QueueCap = 1
  MaxHeat = 1
  W = 1
  HeatCap = 0
  NoEntry = NoEntry
  NoKey = NoKey
SPECIFICATION CacheOrPass
INVARIANTS
  BytesMatchEntries
  LedgerMatchesCache
  OutcomeIsDeclared
  LeastRecentlyUsedFirst
PROPERTIES
  BatchSurvivesInsert
  OverBudgetOnlyProtected
  PinnedNeverEvicted
  CallsReturn
