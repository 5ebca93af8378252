CONSTANTS
  TARGET_RAM_PCT = 90
  RUNTIME_RESERVE = 300
  WORKING_RESERVE = 300
  ADAPTIVE_DANGER_FLOOR = 300
  ADAPTIVE_HARD_FLOOR = 200
  OOM_MARGIN = 100
  CACHE_CAP_DIVISOR = 3
  MIN_BUDGET = 100
  CTX_RAM_RESERVE = 400
  KV_BUDGET_CAP = 200
  NEARFIT_COVERAGE_PCT = 95
  O_DIRECT_MAX_COVERAGE_PCT = 60
  MMAP_MIN_COVERAGE_PCT = 90
  FFN_DEVCOPY_MAX_COVERAGE_PCT = 40
  DISK_BOUND_COVERAGE_PCT = 25
  Mem <- MCMem
  Others <- MCOthers
  FirstBudget <- MCFirst
  Plan <- MCPlan
  DangerArg <- MCDanger
  HardArg <- MCHard
  FLOOR_MIN = 1
  HARD_SLACK = 1
  SUSTAIN = 2
  BRAKE_TICKS = 1
  MAX_BRAKE = 1
  CAP_RECOVER_PER_TICK = 1
  MAX_PASSES = 2
  MaxBatch = 2
  CtxLen <- MCCtxLen
  Requests <- MCRequests
  BytesPerToken = 1
  FixedBytes = 1
  WarmupTokens = 1
  Ceiling <- MCCeiling
  Dense <- MCDense
  Scratch <- MCScratch
SPECIFICATION Spec
INVARIANTS
  ReservationsBalance
PROPERTIES
  GuardRecovers
  BudgetTakesHold
  RequestEnds
  ShutdownEnds
