SPECIFICATION Spec
CONSTANTS
  MaxCtx = 16
  DConv = 3
  Score <- MCScore
  IndexTopk = 2
  LocalBlocks = 1
  HcMult = 2
  Archs <- MCArchs
  Prompts <- MCPrompts
  NewTokens = {0, 2, 6}
  Vocab <- MCVocab
  StopIds = {0}
  Budgets = {0, 1, 3}
  AutoOffAfter = 3
  LM <- MCLM
  KvLora = 2
  QkRope = 1
  KvDim = 4
  QkHead = 4
  IndexHd = 4
  RecurrentLen = 5
  Cuda = TRUE
CHECK_DEADLOCK FALSE
INVARIANTS
  RingCharged
