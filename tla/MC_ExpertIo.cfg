CONSTANTS
  Bufs = {1, 2, 3, 4, 5}
  DIO_ALIGN = 2
  POOL_MIN = 3
  PoolMax = 1
  PoolMaxBytes = 8
  SPINS = 1
  Tensor <- MCTensor
  FileLen <- MCFileLen
  Loaders = {1, 2}
  Addr <- MCAddr
  Setups <- MCSetups
  READ_SUB = 2
  MaxHeld = 3
SPECIFICATION Spec
INVARIANTS
  ViewsExact
  PageLocksSound
  ArenaKept
PROPERTIES
  LoadsEnd
