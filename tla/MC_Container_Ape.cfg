SPECIFICATION Spec
CONSTANTS
  Models <- V4Only
  ConvertEnvs <- IndexerEnvs
  MaxPasses = 1
  MaxLayersIdx = 4
  MaxStopIds = 2
INVARIANT LoadedAsTrained
CHECK_DEADLOCK FALSE
