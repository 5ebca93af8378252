SPECIFICATION Spec
CONSTANTS
  Models <- AllModels
  ConvertEnvs <- UsualEnvs
  MaxPasses = 2
  MaxLayersIdx = 4
  MaxStopIds = 2
INVARIANT LoadedAsTrained
INVARIANT CompletedLoads
INVARIANT HeadWholeOrOff
CHECK_DEADLOCK FALSE
