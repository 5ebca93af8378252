\* A finished placement is not placed again and the passes are bounded.
CONSTANTS
  NodeCounts <- MCNodeCounts
  ExpertCounts <- MCExpertCounts
  Capacities <- MCCapacities
  Weights <- MCWeights
  Layers <- MCLayers
  ShipCounts <- MCShipCounts
  MaxFile <- MCMaxFile
  FileCounts <- MCFileCounts
  LoadBudgets <- MCLoadBudgets
  MaxPasses <- MCMaxPasses
SPECIFICATION AllSpec
CHECK_DEADLOCK FALSE
INVARIANTS
  PlacementFollowsCapacity
  BlocksTile
  WeightsExact
