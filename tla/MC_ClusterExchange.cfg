CONSTANTS
  e0 = e0
  e1 = e1
  e2 = e2
  e3 = e3
  h0 = h0
  h1 = h1
  h2 = h2
  Peers <- MCPeers
  Experts <- MCExperts
  Heads <- MCHeads
  Maps <- MCMaps
  DriverMap <- MCDriverMap
  HeadMap <- MCHeadMap
  Routes <- MCRoutes
  MaxCalls = 2
SPECIFICATION Spec
INVARIANTS
  SumIsExact
  OnlyAgreeingPeersWork
PROPERTY CallEnds
