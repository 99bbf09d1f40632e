SPECIFICATION FairSpec
CONSTANTS
  MaxSent = 2
INVARIANTS
  Inv
  StreamsIntact
  EndsWhole
  NothingLeaks
PROPERTIES
  ImplementsPipe
  TunnelEnds
  EndReachesClient
  CancelEnds
CHECK_DEADLOCK FALSE
