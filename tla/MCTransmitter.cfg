SPECIFICATION FairSpec
CONSTANTS
  Depth = 2
  Data <- MCData
  LineModes <- MCLineModes
  ClearAnyTime = FALSE
INVARIANTS
  NoUnderrun
PROPERTIES
  ImplementsSerializer
