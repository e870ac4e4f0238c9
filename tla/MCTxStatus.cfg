SPECIFICATION FairSpec
CONSTANTS
  Depth = 1
  Data <- MCData
  LineModes <- MCLineModes
  Registers = {"TR", "II", "IE", "FC"}
  CtsLevels = {TRUE, FALSE}
  EnableLevels = {TRUE}
  Burst = FALSE
INVARIANTS
  TypeOK
  StatusTruthful
PROPERTIES
  ComesEmpty
  AsksForMore
