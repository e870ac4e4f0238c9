SPECIFICATION Spec
CONSTANTS
  Data <- MCData
  LineModes <- MCLineModes
  Divisors = {1, 2}
INVARIANTS
  TypeOK
  DeliveredIsSent
PROPERTIES
  EverythingArrives
