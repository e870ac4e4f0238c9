SPECIFICATION Spec
CONSTANTS
  Depth = 4
  Char = {c1, c2}
INVARIANTS
  TypeOK
  PointersAgree
PROPERTY
  ImplementsQueue
