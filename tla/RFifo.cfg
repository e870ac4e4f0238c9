SPECIFICATION Spec
CONSTANTS
  Depth = 2
  Char = {c1, c2}
  Flags = {ok, pe}
  NoFlags = ok
INVARIANTS
  TypeOK
  ErrorsBelongToWords
PROPERTIES
  ImplementsQueue
  LossIsReported
