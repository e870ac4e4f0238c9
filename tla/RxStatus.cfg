SPECIFICATION Spec
CONSTANTS
  Depth = 2
  Char = {c}
  ErrorSets = {{}, {pe}}
  TriggerLevels = {2}
  Timeout = 1
  PushSpacing = 1
  Registers = {"RB", "LS", "FC", "IE"}
INVARIANTS
  TypeOK
  DataReadyTruthful
  OverrunIsVisible
  LineStatusInterruptNotLost
