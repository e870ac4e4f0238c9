SPECIFICATION FairSpec
CONSTANTS
  Depth = 3
  Char = {c}
  ErrorSets = {{}}
  TriggerLevels = {1, 2}
  Timeout = 2
  PushSpacing = 1
  Registers = {"RB", "LS", "FC", "IE"}
PROPERTY
  NothingForgotten
