\* Every call of the accessors on two UARTs, in any order.
CONSTANTS
  Base <- MCBase
  Byte <- MCByte
  Calls <- MCCalls
  ReqModulus = 3
SPECIFICATION Spec
INVARIANTS TypeOK NeverAborts
PROPERTIES ImplementsRegisterMap EveryCallReturns
CHECK_DEADLOCK FALSE
