SPECIFICATION Spec
CONSTANTS
  N = 1
  SendErrors = {}
  ReadErrors = {"plain"}
  MaxStoreFault = 0
PROPERTIES
  NoBlindResend
CHECK_DEADLOCK FALSE
