CONSTANTS
  Modems = {"tcpser"}
  TX_STALL_LIMIT = 3
  MaxCalls = 2
  MaxText = 2
SPECIFICATION Spec
PROPERTY AtHangsUp
