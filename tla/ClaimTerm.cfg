SPECIFICATION Spec
CONSTANTS
  Consoles = {c1, c2}
  First = c1
  Nobody = Nobody
  MaxArrived = 1
PROPERTY OthersKeepConnection
CHECK_DEADLOCK FALSE
