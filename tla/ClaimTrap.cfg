SPECIFICATION ClaimsSpec
CONSTANTS
  MaxGosub = 2
  MaxNested = 1
  MaxIf = 1
  MaxSel = 1
  MaxCtrl = 0
  Lines = {"l1"}
  Kinds = {"function"}
  Faults = {"statement"}
  OnError = "goto"
INVARIANT TrapLands
