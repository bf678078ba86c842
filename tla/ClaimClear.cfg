SPECIFICATION Spec
CONSTANTS
  Contexts = {c1}
  First = c1
  Names = {"x", "y"}
  Suffixed = {"x"}
  Types = {"num", "int"}
  Default = "num"
  TableSize = 1
  MaxSlots = 2
  MaxCalls = 2
  Uses = {"clear"}
INVARIANT SlotsSound
CHECK_DEADLOCK FALSE
