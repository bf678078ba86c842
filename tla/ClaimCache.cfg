SPECIFICATION Spec
CONSTANTS
  Contexts = {c1}
  First = c1
  Names = {"x", "y"}
  Suffixed = {"x"}
  Types = {"num", "int"}
  Default = "num"
  TableSize = 1
  MaxSlots = 2
  MaxCalls = 2
  Uses = {}
INVARIANT ReplaysTheInnermost
CHECK_DEADLOCK FALSE
