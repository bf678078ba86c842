SPECIFICATION ConsolesSpec
CONSTANTS
  Contexts = {c1, c2}
  First = c1
  Names = {"x", "y"}
  Suffixed = {"x"}
  Types = {"num", "int"}
  Default = "num"
  TableSize = 1
  MaxSlots = 2
  MaxCalls = 2
  Uses = {}
PROPERTY OwnVariables
CHECK_DEADLOCK FALSE
