SPECIFICATION InterpreterSpec
CONSTANTS
  MaxGosub = 2
  MaxNested = 2
  MaxIf = 1
  MaxSel = 2
  MaxCtrl = 1
  Lines = {l1, l2}
  Kinds = {"function", "event", "execute"}
  Faults = {"statement", "entry", "target", "break"}
  OnError = "abort"
  Contexts = {c0}
  First = c0
  Names = {"x", "y"}
  Suffixed = {"x"}
  Types = {"num", "int"}
  Default = "num"
  TableSize = 1
  MaxSlots = 2
  MaxCalls = 2
  Uses = {}
SYMMETRY LineSymmetry
INVARIANTS TypeOK NestedMatchesC TickBusyLive OpenSelectsHold SlotsSound IndexAuthoritative ReplaysItsOwn
PROPERTIES NoResurrection CallersKept Scoped
