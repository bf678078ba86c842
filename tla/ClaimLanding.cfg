SPECIFICATION Spec
CONSTANTS
  Consoles = {c0, c1}
  Boot = c0
  Editors = {c0}
INVARIANT TrapLandingLive
CHECK_DEADLOCK FALSE
