SPECIFICATION Spec
CONSTANTS
  MaxTokens = 5
  MaxDepth = 2
  Shapes = {"odd"}
INVARIANTS LoopsFound
CHECK_DEADLOCK FALSE
