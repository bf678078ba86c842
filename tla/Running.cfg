SPECIFICATION RunningSpec
CONSTANTS
  Consoles = {c0, c1, c2}
  Boot = c0
  Editors = {c0}
  MaxTokens = 6
  MaxDepth = 2
  Shapes = {}
INVARIANTS Foreground OneProgram PrintsWhatItSays
PROPERTIES ParkedContinues SwitchHappens GoesOn
