SPECIFICATION ServicesSpec
CONSTANTS
  Users = {c1}
  Names = {"a", "b"}
  Slots = 4
  MaxPath = 2
  Wild = {{}, {"vacate"}, {"under", "vacate"}}
  Hosts = {h1, h2}
  MaxDials = 3
  Starters = {c1, c2}
  None = None
  Chunks = 2
  Window = 2
  Pictures = {p0, p1}
  Blank = p0
  Depth = 3
  MaxRefused = 1
  Wrap = 14
  Patience = 3
  LongestPause = 4
  Lifetime = 6
  Height = 2
  Width = 2
  MaxFailures = 1
  Tops = {1}
  Bottoms = {1, 2}
  Lefts = {1, 2}
  Rights = {2}
INVARIANTS
  Typed NamesUnique TreeSound CwdLeadsBack HandlesHeld CompleteMeansWhole
  DiscardsAsked WindowBounded ScreenCurrent
  SocketAsked ToldForGood
PROPERTIES Answered OneLine LinkUsed DrainEnds DialEnds
CHECK_DEADLOCK FALSE
