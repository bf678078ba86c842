SPECIFICATION TerminalSpec
CONSTANTS
  Byte = {0, 255}
  Zero = 0
  Capacity = 4
  MaxRequest = 5
  Consoles = {c1, c2}
  First = c1
  Nobody = Nobody
  MaxArrived = 1
  Files = 2
  FileBlocks = 2
  MaxRep = 8
  Troubles = {{"line"}, {"line", "ends"}, {"line", "disk"}}
  MaxDamage = 1
  MaxStalls = 1
  MaxFaults = 1
  MaxLine = 3
INVARIANTS CursorsAgree Typed SocketOwned OwnBytes KeptWhole
PROPERTIES InOrder ConnectDrained AllArrive
CHECK_DEADLOCK FALSE
