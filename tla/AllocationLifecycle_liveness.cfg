SPECIFICATION FairSpec
CONSTANTS
  Procs = {p1, p2}
  Allocs = {a, b}
  Native = {a}
  MaxRefusals = 0
  MaxFaults = 1
  MaxUnknown = 0
  MaxCaptures = 1
  MaxLeases = 1
  None = None
PROPERTIES
  CallsReturn
  DroppedIsFreed
