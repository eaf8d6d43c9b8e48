SPECIFICATION Spec
CONSTANTS
  Procs = {p1, p2}
  Allocs = {a, b}
  Native = {a}
  MaxRefusals = 1
  MaxFaults = 0
  MaxUnknown = 0
  MaxCaptures = 0
  MaxLeases = 0
  None = None
SYMMETRY Symmetry
INVARIANTS
  DrainWithoutNeededPermit
