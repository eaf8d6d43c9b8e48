SPECIFICATION Spec
CONSTANTS
  Procs = {p1, p2}
  Allocs = {a, b}
  Native = {a}
  MaxRefusals = 1
  MaxFaults = 1
  MaxUnknown = 1
  MaxCaptures = 1
  MaxLeases = 1
  None = None
SYMMETRY Symmetry
INVARIANTS
  TypeOK
  PermitExclusive
  CaptureExcludesDriver
  NoFreeUnderLease
  OwnerKept
PROPERTIES
  FreeSubmittedOnce
CHECK_DEADLOCK FALSE
