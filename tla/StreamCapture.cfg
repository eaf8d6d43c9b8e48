SPECIFICATION FairSpec
CONSTANTS
  None = None
  Capturers = {c, d}
  Submitters = {p, q}
  Streams = {s, t}
  MaxCaptures = 2
  MaxFaults = 1
INVARIANTS
  AdmissionsHold
  GraphWhole
  CaptureKeyed
PROPERTIES
  FinishReturns
