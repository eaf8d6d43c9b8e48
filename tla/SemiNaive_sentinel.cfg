SPECIFICATION Spec
CONSTANTS
  Facts <- MCFacts
  Preds = {"e", "g", "p", "q"}
  PredOf <- MCPredOf
  Recursive = {"p", "q"}
  Rules <- MCRules
  HeadOf <- MCHead
  Scans <- MCScans
  Width = 2
  Instances <- MCInstances
  Inserts <- MCInserts
  MaxIterations = 4
  Chain = {"path"}
  Extreme <- MCExtreme
  Unpackable = {"pmm"}
INVARIANT FailsClosed
