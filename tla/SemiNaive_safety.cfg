SPECIFICATION Spec
CONSTANTS
  Facts <- MCFacts
  Preds = {"e", "g", "p", "q"}
  PredOf <- MCPredOf
  Recursive = {"p", "q"}
  Rules <- MCRules
  HeadOf <- MCHead
  Scans <- MCScans
  Width = 2
  Instances <- MCInstances
  Inserts <- MCInserts
  MaxIterations = 2
  Chain = {"path"}
  Extreme <- MCExtreme
  Unpackable = {}
INVARIANTS
  Exact
  DeltasSuffice
  NoIdleRound
PROPERTY Implements
