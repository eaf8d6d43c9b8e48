SPECIFICATION BatchSpec
CONSTANTS
  Facts <- MCFacts
  PredOf <- MCPredOf
  Components <- MCComponents
  Recursive <- MCRecursive
  Instances <- MCInstances
  Initial = {"e1"}
  Updated = {"e", "b"}
  Forbidden = {"c"}
  ReadFails = FALSE
  NoStore = {none}
INVARIANTS
  CacheExact
  SeedExact
  RetainedSound
  ConstraintsHold
PROPERTIES
  BatchesApply
