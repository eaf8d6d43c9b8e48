SPECIFICATION BatchSpec
CONSTANTS
  Facts <- MCFacts
  PredOf <- MCPredOf
  Components <- MCComponents
  Recursive <- MCRecursive
  Instances <- MCInstances
  Initial = {"q2"}
  Updated = {"e", "b"}
  Forbidden = {"c"}
  ReadFails = FALSE
  NoStore = {none}
INVARIANTS
  CacheExact
