SPECIFICATION Spec
CONSTANTS
  Atoms = {a1, a2, a3}
  Worlds = {w1, w2}
  First = w1
  MaxIterations = 4
  Programs <- MCPrograms
INVARIANTS
  ModelExact
  StableAgree
  LimitSuffices
  ProvenanceSound
SYMMETRY Symmetry
CHECK_DEADLOCK FALSE
