SPECIFICATION Spec
CONSTANTS
  head = head
  delta = delta
  narrow = narrow
  wide = wide
  None = None
  Names = {head, delta}
  Heads = {head}
  Rows = {1, 2}
  Keys = {narrow, wide}
  IndexBytes <- MCIndexBytes
  MaxBytes = 2
  Exprs <- MCExprs
  MaxVersion = 2
INVARIANTS
  NoStaleIndex
  NoStaleCse
  WithinBudget
  AdaptiveExact
