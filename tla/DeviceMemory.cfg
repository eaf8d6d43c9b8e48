SPECIFICATION FairSpec
CONSTANTS
  Procs = {p1, p2}
  Tickets = {a, b, c}
  Old = a
  Sizes = {1, 2}
  Limit = 3
  LocalLimit = 3
  InitialUsed = 1
  InitialReclaimed = 5
  None = None
INVARIANTS
  PhysicalWithinLimit
  ReservationHonoured
  Settled
  OwnersTracked
PROPERTIES
  ClaimsSpec
  CallsReturn
