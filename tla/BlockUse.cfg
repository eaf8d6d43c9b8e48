SPECIFICATION FairSpec
CONSTANTS
  n = n
  f = f
  s = s
  t = t
  w1 = w1
  r12 = r12
  w2 = w2
  None = None
  Ops <- MCOps
  Streams = {s, t}
  Storages = {n, f}
  Native = {n}
  BytesOf <- MCBytesOf
  LeaseOn <- MCLeaseOn
  StreamOf <- MCStreamOf
  SourcesOf <- MCSourcesOf
  ReadsOf <- MCReadsOf
  WritesOf <- MCWritesOf
  MaxFaults = 2
INVARIANTS
  NoRace
  FreedAfterUse
PROPERTIES
  Ordered
  OpsSettle
  DroppedGivenBack
