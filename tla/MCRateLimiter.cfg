SPECIFICATION LimiterSpec
CONSTANTS
  c1 = c1
  c2 = c2
  c3 = c3
  k1 = k1
  NoBucket = NoBucket
  Handlers = {c1, c2, c3}
  Keys = {k1}
  Cost = 2
  Burst = 4
  MaxTime = 4
SYMMETRY Symmetry
INVARIANTS
  LimiterTypeOK
  WithinRate
  RefusedIsRecent
