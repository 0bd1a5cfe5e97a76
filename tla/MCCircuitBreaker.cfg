CONSTANTS
  c1 = c1
  c2 = c2
  c3 = c3
  c4 = c4
  Callers = {c1, c2, c3, c4}
  FailureThreshold = 3
  OpenTimeout = 4
  ProbeTimeout = 3
  MaxFaults = 4
SPECIFICATION BreakerFairSpec
INVARIANTS
  BreakerTypeOK
  NeverWedged
  
PROPERTY Recovers
