CONSTANTS
  t1 = t1
  t2 = t2
  w1 = w1
  w2 = w2
  Tenants = {t1, t2}
  Existing = {t1, t2}
  Workers = {w1, w2}
  MinReplicas = 1
  MaxReplicas = 1
  Workloads <- NoWorkload
  Readings <- Normal
  Ranges <- Fixed
  NoTenant = NoTenant
  NoRange = NoRange
  MaxFaults = 0
  MaxLives = 0
  MaxChanges = 2
SPECIFICATION Spec
SYMMETRY FullSymmetry
PROPERTIES
  OnlyOwnEntry
CHECK_DEADLOCK FALSE
