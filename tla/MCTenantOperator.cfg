CONSTANTS
  t1 = t1
  t2 = t2
  w1 = w1
  w2 = w2
  Tenants = {t1}
  Existing = {}
  Workers = {w1}
  MinReplicas = 1
  MaxReplicas = 2
  Workloads <- AllWorkloads
  Readings <- AllReadings
  Ranges <- Moving
  NoTenant = NoTenant
  NoRange = NoRange
  MaxFaults = 1
  MaxLives = 2
  MaxChanges = 1
SPECIFICATION FairSpec
INVARIANTS
  TypeOK
PROPERTIES
  StatusAgreesWithSpec
  IsolationPersists
  
CHECK_DEADLOCK FALSE
