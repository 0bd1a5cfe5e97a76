CONSTANTS
  c1 = c1
  c2 = c2
  e1 = e1
  e2 = e2
  k1 = k1
  p1 = p1
  Callers = {c1}
  Events = {e1, e2}
  Keys = {k1}
  KeyOf <- OneKey
  Partitions = {p1}
  Log <- OnePartition
  Undecodable = Undecodable
  Manual = {}
  NoOwner = NoOwner
  MaxRetries = 0
  MaxPollRecords = 1
  MaxFaults = 1
  MaxDisruptions = 0
SPECIFICATION Spec
INVARIANT NilMeansReconciled
CHECK_DEADLOCK FALSE
