CONSTANTS
  c1 = c1
  c2 = c2
  e1 = e1
  e2 = e2
  k1 = k1
  p1 = p1
  Callers = {c1, c2}
  Events = {e1, e2}
  Keys = {k1}
  KeyOf <- OneKey
  Partitions = {p1}
  Log <- OnePartition
  Undecodable = Undecodable
  Manual = {}
  NoOwner = NoOwner
  MaxRetries = 1
  MaxPollRecords = 2
  MaxFaults = 1
  MaxDisruptions = 1
SPECIFICATION Spec
SYMMETRY Symmetry
INVARIANTS
  ConsumerTypeOK
  CommittedIsHandled
  FoldedAtMostOnce
  DoneIsCovered
PROPERTIES
  CommitsAdvance
  OnlyAdvances
  RecSpec
  ImplementsLedger
CHECK_DEADLOCK FALSE
