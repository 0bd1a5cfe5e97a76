SPECIFICATION FairSpec
CONSTANTS
  p1 = p1
  Tenants <- TwoTenants
  Me = 2
  Publishers = {p1}
  Scraped = p1
  Isolated = {2}
  Total = 4
  Partitions = {0, 1, 2, 3, 4, 5, 6}
  DefaultSize = 2
  Idle = Idle
  MaxChanges = 1
  MaxFailures = 1
INVARIANTS
  PropagationTypeOK
  NeverUnassigned
  NothingAfterClose
  HonestExit

  
CHECK_DEADLOCK FALSE
