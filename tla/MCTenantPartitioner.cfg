SPECIFICATION Spec
CONSTANTS
  Tenants <- ThreeTenants
  Instruments = {i1}
  TenantHash <- TenantHashes
  InstrumentHash <- InstrumentHashes
  Configs <- SomeConfigs
  KnownTenants = {1}
  UnknownTenantLabel = UnknownTenantLabel
  DefaultSize = 2
  InitialPartitions = 1
  MaxPartitions = 4
  MaxReloads = 2
  NoPartition = NoPartition
INVARIANTS
  TypeOK
  
  ReservedNotShared
  PoolNotShared
  GaugeShowsTable
PROPERTIES
  ImplementsTable
CHECK_DEADLOCK FALSE
