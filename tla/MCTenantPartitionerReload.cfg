SPECIFICATION Spec
CONSTANTS
  Tenants <- TwoTenants
  Instruments = {i1, i2}
  TenantHash <- TenantHashes
  InstrumentHash <- InstrumentHashes
  Configs <- NoReservation
  KnownTenants = {1}
  UnknownTenantLabel = UnknownTenantLabel
  DefaultSize = 2
  InitialPartitions = 3
  MaxPartitions = 3
  MaxReloads = 1
  NoPartition = NoPartition
PROPERTY SameKeySamePartition
