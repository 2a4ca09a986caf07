SPECIFICATION AuditSpec
CONSTANTS
  daemon = daemon
  cli = cli
  replica = replica
  Nobody = Nobody
  NoHash = NoHash
  Writers <- Symmetric
  MaxLegacy = 1
  MaxRecords = 4
  MaxPrunes = 2
  MaxFails = 1
  MaxTampers = 1
INVARIANTS ChainIntact NothingLost TamperFound
PROPERTY PruneRepairs
CHECK_DEADLOCK FALSE
