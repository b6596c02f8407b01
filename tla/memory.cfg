SPECIFICATION Spec
CONSTANTS
  Unset = Unset
  Legacy = "legacy"
  DefaultPrincipal = "local"
  DefaultEpoch = "live"
  NoSource = NoSource
  Writers = {c1, c2}
  Agendas <- AgendasDef
  Readers <- ReadersDef
  Snapshot <- SnapshotDef
  SingleValued = {"has_name"}
  RecallLimit = 2
  MaxSweeps = 2
  Tasks = {c1, c2}
  Calls <- CallsDef
  Peers = {"ann"}
  MaxNotes = 2
  MaxOpen = 2
  MaxCrashes = 1
  Workers = {c1, c2}
  Jobs <- JobsDef
  Full = 4
  CMin = 1
  LowImportance = 1
  Ttl = 1
  EpisodicCap = 1
  PoolReaders = {"a2"}
  PoolWriters = {"a1", "a2"}
  PoolSensitive = FALSE
  PoolConfidence = 1
  PoolCap = 1
  MaxClock = 2
  MaxKills = 1
CHECK_DEADLOCK FALSE
INVARIANTS BeliefsAreCurrent MemoryKeepsItsScope NothingIsOverwritten ForgettingIsSafe
SYMMETRY Symmetry
