CONSTANTS
  publish = publish
  reader = reader
  writer = writer
  coin = coin
  pkg = pkg
  obj = obj
  coin1 = coin1
  coin2 = coin2
  pkg0 = pkg0
  obj1 = obj1
  obj2 = obj2
  Tx <- MCTx
  Key <- MCKey
  ObjectID <- MCObjectID
  IdOf <- MCIdOf
  VerOf <- MCVerOf
  RoKeys <- MCRoKeys
  DefKeys <- MCDefKeys
  Outputs <- MCOutputs
  Genesis <- MCGenesis
  EpochOf <- OneEpoch
  Position <- MCPosition
  Shared <- MCShared
  Rpc = {rpc}
  Scheduler = scheduler
  Executor = executor
  Recovery = recovery
  CacheSize = 1
  Permits = 2
  MaxBatch = 1
  MaxCrashes = 0
  MaxEpoch = 0
SPECIFICATION Spec
INVARIANTS
  TypeOK
  ReadyInputsCommitted
  LockInv
  NoLostWakeup
  NoDuplicateDispatch
PROPERTIES
  DefaultWaitsForReaders
