CONSTANTS
  write1 = write1
  write2 = write2
  write3 = write3
  pay = pay
  coin = coin
  obj = obj
  coin1 = coin1
  coin2 = coin2
  obj1 = obj1
  obj2 = obj2
  obj3 = obj3
  Tx <- MCTx
  Key <- MCKey
  ObjectID <- MCObjectID
  IdOf <- MCIdOf
  VerOf <- MCVerOf
  RoKeys <- MCRoKeys
  DefKeys <- MCDefKeys
  Outputs <- MCOutputs
  Genesis <- MCGenesis
  EpochOf <- OneEpoch
  Position <- MCPosition
  Shared <- MCShared
  Rpc = {}
  Scheduler = scheduler
  Executor = executor
  Recovery = recovery
  CacheSize = 1
  Permits = 2
  MaxBatch = 1
  MaxCrashes = 0
  MaxEpoch = 0
CHECK_DEADLOCK FALSE
SPECIFICATION Spec
INVARIANT
  NoLostWakeup
