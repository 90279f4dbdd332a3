CONSTANTS
  BatchSizes <- MCBatchSizes
  Capacities <- MCCapacities
  Epochs <- MCEpochs
  TornWrites = TRUE
  MaxRecords = 4
  MaxLifetimes = 2
SPECIFICATION Spec
INVARIANTS LifetimeVerifies NoRecordStraddles DamageIsNoticed
PROPERTY ImplementsTrail
CHECK_DEADLOCK FALSE
