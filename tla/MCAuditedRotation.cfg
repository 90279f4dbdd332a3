CONSTANTS
  Candidates <- MCCandidates
  Ticks <- MCTicks
  Ballots <- MCBallots
  NoTick = NoTick
  NoTransition = NoTransition
  Quorum = 2
  BatchSizes <- MCBatchSizes
  Capacities <- MCCapacities
  Epochs <- MCEpochs
  TornWrites = TRUE
  MaxRecords = 3
  MaxLifetimes = 1
SPECIFICATION AuditedSpec
INVARIANTS LossOnlyByRevocation WriterLeftOldEpoch
PROPERTY SealsUnderLiveEpoch
CHECK_DEADLOCK FALSE
