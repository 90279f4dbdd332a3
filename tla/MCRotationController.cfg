CONSTANTS
  Candidates <- MCCandidates
  Ticks <- MCTicks
  Ballots <- MCBallots
  NoTick = NoTick
  NoTransition = NoTransition
  Quorum = 2
  Receipts <- MCReceipts
  FirstAuthority <- MCAuthority
  FirstFloor <- MCFloor
  CanaryN = 1
  MaxCrashes = 1
  MaxRollbacks = 1
SPECIFICATION FairSpec
INVARIANTS AlwaysRestorable SignerKeyExists
PROPERTY RotationEnds
CHECK_DEADLOCK FALSE
