CONSTANTS
  Candidates <- MCCandidates
  Ticks <- MCTicks
  Ballots <- MCBallots
  NoTick = NoTick
  NoTransition = NoTransition
  Quorum = 2
SPECIFICATION Spec
INVARIANT FreshMintCanLock
CHECK_DEADLOCK FALSE
