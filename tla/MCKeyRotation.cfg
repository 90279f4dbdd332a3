CONSTANTS
  Candidates <- MCCandidates
  Ticks <- MCTicks
  Ballots <- MCBallots
  NoTick = NoTick
  NoTransition = NoTransition
  Quorum = 2
SPECIFICATION Spec
INVARIANTS RingAlwaysVerifies PhaseMatchesRing
PROPERTIES AppendOnly VerifyPowerKept SignerHandover
CHECK_DEADLOCK FALSE
