CONSTANTS
  Signers = {w1, w2, w3}
  Thresholds = {0, 1, 2, 3}
  MaxVotes = 3
SPECIFICATION Spec
INVARIANTS CompositionIsOrderFree ConsensusBetweenBounds QuorumIsTally
CHECK_DEADLOCK FALSE
