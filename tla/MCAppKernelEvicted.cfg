CONSTANTS
  Requests = {q1, q2}
  Keys = {k1}
  LimitSets <- MCLimitSets
  LeaseCap = 1
  RetiredCap = 1
  MaxEpoch = 1
  MaxExpiries = 1
SPECIFICATION Spec
INVARIANT DeliveryEndsUnknown
CHECK_DEADLOCK FALSE
