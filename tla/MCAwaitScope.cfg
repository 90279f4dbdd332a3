CONSTANTS
  TaskCount = 2
  TimeoutMs = 2
  NoTask = NoTask
  MaxTime = 2
SPECIFICATION AwaitSpec
INVARIANTS ScopeAgrees OutcomeIsEarned RefusedOnlyLate
PROPERTIES ImplementsContract EndsOrLoses
CHECK_DEADLOCK FALSE
