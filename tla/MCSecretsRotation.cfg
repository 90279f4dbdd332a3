CONSTANTS
  Creds = {c1}
  Policies <- MCPolicies
  WipesFail = TRUE
  BadProvider = TRUE
  MaxOps = 3
  MaxGen = 2
  MaxBuffers = 3
SPECIFICATION FairSpec
INVARIANTS NoOrphan DisposedHoldsNothing StaleNeverServed
PROPERTIES PolicyKeepsToItsHandle AllSettle
CHECK_DEADLOCK FALSE
