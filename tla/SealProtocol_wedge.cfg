SPECIFICATION Spec
CONSTANTS
  Nodes = {a, b}
  Msgs = {1, 2, 3}
  Window = 1
  Tokens <- MCTokens
  Holder <- MCHolder
  NoLock = NoLock
  SlowHolders = TRUE
  MaxFailures = 0
INVARIANTS PlanIsResumable
CHECK_DEADLOCK FALSE
