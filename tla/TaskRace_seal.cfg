SPECIFICATION TaskSpec
CONSTANTS
  c = c
  a = a
  b = b
  office = office
  desk = desk
  Nobody = Nobody
  Agents = {c, a}
  Creator = c
  Machine <- MCMachine
  Titles = {"t1", "t2"}
  Targets = {Nobody}
  MaxId = 4
  Scopes <- MCSealed
INVARIANTS SealingKeepsTasks
CHECK_DEADLOCK FALSE
