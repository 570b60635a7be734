SPECIFICATION LockSpec
CONSTANTS
  Procs = {p1, p2}
  NoFile = NoFile
INVARIANTS MutualExclusion
CHECK_DEADLOCK FALSE
