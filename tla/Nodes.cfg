SPECIFICATION NodeSpec
CONSTANTS
  Nodes = {a, b}
  Msgs = {1, 2, 3}
  Window = 1
  Tokens <- NodeTokens
  Holder <- NodeHolder
  NoLock = NoLock
  SlowHolders = FALSE
  MaxFailures = 2
  Hosts = {h1, h2}
  Places = {q1, q2, q3}
  HostOf <- NodeHost
  Posts = {1, 2}
  PlaceOf <- NodePlace
  ForMe = {1}
  Wanted = {1}
  WatchOptions <- NodeOptions
  h1 = h1
  h2 = h2
  q1 = q1
  q2 = q2
  q3 = q3
  Syncs = {a, b}
  Tasks = {t1}
  MaxPerHour = 1
  NoReport = NoReport
  Letters = {1, 2}
  Questions = {1}
  Thread = {1}
  Readers = {a, b}
  NoReading = NoReading
  Works = {w1, w2}
  Commands = {a, b, p}
  Claims = {j1}
  Policies <- NodePolicies
  Unset = Unset
  Komnets = {k1, k2}
  GitRuns = {g1, g2, g3, g4}
  RunBy <- NodeRunBy
  Writes <- NodeWrites
  NoRun = NoRun
  k1 = k1
  k2 = k2
  g1 = g1
  g2 = g2
  g3 = g3
  g4 = g4
INVARIANTS PlanIsResumable FreshLocksStay WatchIsHonest ActivationsAreBounded AnnouncedIsTold QuestionsWaitForPeople
PROPERTIES RoomGetsSealed GrantsArePermitted
CHECK_DEADLOCK FALSE
