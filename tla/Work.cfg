SPECIFICATION WorkSpec
CONSTANTS
  c = c
  a = a
  b = b
  office = office
  desk = desk
  Nobody = Nobody
  Agents = {c, a, b}
  Creator = c
  Machine <- MCMachine
  Titles = {"t1"}
  Targets = {Nobody, desk}
  MaxId = 4
  Scopes <- MCScopes
  Nodes = {a, b}
  Msgs = {1, 2, 3}
  Window = 1
  Tokens <- WorkTokens
  Holder <- WorkHolder
  NoLock = NoLock
  SlowHolders = TRUE
  MaxFailures = 1
  Requester = q
  Reviewer = w
  ReplyBudget = 2
  MaxPost = 5
  ReviewScopes <- WorkReviews
  Claimants = {a, b}
  NoHolder = NoHolder
  Ttl = 2
  Horizon = 4
  LeaseScopes <- WorkLeases
  Server = server
  Direct = direct
  Commands = {k1}
  Calls = {a, b}
  HomeRooms = {r1}
  Home = home
  Nets = {home, other}
  Torn = Torn
  MaxSaves = 2
INVARIANTS WorkTypeOK OwnerKeepsTask MetHistoriesAgree PrunedIsRecorded SealedOnce OnlyRacesLose AutonomousTalkIsBounded FirmLeaseHolds SeenIsServed
PROPERTIES SealKeepsUncontestedTasks LockLeavesRightly SealKeepsOpenReviews OnlyOverlapsLose
SYMMETRY WorkSymmetry
VIEW WorkView
CHECK_DEADLOCK FALSE
