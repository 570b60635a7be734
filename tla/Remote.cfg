SPECIFICATION RemoteSpec
CONSTANTS
  a = a
  b = b
  m1 = m1
  m2 = m2
  m3 = m3
  m4 = m4
  m5 = m5
  Nodes = {a, b}
  Msgs = {m1, m2, m3, m4, m5}
  Author <- MCAuthor
  AddressedTo <- MCAddressedTo
  Sealers = {b}
  MaxCrashes = 1
  NoHead = NoHead
  c1 = c1
  c2 = c2
  n1 = n1
  n2 = n2
  r1 = r1
  s1 = s1
  s2 = s2
  s3 = s3
  Clones = {c1, c2}
  RecordRooms = {r1}
  NetNames = {n1, n2}
  Sessions = {s1, s2, s3}
  MaxTracked = 2
  NoName = NoName
  NoCard = NoCard
  NoRoom = NoRoom
  RecordScopes <- MCScopes
  Daemons = {d1, d2, d3}
  StopCommands = {k1}
  Busy = {d1, d2, d3}
  NoSocket = NoSocket
  NoPid = NoPid
INVARIANTS RemoteTypeOK SentIsDurable ServingIsReachable StoppedIsQuiet RoomsAreConfigured SessionsKeepLive
PROPERTIES RoomAppendOnly ImplementsMailbox MainKeepsRecords
CHECK_DEADLOCK FALSE
SYMMETRY MCSymmetry
