SPECIFICATION MachineSpec
CONSTANTS
  Procs = {p1, p2, p3}
  NoFile = NoFile
  Networks = {n1}
  Connections = {c1, c2}
  Nothing = Nothing
  MaxRequests = 2
  Cadences <- MachineCadences
  MaxFailures = 4
  Doubled <- MachineDoubled
  NoActivity = NoActivity
  Agents = {x1, x2}
  Machines = {y1, y2}
  Humans = {u1, u2}
  Rooms = {r1}
  RoomWide = RoomWide
  LiveWithin = 1
  AwayAfter = 3
  FutureSkew = 1
  NoTime = NoTime
  NoMachine = NoMachine
  a = a
  b = b
  r = r
  m1 = m1
  m2 = m2
  m3 = m3
  Nodes = {a, b, r}
  Msgs = {m1, m2, m3}
  Author <- MCAuthor
  AddressedTo <- MCForReader
  Sealers = {a}
  MaxCrashes = 1
  NoHead = NoHead
  Unlisted = Unlisted
INVARIANTS MachineTypeOK ExclusiveUnlessMisremoved QuietAfterStop ReaderCursorIsProcessed
PROPERTIES CondemnsOnlyTheAbandoned AbandonedLockIsBroken WakeIsServed SettledArrivalIsPublished SentReachesRoom PostedIsDelivered
CHECK_DEADLOCK FALSE
