SPECIFICATION EndpointSpec
CONSTANTS
  Daemons = {d1, d2}
  StopCommands = {k1}
  Busy = {}
  NoSocket = NoSocket
  NoPid = NoPid
INVARIANTS OneServes
CHECK_DEADLOCK FALSE
