SPECIFICATION Spec
CONSTANTS
  a = a
  b = b
  r = r
  m1 = m1
  m2 = m2
  m3 = m3
  Nodes = {a, b}
  Msgs = {m1, m2, m3}
  Author <- MCAuthor
  AddressedTo <- MCUnaddressed
  Sealers = {}
  MaxCrashes = 1
  NoHead = NoHead
INVARIANTS SentIsQueued
