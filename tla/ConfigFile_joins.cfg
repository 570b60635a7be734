SPECIFICATION ConfigSpec
CONSTANTS
  Server = server
  Direct = direct
  Commands = {k1}
  Calls = {q1, q2}
  HomeRooms = {r1, r2}
  Home = home
  Nets = {home, other}
  Torn = Torn
  MaxSaves = 2

PROPERTIES JoinsSurvive
CHECK_DEADLOCK FALSE
