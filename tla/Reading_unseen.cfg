SPECIFICATION ReadingSpec
CONSTANTS
  Letters = {1, 2}
  Questions = {1}
  Thread = {1}
  Readers = {r1}
  NoReading = NoReading
INVARIANTS ReadWasShown
CHECK_DEADLOCK FALSE
