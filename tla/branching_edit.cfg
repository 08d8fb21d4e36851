SPECIFICATION Spec
CONSTANTS
  Session = s1
  Sessions = {s1}
  Calls = {1, 2, 3, 4}
  Turns = {1, 2, 3, 4, 5, 6, 7}
  Saves = {}
  NoVersion = none
  Unbound = unbound
  MaxTurns = 7
  MaxCrashes = 0
PROPERTY EditReturnsToMessage
