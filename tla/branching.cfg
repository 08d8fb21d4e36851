SPECIFICATION Spec
CONSTANTS
  Session = s1
  Sessions = {s1}
  Calls = {1, 2, 3}
  Turns = {1, 2, 3, 4, 5, 6}
  Saves = {m1}
  NoVersion = none
  Unbound = unbound
  MaxTurns = 6
  MaxCrashes = 1
INVARIANTS TypeOK AnswersFollow MessagesStayEditable PlanIsAccountedFor
PROPERTIES UndisturbedEdit SupersededIsFinal ResumedOnItsBase
