SPECIFICATION FairSpec
CONSTANTS
  Calls = {k1, k2, k3}
  MaxSlots = 2
  Workers = 1
  Turns = {t1}
  Messages = {m1}
  MaxCycles = 3
  MaxWrites = 1
  NoCall = nocall
INVARIANTS SlotsConserved ServerDraftIsEarned OnePlanningAttempt
PROPERTIES TurnsEnd
