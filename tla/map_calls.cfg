SPECIFICATION Spec
CONSTANTS
  Legs = {l1, l2}
  Places = {p1}
  Scopes = {f1}
  Unscoped = none
  MaxCalls = 2
  Window = 5
  MinInterval = 2
  Cooldown = 2
  Nobody = nobody
  Briefs = {b1, b2}
  Captures = {c1, c2}
  Parallelism = 2
  MaxPhases = 2
SYMMETRY Alike
INVARIANTS RouteWorkFits AskedOnce Paced
PROPERTIES RefusalStopsCaptures
