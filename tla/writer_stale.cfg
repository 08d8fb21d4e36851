SPECIFICATION Spec
CONSTANTS
  Patches = {p1}
  Mutations = {}
  Selections = {}
  Restores = {r1}
  Populations = {{p1, r1}}
  First = v0
  Nobody = nobody
  MaxCrashes = 0
PROPERTY StaleNeverMovesActive
