SPECIFICATION FairSpec
CONSTANTS
  Patches = {p1, p2}
  Mutations = {m1, m2}
  Selections = {s1}
  Restores = {r1}
  Populations = {{p1, p2, m1, m2}, {p1, m1, s1, r1}}
  First = v0
  Nobody = nobody
  MaxCrashes = 1
INVARIANTS TypeOK NoLostEdit ActiveIsNewest RolledBackLeavesNoTrace ActiveExists
PROPERTIES LinearHistory EveryWriteEnds
