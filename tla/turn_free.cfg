SPECIFICATION FairSpec
CONSTANTS
  s1 = s1
  c1 = c1
  c2 = c2
  c3 = c3
  r1 = r1
  r2 = r2
  ch1 = ch1
  m1 = m1
  Sessions = {s1}
  Requests = {r1, r2}
  Turns = {r1, r2}
  Claimants = {r1, r2}
  Versions <- MCVersions
  Unbound = unbound
  NoVersion = none
  Nobody = nobody
  NoChoice = nochoice
  Choices = {ch1}
  Kinds = {{}}
  Calls = {c1, c2, c3}
  RequestOf <- TwiceAndAnother
  SessionOf <- InSession
  ChoiceOf <- PressNone
  Saves = {m1}
  MaxCrashes = 1
INVARIANTS TypeOK FenceExcludesCancel LeaseExclusive GeneratedAtMostOnce FencedNeverCancelled SuccessIsDurable
PROPERTIES LeaseReleased
