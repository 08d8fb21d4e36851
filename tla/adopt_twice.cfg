SPECIFICATION Spec
CONSTANTS
  Choices = {p1, p2}
  Kinds = {{}}
  Claimants = {1, 2}
  Versions = {1, 2}
  NoVersion = none
  Nobody = nobody
  NoProposal = noproposal
  Workflows = {"simple"}
  Keys = {p1, p2}
  Refreshes = {}
  NoLock = nolock
  Saves = {}
  MaxRequests = 2
  MaxCrashes = 1
INVARIANT AdoptedOnce
