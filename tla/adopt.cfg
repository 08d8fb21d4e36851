SPECIFICATION Spec
CONSTANTS
  Choices = {p1, p2}
  Kinds = {{}, {"strict"}}
  Claimants = {1, 2, 3}
  Versions = {1, 2, 3, s1}
  NoVersion = none
  Nobody = nobody
  NoProposal = noproposal
  Workflows = {"simple", "final"}
  Keys = {p1, p2}
  Refreshes = {f1, f2, f3}
  NoLock = nolock
  Saves = {s1}
  MaxRequests = 3
  MaxCrashes = 1
SYMMETRY Alike
INVARIANTS LooksUpOnce OneVersionPerChoice SuccessIsBacked VersionIsNamed SelectionHasOwner
PROPERTIES AdoptsTheOfferedBase CommittedIsFinal
