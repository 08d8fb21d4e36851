SPECIFICATION Spec
CONSTANTS
  Count = 3
  SlotCount = 2
  MaxPages = 2
  Requests = {ch1, ch2}
  Initial = initial
  Nobody = nobody
CHECK_DEADLOCK FALSE
INVARIANT RetryCanSettle
