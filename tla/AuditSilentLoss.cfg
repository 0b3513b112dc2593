\* One failed insert, and a shutdown during the delay after it.
CONSTANTS
  h1 = h1  h2 = h2
  Handler <- TwoHandlers
  Emits = 2
  Capacity = 1
  BatchSize = 2
  MaxAttempts = 2
  MaxFaults = 1
SPECIFICATION Spec
INVARIANT NothingSilentlyLost
CHECK_DEADLOCK FALSE
