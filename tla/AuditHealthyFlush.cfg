\* No statement fails, and the writer's select meets a shutdown.
CONSTANTS
  h1 = h1  h2 = h2
  Handler <- TwoHandlers
  Emits = 2
  Capacity = 1
  BatchSize = 2
  MaxAttempts = 2
  MaxFaults = 0
SPECIFICATION Spec
INVARIANT HealthyFlush
CHECK_DEADLOCK FALSE
