\* Two requests of two events each over a channel of two and batches of two: the
\* channel fills up, batches fill up and ticks find them half full.  Two attempts and
\* two failures: a batch is retried, and one fails for good.
CONSTANTS
  h1 = h1  h2 = h2
  Handler <- TwoHandlers
  Emits = 2
  Capacity = 2
  BatchSize = 2
  MaxAttempts = 2
  MaxFaults = 2
SPECIFICATION Spec
INVARIANTS TypeOK StoredOnce InOrder BacklogBounded
PROPERTIES Ledger ShutdownEnds
CHECK_DEADLOCK FALSE
