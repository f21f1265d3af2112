SPECIFICATION FairSpec
CONSTANTS
  Segments <- MCSegments
  Source <- MCSource
  CacheBudget = 1
  PendingBudget = 2
  MaxRetries = 2
  BatchSizes = {2}
  MaxFaults = 1
  MaxRestarts = 1
INVARIANT TypeOK
INVARIANT FilesArePrefixes
INVARIANT WatermarkIsFileSize
INVARIANT PendingAhead
INVARIANT PendingBounded
PROPERTY PendingKept
PROPERTY RefillEnds
CHECK_DEADLOCK FALSE
