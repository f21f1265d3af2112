SPECIFICATION FairSpec
CONSTANTS
  RecSizes <- MCRecSizes
  BufCapacity = 3
  SegmentSize = 4
  MaxSegments = 2
  MaxRestarts = 2
INVARIANT TypeOK
INVARIANT SegmentsArePrefixes
INVARIANT SealedComplete
INVARIANT RecordsInOrder
INVARIANT SegmentBounded
PROPERTY AppendOnly
PROPERTY RotationCompletes
CHECK_DEADLOCK FALSE
