SPECIFICATION FairSpec
CONSTANTS
  RecSizes <- MCSmallRecords
  BufCapacity = 3
  SegmentSize = 4
  MaxSegments = 2
  MaxRestarts = 1
PROPERTY TimedRotation
CHECK_DEADLOCK FALSE
