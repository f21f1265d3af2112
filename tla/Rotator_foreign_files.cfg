SPECIFICATION FairSpec
CONSTANTS
  MaxSegments = 2
  MaxSegNo = 3
  MaxOthers = 2
  MaxMisreads = 0
  InitSegNos = {0}
PROPERTY RotationCompletes
