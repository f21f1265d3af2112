SPECIFICATION FairSpec
CONSTANTS
  QueueCapacity = 2
  Watermark = 80
  RssLimit = 10
  LoadLimit = 85
  RssReadings = {9, 11}
  LoadReadings = {90}
  RingCapacity = 1
  MaxFrames = 3
INVARIANT TypeOK
INVARIANT Conservation
INVARIANT LateIntakeBounded
INVARIANT WalInOrder
PROPERTY ImplementsLossyFifo
PROPERTY EveryFrameSettles
PROPERTY WriterFollowsCapture
PROPERTY EventualRecovery
