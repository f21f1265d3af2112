SPECIFICATION FairSpec
CONSTANTS
  QueueCapacity = 1
  Watermark = 80
  RssLimit = 10
  LoadLimit = 85
  RssReadings = {5, 11}
  LoadReadings = {10}
  RingCapacity = 2
  MaxFrames = 3
PROPERTY CaptureFollowsWriter
