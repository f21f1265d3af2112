SPECIFICATION Spec
CONSTANTS
  QueueCapacity = 2
  Watermark = 80
  RssLimit = 10
  LoadLimit = 85
  RssReadings = {5, 11}
  LoadReadings = {10, 40}
  RingCapacity = 2
  MaxFrames = 1
INVARIANT RecoversBelow80
