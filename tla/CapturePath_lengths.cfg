SPECIFICATION Spec
CONSTANTS
  Ports = {80, 5000}
  CapturePorts = {80}
  MaxCopy = 14
  SliceBytes = 5
  Options = {0, 2}
  MaxPayload = 12
  MinFrame = 9
  Link = 2
  Ip = 2
  Tcp = 2
  Udp = 1
INVARIANT BothDirections
INVARIANT TruncationVisible
INVARIANT PcapShowsTruncation
CHECK_DEADLOCK FALSE
