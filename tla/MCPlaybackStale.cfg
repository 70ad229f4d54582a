CONSTANTS
  Capacity = 6
  WriteMax = 2
  ReadMax = 2
  Frames = 12
  Prefill = 3
  Packet = 2
SPECIFICATION Spec
PROPERTIES NothingStaleIsPlayed
