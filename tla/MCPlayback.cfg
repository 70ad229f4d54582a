CONSTANTS
  Capacity = 6
  WriteMax = 2
  ReadMax = 2
  Frames = 12
  Prefill = 5
  Packet = 2
SPECIFICATION Spec
INVARIANTS PadIsNextFrame UnreadIntact ReadInOrder
PROPERTIES PlaysAllButTheShed ResumesPrefilled FrameIsPlayed
