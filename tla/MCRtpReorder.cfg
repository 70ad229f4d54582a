CONSTANTS
  Window = 4
  HoldArg = 2
  SeqMod = 16
  p1 = p1
  p2 = p2
  bad = bad
  Payload <- MCPayload
  BadPayload <- bad
SPECIFICATION Spec
SYMMETRY Symm
INVARIANTS UnreadInWindow GapIsTheMissingRun
PROPERTIES UnreadKeptUntilPlayed ImplementsJitterBuffer
