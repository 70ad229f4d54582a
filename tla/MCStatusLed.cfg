CONSTANTS
  Streams = 2
SPECIFICATION Spec
INVARIANTS StaysDark
CHECK_DEADLOCK FALSE
