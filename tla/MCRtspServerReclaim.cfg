CONSTANTS
  Producer = {"raop_rtp"}
  Rtp = "raop_rtp"
  a = a
  b = b
  Sender = {a, b}
  NoSender = nobody
  IdleMax = 1
  Worlds <- MCReclaimWorlds
SPECIFICATION Spec
CHECK_DEADLOCK FALSE
PROPERTIES LiveStreamNotReclaimed
