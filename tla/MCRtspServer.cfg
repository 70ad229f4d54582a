CONSTANTS
  Producer = {"raop_rtp"}
  Rtp = "raop_rtp"
  a = a
  b = b
  Sender = {a, b}
  NoSender = nobody
  IdleMax = 1
  Worlds <- MCWorlds
SPECIFICATION Spec
CHECK_DEADLOCK FALSE
INVARIANTS RtpSocketsOpen StreamHasSender KeyIsOfThisConnection NoSocketLeak
PROPERTIES QuietSenderDropped OrderlyNotReclaimed CallerIsAnswered
