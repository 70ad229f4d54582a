CONSTANTS
  Window = 4
  HoldArg = 2
  SeqMod = 16
  N = 9
  FirstSeq = 12
  Outage = 5
  Lifetime = 4
  Throttle = 1
  Cadence = 3
  Patience = 2
  Byte = 4
  BadAt = {3}
  DudAt = {5}
  BadLen <- BadAt
  Undecodable <- DudAt
  Payload <- MCPayload
  BadPayload = bad
SPECIFICATION RSpec
PROPERTIES NewestIsBuffered
